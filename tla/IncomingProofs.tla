--------------------------- MODULE IncomingProofs ----------------------------
(***************************************************************************)
(* Theorems about Incoming, for every base and number of digits, any set   *)
(* of message ids, and any number of messages, reconnections and retries:  *)
(* the bytes read so far and those to come are the packets sent, and       *)
(* messages of QoS 2 are released once.                                    *)
(***************************************************************************)
EXTENDS Incoming, Integers, FiniteSetTheorems, SequenceTheorems, TLAPS

-----------------------------------------------------------------------------
(* Functions defined by recursion on a number exist.                       *)

\* A set of numbers has a least one.
LEMMA Least ==
    ASSUME NEW T \in SUBSET Nat, T # {}
    PROVE  \E x \in T : \A y \in T : x <= y
<1>1. T # {} /\ T \subseteq Nat
  OBVIOUS
<1>2. \E x \in T : \A y \in T : ~ (<<y, x>> \in OpToRel(<, Nat))
  BY ONLY <1>1, NatLessThanWellFounded, WFMin
<1>3. PICK x \in T : \A y \in T : ~ (<<y, x>> \in OpToRel(<, Nat))
  BY ONLY <1>2
<1>4. ASSUME NEW y \in T  PROVE x <= y
  <2>1. x \in Nat /\ y \in Nat /\ ~ (<<y, x>> \in OpToRel(<, Nat))
    BY ONLY <1>1, <1>3, <1>4
  <2>. QED  BY ONLY <2>1 DEF OpToRel
<1>. QED  BY ONLY <1>3, <1>4

\* One step of a recursion: the value of n is given where n is in base, and is
\* otherwise made from the value of a smaller number.
Step(base, first, before, more, f, n) ==
    IF n \in base THEN first[n] ELSE more[<<n, f[before[n]]>>]

\* The recursion is possible.
Recursion(V, base, first, before, more) ==
    /\ before \in [Nat -> Nat]
    /\ \A n \in Nat : n \in base \/ before[n] < n
    /\ first \in [Nat -> V]
    /\ more \in [Nat \X V -> V]

\* The function g obeys the recursion up to k.
UpTo(V, base, first, before, more, k, g) ==
    /\ g \in [0 .. k -> V]
    /\ \A n \in 0 .. k : g[n] = Step(base, first, before, more, g, n)

LEMMA StepType ==
    ASSUME NEW V, NEW base, NEW first, NEW before, NEW more,
           Recursion(V, base, first, before, more),
           NEW n \in Nat, NEW f, n \in base \/ f[before[n]] \in V
    PROVE  Step(base, first, before, more, f, n) \in V
BY DEF Step, Recursion

LEMMA UpToAgree ==
    ASSUME NEW V, NEW base, NEW first, NEW before, NEW more,
           Recursion(V, base, first, before, more),
           NEW k \in Nat, NEW g, UpTo(V, base, first, before, more, k, g),
           NEW m \in Nat, NEW h, UpTo(V, base, first, before, more, m, h),
           NEW i \in Nat, i <= k, i <= m
    PROVE  g[i] = h[i]
<1>. DEFINE T == {n \in Nat : n <= k /\ n <= m /\ g[n] # h[n]}
<1>1. ASSUME T # {}  PROVE FALSE
  <2>0. T \in SUBSET Nat
    OBVIOUS
  <2>1. PICK n \in T : \A j \in T : n <= j
    BY ONLY <1>1, <2>0, Least
  <2>2. n \in Nat /\ n <= k /\ n <= m /\ g[n] # h[n] /\ n \in 0 .. k /\ n \in 0 .. m
    BY <2>1
  <2>3. n \in base \/ (before[n] \in Nat /\ before[n] < n)
    BY <2>2 DEF Recursion
  <2>4. n \in base \/ g[before[n]] = h[before[n]]
    BY <2>1, <2>2, <2>3
  <2>5. /\ g[n] = Step(base, first, before, more, g, n)
        /\ h[n] = Step(base, first, before, more, h, n)
    BY <2>2 DEF UpTo
  <2>6. Step(base, first, before, more, g, n) = Step(base, first, before, more, h, n)
    BY <2>4 DEF Step
  <2>. QED  BY <2>2, <2>5, <2>6
<1>. QED  BY <1>1

LEMMA UpToExists ==
    ASSUME NEW V, NEW base, NEW first, NEW before, NEW more,
           Recursion(V, base, first, before, more), NEW k \in Nat
    PROVE  \E g : UpTo(V, base, first, before, more, k, g)
<1>. DEFINE P(n, g) == UpTo(V, base, first, before, more, n, g)
            T == {n \in Nat : \A g : ~ P(n, g)}
<1>1. ASSUME T # {}  PROVE FALSE
  <2>0. T \in SUBSET Nat
    OBVIOUS
  <2>1. PICK n \in T : \A j \in T : n <= j
    BY ONLY <1>1, <2>0, Least
  <2>2. \E g : /\ g \in [0 .. n - 1 -> V]
               /\ \A i \in 0 .. n - 1 : g[i] = Step(base, first, before, more, g, i)
    <3>1. CASE n = 0
      <4>1. 0 .. n - 1 = {}
        BY <3>1
      <4>2. [i \in {} |-> i] \in [{} -> V]
        OBVIOUS
      <4>. QED  BY <4>1, <4>2
    <3>2. CASE n # 0
      <4>1. n - 1 \in Nat /\ n - 1 \notin T
        BY <2>1, <3>2
      <4>2. \E g : P(n - 1, g)
        BY <4>1
      <4>. QED  BY <4>2 DEF UpTo
    <3>. QED  BY <3>1, <3>2
  <2>3. PICK g : /\ g \in [0 .. n - 1 -> V]
                 /\ \A i \in 0 .. n - 1 : g[i] = Step(base, first, before, more, g, i)
    BY <2>2
  <2>. DEFINE v == Step(base, first, before, more, g, n)
              h == [i \in 0 .. n |-> IF i = n THEN v ELSE g[i]]
  <2>4. n \in Nat /\ (n \in base \/ (before[n] \in Nat /\ before[n] < n))
    BY <2>1 DEF Recursion
  <2>5. v \in V
    BY <2>3, <2>4, StepType
  <2>. HIDE DEF v
  <2>6. h \in [0 .. n -> V] /\ h[n] = v /\ \A i \in 0 .. n - 1 : h[i] = g[i]
    BY <2>3, <2>4, <2>5
  <2>. HIDE DEF h
  <2>7. ASSUME NEW i \in 0 .. n
        PROVE  h[i] = Step(base, first, before, more, h, i)
    <3>1. i \in base \/ (before[i] \in 0 .. n - 1 /\ before[i] < i)
      BY <2>4 DEF Recursion
    <3>2. Step(base, first, before, more, h, i) = Step(base, first, before, more, g, i)
      BY <2>6, <3>1 DEF Step
    <3>3. i = n \/ i \in 0 .. n - 1
      BY <2>4
    <3>. QED  BY <2>3, <2>6, <3>2, <3>3 DEF v
  <2>8. P(n, h)
    BY <2>6, <2>7 DEF UpTo
  <2>. QED  BY <2>1, <2>8
<1>. QED  BY <1>1

LEMMA RecursionExists ==
    ASSUME NEW V, NEW base, NEW first, NEW before, NEW more,
           Recursion(V, base, first, before, more)
    PROVE  \E f \in [Nat -> V] :
              \A n \in Nat : f[n] = Step(base, first, before, more, f, n)
<1>. DEFINE P(n, g) == UpTo(V, base, first, before, more, n, g)
            part(n) == CHOOSE g : P(n, g)
            f == [n \in Nat |-> part(n)[n]]
<1>1. ASSUME NEW n \in Nat  PROVE P(n, part(n))
  <2>1. \E g : P(n, g)
    BY UpToExists
  <2>. QED  BY <2>1, Zenon
<1>. HIDE DEF part
<1>2. ASSUME NEW n \in Nat
      PROVE  /\ f[n] \in V /\ f[n] = part(n)[n]
             /\ f[n] = Step(base, first, before, more, part(n), n)
  BY <1>1 DEF UpTo
<1>3. ASSUME NEW n \in Nat
      PROVE  f[n] = Step(base, first, before, more, f, n)
  <2>1. n \in base \/ (before[n] \in Nat /\ before[n] < n)
    BY DEF Recursion
  <2>2. n \in base \/ part(n)[before[n]] = part(before[n])[before[n]]
    <3>. SUFFICES ASSUME n \notin base
                  PROVE  part(n)[before[n]] = part(before[n])[before[n]]
      OBVIOUS
    <3>1. before[n] \in Nat /\ before[n] <= n /\ before[n] <= before[n]
      BY <2>1
    <3>2. P(n, part(n)) /\ P(before[n], part(before[n]))
      BY <1>1, <3>1
    <3>. QED  BY ONLY <3>1, <3>2, UpToAgree, n \in Nat, Recursion(V, base,
       first, before, more)
  <2>3. n \in base \/ part(n)[before[n]] = f[before[n]]
    BY <1>2, <2>1, <2>2
  <2>. HIDE DEF f
  <2>4. Step(base, first, before, more, part(n), n) = Step(base, first, before, more, f, n)
    BY <2>3 DEF Step
  <2>. QED  BY <1>2, <2>4
<1>4. f \in [Nat -> V]
  BY <1>2
<1>. HIDE DEF f
<1>. QED  BY <1>3, <1>4

-----------------------------------------------------------------------------
(* The digits of a length.                                                 *)

LEMMA ConstantTypes ==
    /\ Base \in Nat /\ Base > 1 /\ MaxDigits \in Nat /\ MaxDigits > 0
    /\ Mids \subseteq Nat /\ MaxMessages \in Nat /\ MaxReconnects \in Nat /\ MaxRetries \in Nat
BY IncomingBounds

\* The equations of Weight and LengthDigits.  A function that obeys one is in a set
\* of one member: the provers would rewrite with an equation for ever.
Weighs(f) == f \in {[i \in Nat |-> IF i = 0 THEN 1 ELSE Base * f[i - 1]]}

LEMMA WeighsExists == \E f \in [Nat -> Nat] : Weighs(f)
<1>. DEFINE first == [n \in Nat |-> 1]
            before == [n \in Nat |-> IF n = 0 THEN 0 ELSE n - 1]
            more == [x \in Nat \X Nat |-> Base * x[2]]
<1>1. Recursion(Nat, {0}, first, before, more)
  BY ConstantTypes DEF Recursion
<1>2. PICK f \in [Nat -> Nat] : \A n \in Nat : f[n] = Step({0}, first, before, more, f, n)
  <2>. HIDE DEF first, before, more
  <2>. QED  BY ONLY <1>1, RecursionExists
<1>3. ASSUME NEW n \in Nat
      PROVE  f[n] = IF n = 0 THEN 1 ELSE Base * f[n - 1]
  <2>1. f[n] = Step({0}, first, before, more, f, n)
    BY <1>2
  <2>2. n # 0 => /\ before[n] = n - 1 /\ f[n - 1] \in Nat
                 /\ more[<<n, f[n - 1]>>] = Base * f[n - 1]
    BY <1>2
  <2>3. n = 0 => first[n] = 1
    OBVIOUS
  <2>. HIDE DEF first, before, more
  <2>. QED  BY <2>1, <2>2, <2>3 DEF Step
<1>4. Weighs(f)
  BY <1>2, <1>3 DEF Weighs
<1>. QED  BY <1>4

LEMMA WeighsValue ==
    ASSUME NEW f, Weighs(f)
    PROVE  /\ f[0] = 1
           /\ \A i \in Nat : f[i + 1] = Base * f[i]
<1>1. ASSUME NEW i \in Nat  PROVE f[i] = IF i = 0 THEN 1 ELSE Base * f[i - 1]
  BY DEF Weighs
<1>2. ASSUME NEW i \in Nat  PROVE f[i + 1] = Base * f[i]
  <2>1. i + 1 \in Nat /\ i + 1 # 0 /\ (i + 1) - 1 = i
    OBVIOUS
  <2>. QED  BY <1>1, <2>1
<1>. QED  BY <1>1, <1>2

LEMMA WeightChoice == Weight = CHOOSE f : Weighs(f)
<1>1. \A f : Weighs(f) <=> (f = [i \in Nat |-> IF i = 0 THEN 1 ELSE Base * f[i - 1]])
  BY Zenon DEF Weighs
<1>. QED  BY <1>1, Zenon DEF Weight

LEMMA WeightWeighs == Weighs(Weight)
BY WeightChoice, WeighsExists, Zenon

LEMMA WeightValue ==
    /\ Weight[0] = 1
    /\ \A i \in Nat : Weight[i + 1] = Base * Weight[i]
    /\ \A i \in Nat : Weight[i] \in Nat /\ Weight[i] > 0
<1>1. /\ Weight[0] = 1
      /\ \A i \in Nat : Weight[i + 1] = Base * Weight[i]
  BY WeightWeighs, WeighsValue
<1>. DEFINE T == {i \in Nat : ~ (Weight[i] \in Nat /\ Weight[i] > 0)}
<1>2. ASSUME T # {}  PROVE FALSE
  <2>0. T \in SUBSET Nat
    OBVIOUS
  <2>1. PICK n \in T : \A j \in T : n <= j
    BY ONLY <1>2, <2>0, Least
  <2>2. n # 0
    BY <1>1, <2>1
  <2>3. n - 1 \in Nat /\ n - 1 \notin T /\ (n - 1) + 1 = n
    BY <2>1, <2>2
  <2>4. Weight[n - 1] \in Nat /\ Weight[n - 1] > 0
    BY <2>3
  <2>5. Weight[n] = Base * Weight[n - 1]
    BY <1>1, <2>3
  <2>6. Weight[n] \in Nat /\ Weight[n] > 0
    BY <2>4, <2>5, ConstantTypes
  <2>. QED  BY <2>1, <2>6
<1>. QED  BY <1>1, <1>2

\* The weight of a digit is a multiple of the weight of an earlier one.
LEMMA WeightMultiple ==
    ASSUME NEW i \in Nat, NEW c \in Nat, i <= c
    PROVE  \E k \in Nat : Weight[c] = k * Weight[i]
<1>. DEFINE T == {n \in Nat : i <= n /\ \A k \in Nat : Weight[n] # k * Weight[i]}
<1>1. ASSUME T # {}  PROVE FALSE
  <2>0. T \in SUBSET Nat
    OBVIOUS
  <2>1. PICK n \in T : \A j \in T : n <= j
    BY ONLY <1>1, <2>0, Least
  <2>2. n # i
    <3>1. Weight[i] = 1 * Weight[i]
      BY WeightValue
    <3>. QED  BY <2>1, <3>1
  <2>3. n - 1 \in Nat /\ n - 1 \notin T /\ (n - 1) + 1 = n /\ i <= n - 1
    BY <2>1, <2>2
  <2>4. PICK k \in Nat : Weight[n - 1] = k * Weight[i]
    BY <2>3
  <2>5. Weight[n] = Base * Weight[n - 1] /\ Weight[i] \in Nat
    BY <2>3, WeightValue
  <2>6. Base * k \in Nat /\ Base * (k * Weight[i]) = (Base * k) * Weight[i]
    BY <2>5, ConstantTypes
  <2>7. Weight[n] = (Base * k) * Weight[i]
    BY ONLY <2>4, <2>5, <2>6
  <2>. QED  BY <2>1, <2>6, <2>7
<1>. QED  BY <1>1

Digit == {"length"} \X Nat \X BOOLEAN

\* The digits of n, given those of smaller numbers.
DigitsOf(f, n) ==
    IF n < Base THEN <<<<"length", n, FALSE>>>>
                ELSE <<<<"length", n % Base, TRUE>>>> \o f[n \div Base]
Spells(f) == f \in {[n \in Nat |-> DigitsOf(f, n)]}

LEMMA Shorter ==
    ASSUME NEW n \in Nat
    PROVE  /\ n \div Base \in Nat /\ n % Base \in Nat /\ n % Base < Base
           /\ n = Base * (n \div Base) + (n % Base)
           /\ n < Base => n \div Base = 0 /\ n % Base = n
           /\ Base <= n => n \div Base < n
<1>1. /\ n \div Base \in Nat /\ n % Base \in Nat /\ n % Base < Base
      /\ n = Base * (n \div Base) + (n % Base)
  BY ConstantTypes
<1>. DEFINE q == n \div Base
<1>2. Base <= n => q < n
  <2>1. n = Base * q + (n % Base) /\ q \in Nat /\ Base >= 2 /\ Base \in Nat
    BY <1>1, ConstantTypes
  <2>2. Base * q >= 2 * q
    BY <2>1
  <2>. HIDE DEF q
  <2>. QED  BY <1>1, <2>1, <2>2
<1>3. n < Base => q = 0
  <2>1. n = Base * q + (n % Base) /\ q \in Nat /\ Base \in Nat
    BY <1>1, ConstantTypes
  <2>2. q >= 1 => Base * q >= Base
    BY <2>1
  <2>. HIDE DEF q
  <2>. QED  BY <1>1, <2>1, <2>2
<1>. QED  BY <1>1, <1>2, <1>3, ConstantTypes

LEMMA SpellsExists == \E f \in [Nat -> Seq(Digit)] : Spells(f)
<1>. DEFINE first == [n \in Nat |-> <<<<"length", n, FALSE>>>>]
            before == [n \in Nat |-> n \div Base]
            more == [x \in Nat \X Seq(Digit) |-> <<<<"length", x[1] % Base, TRUE>>>> \o x[2]]
            base == 0 .. Base - 1
<1>1. Recursion(Seq(Digit), base, first, before, more)
  <2>1. before \in [Nat -> Nat] /\ \A n \in Nat : n \in base \/ before[n] < n
    BY Shorter, ConstantTypes
  <2>2. ASSUME NEW n \in Nat, NEW more_ \in BOOLEAN  PROVE <<<<"length", n, more_>>>> \in Seq(Digit)
    BY DEF Digit
  <2>3. first \in [Nat -> Seq(Digit)]
    BY <2>2
  <2>4. ASSUME NEW x \in Nat \X Seq(Digit)
        PROVE  <<<<"length", x[1] % Base, TRUE>>>> \o x[2] \in Seq(Digit)
    <3>1. x[1] \in Nat /\ x[2] \in Seq(Digit) /\ x[1] % Base \in Nat
      BY Shorter
    <3>2. <<<<"length", x[1] % Base, TRUE>>>> \in Seq(Digit)
      BY <2>2, <3>1
    <3>. QED  BY <3>1, <3>2, ConcatProperties
  <2>5. more \in [Nat \X Seq(Digit) -> Seq(Digit)]
    BY <2>4
  <2>. QED  BY <2>1, <2>3, <2>5 DEF Recursion
<1>2. PICK f \in [Nat -> Seq(Digit)] : \A n \in Nat : f[n] = Step(base, first, before, more, f, n)
  <2>. HIDE DEF first, before, more, base
  <2>. QED  BY ONLY <1>1, RecursionExists
<1>3. ASSUME NEW n \in Nat
      PROVE  f[n] = DigitsOf(f, n)
  <2>1. f[n] = Step(base, first, before, more, f, n)
    BY <1>2
  <2>2. /\ before[n] = n \div Base /\ f[n \div Base] \in Seq(Digit)
        /\ more[<<n, f[n \div Base]>>] = <<<<"length", n % Base, TRUE>>>> \o f[n \div Base]
    BY <1>2, Shorter
  <2>3. first[n] = <<<<"length", n, FALSE>>>>
    BY Zenon
  <2>4. n \in base <=> n < Base
    BY ConstantTypes
  <2>. HIDE DEF first, before, more, base
  <2>. QED  BY <2>1, <2>2, <2>3, <2>4 DEF Step, DigitsOf
<1>4. Spells(f)
  BY <1>2, <1>3 DEF Spells
<1>. QED  BY <1>4

LEMMA LengthDigitsSpells == Spells(LengthDigits)
<1>1. \A f : Spells(f) <=>
               (f = [n \in Nat |-> IF n < Base THEN <<<<"length", n, FALSE>>>>
                                   ELSE <<<<"length", n % Base, TRUE>>>> \o f[n \div Base]])
  BY Zenon DEF Spells, DigitsOf
<1>2. LengthDigits = CHOOSE f : Spells(f)
  BY <1>1, Zenon DEF LengthDigits
<1>. QED  BY <1>2, SpellsExists, Zenon

LEMMA LengthDigitsType == \A n \in Nat : LengthDigits[n] \in Seq(Digit)
<1>1. PICK f \in [Nat -> Seq(Digit)] : Spells(f)
  BY SpellsExists
<1>2. \A n \in Nat : f[n] = DigitsOf(f, n)
  BY <1>1 DEF Spells
<1>3. \A n \in Nat : LengthDigits[n] = DigitsOf(LengthDigits, n)
  BY LengthDigitsSpells DEF Spells
<1>. DEFINE T == {n \in Nat : LengthDigits[n] # f[n]}
<1>4. ASSUME T # {}  PROVE FALSE
  <2>0. T \in SUBSET Nat
    OBVIOUS
  <2>1. PICK n \in T : \A j \in T : n <= j
    BY ONLY <1>4, <2>0, Least
  <2>2. n < Base \/ LengthDigits[n \div Base] = f[n \div Base]
    <3>1. n \in Nat
      BY <2>1
    <3>2. CASE Base <= n
      <4>1. n \div Base \in Nat /\ n \div Base < n
        BY ONLY <3>1, <3>2, Shorter
      <4>2. n \div Base \notin T
        BY ONLY SMTT(30), <2>1, <3>1, <4>1
      <4>. QED  BY <4>1, <4>2
    <3>. QED  BY <3>1, <3>2, ConstantTypes
  <2>3. DigitsOf(LengthDigits, n) = DigitsOf(f, n)
    BY <2>2 DEF DigitsOf
  <2>. QED  BY <1>2, <1>3, <2>1, <2>3
<1>. QED  BY <1>1, <1>4

\* The first digit of a length, and those behind it.
LEMMA FirstDigit ==
    ASSUME NEW n \in Nat
    PROVE  /\ Base <= n =>
                 LengthDigits[n] = <<<<"length", n % Base, TRUE>>>> \o LengthDigits[n \div Base]
           /\ n < Base => LengthDigits[n] = <<<<"length", n % Base, FALSE>>>>
<1>1. LengthDigits[n] = DigitsOf(LengthDigits, n)
  BY LengthDigitsSpells DEF Spells
<1>2. n < Base => n % Base = n
  BY Shorter
<1>3. Base <= n => ~ (n < Base)
  BY ConstantTypes
<1>. QED  BY ONLY <1>1, <1>2, <1>3 DEF DigitsOf

LEMMA DivisionLaw ==
    ASSUME NEW a \in Nat, NEW b \in Nat, b > 0
    PROVE  /\ a \div b \in Nat /\ a % b \in Nat /\ a % b < b
           /\ a = b * (a \div b) + (a % b)
OBVIOUS

LEMMA DivisionUnique ==
    ASSUME NEW a \in Nat, NEW b \in Nat, b > 0, NEW q \in Nat, NEW r \in Nat,
           a = b * q + r, r < b
    PROVE  a \div b = q /\ a % b = r
BY DivisionLaw

\* A further digit of a number: w is the weight of the digits left out so far.
LEMMA NextDigit ==
    ASSUME NEW a \in Nat, NEW w \in Nat, w > 0
    PROVE  /\ (a \div w) \div Base = a \div (Base * w)
           /\ (a % w) + ((a \div w) % Base) * w = a % (Base * w)
<1>1. PICK q \in Nat, r \in Nat : a = w * q + r /\ r < w /\ a \div w = q /\ a % w = r
  BY DivisionLaw
<1>2. PICK q2 \in Nat, r2 \in Nat : /\ q = Base * q2 + r2 /\ r2 < Base
                                    /\ q \div Base = q2 /\ q % Base = r2
  BY DivisionLaw, ConstantTypes
<1>3. a = (Base * w) * q2 + (w * r2 + r)
  <2>1. w * (Base * q2 + r2) = (Base * w) * q2 + w * r2
    BY ConstantTypes
  <2>. QED  BY <1>1, <1>2, <2>1, ConstantTypes
<1>4. w * r2 + r < Base * w /\ w * r2 + r \in Nat /\ Base * w \in Nat /\ Base * w > 0
  <2>1. w * r2 <= w * (Base - 1)
    BY <1>2, ConstantTypes
  <2>2. w * (Base - 1) = Base * w - w
    BY ConstantTypes
  <2>3. Base * w \in Nat /\ Base * w > 0 /\ w * r2 \in Nat
    BY <1>2, ConstantTypes
  <2>. QED  BY <1>1, <2>1, <2>2, <2>3
<1>5. a \div (Base * w) = q2 /\ a % (Base * w) = w * r2 + r
  BY ONLY <1>3, <1>4, DivisionUnique, a \in Nat, q2 \in Nat
<1>. QED  BY <1>1, <1>2, <1>5

\* The digit of weight w of a number, when a multiple of the next weight is added.
LEMMA DigitStays ==
    ASSUME NEW x \in Nat, NEW w \in Nat, w > 0, NEW k \in Nat
    PROVE  ((x + k * (Base * w)) \div w) % Base = (x \div w) % Base
<1>1. PICK q \in Nat, r \in Nat : x = w * q + r /\ r < w /\ x \div w = q
  BY DivisionLaw
<1>2. PICK q2 \in Nat, r2 \in Nat : q = Base * q2 + r2 /\ r2 < Base /\ q % Base = r2
  BY SMTT(30), DivisionLaw, ConstantTypes
<1>. DEFINE y == x + k * (Base * w)
            p == q + k * Base
<1>3. y \in Nat /\ p \in Nat /\ y = w * p + r
  <2>1. w * (q + k * Base) = w * q + k * (Base * w)
    BY ConstantTypes
  <2>2. k * (Base * w) \in Nat /\ k * Base \in Nat
    BY ConstantTypes
  <2>. QED  BY <1>1, <2>1, <2>2
<1>4. y \div w = p
  <2>. HIDE DEF y, p
  <2>. QED  BY ONLY <1>1, <1>3, DivisionUnique, w \in Nat, w > 0, r \in Nat
<1>5. p = Base * (q2 + k) + r2 /\ q2 + k \in Nat
  BY <1>2, ConstantTypes
<1>6. p % Base = r2
  <2>. HIDE DEF p
  <2>. QED  BY <1>2, <1>3, <1>5, DivisionUnique, ConstantTypes
<1>. QED  BY <1>1, <1>2, <1>4, <1>6

LEMMA DigitAdded ==
    ASSUME NEW x \in Nat, NEW w \in Nat, x < w, NEW d \in Nat, d < Base
    PROVE  ((x + d * w) \div w) % Base = d
<1>1. x + d * w \in Nat /\ x + d * w = w * d + x /\ w > 0
  OBVIOUS
<1>2. (x + d * w) \div w = d
  BY <1>1, DivisionUnique
<1>3. d % Base = d
  BY DivisionUnique, ConstantTypes
<1>. QED  BY <1>2, <1>3

-----------------------------------------------------------------------------
(* Sequences of packets as bytes.                                          *)

\* The function f joins the sequences in ss one after the other.
Joins(S, ss, f) ==
    /\ f \in [Nat -> Seq(S)]
    /\ f[0] = <<>>
    /\ \A n \in Nat : n < Len(ss) => f[n + 1] = f[n] \o ss[n + 1]

LEMMA JoinsExists ==
    ASSUME NEW S, NEW ss \in Seq(Seq(S))
    PROVE  \E f : Joins(S, ss, f)
<1>. DEFINE V == Seq(S)
            first == [n \in Nat |-> <<>>]
            before == [n \in Nat |-> IF n = 0 THEN 0 ELSE n - 1]
            more == [x \in Nat \X V |-> IF x[1] \in DOMAIN ss THEN x[2] \o ss[x[1]] ELSE x[2]]
<1>1. Recursion(V, {0}, first, before, more)
  <2>1. ASSUME NEW x \in Nat \X V
        PROVE  (IF x[1] \in DOMAIN ss THEN x[2] \o ss[x[1]] ELSE x[2]) \in V
    <3>1. x[2] \in Seq(S) /\ (x[1] \in DOMAIN ss => ss[x[1]] \in Seq(S))
      OBVIOUS
    <3>. QED  BY <3>1, ConcatProperties
  <2>2. more \in [Nat \X V -> V]
    BY <2>1
  <2>3. first \in [Nat -> V]
    OBVIOUS
  <2>4. before \in [Nat -> Nat] /\ \A n \in Nat : n \in {0} \/ before[n] < n
    OBVIOUS
  <2>. QED  BY <2>2, <2>3, <2>4 DEF Recursion
<1>2. PICK f \in [Nat -> V] : \A n \in Nat : f[n] = Step({0}, first, before, more, f, n)
  <2>. HIDE DEF first, before, more, V
  <2>. QED  BY ONLY <1>1, RecursionExists
<1>3. f[0] = <<>>
  BY <1>2 DEF Step
<1>4. ASSUME NEW n \in Nat, n < Len(ss)
      PROVE  f[n + 1] = f[n] \o ss[n + 1]
  <2>1. n + 1 \in Nat /\ n + 1 # 0 /\ (n + 1) - 1 = n /\ n + 1 \in DOMAIN ss
    BY SMTT(30), <1>4
  <2>2. f[n + 1] = Step({0}, first, before, more, f, n + 1)
    BY <1>2, <2>1
  <2>3. before[n + 1] = n /\ f[n] \in V
    BY <1>2, <2>1
  <2>4. more[<<n + 1, f[n]>>] = f[n] \o ss[n + 1]
    BY <2>1, <2>3
  <2>. HIDE DEF first, before, more
  <2>. QED  BY <2>1, <2>2, <2>3, <2>4 DEF Step
<1>5. Joins(S, ss, f)
  BY <1>2, <1>3, <1>4 DEF Joins
<1>. QED  BY <1>5

\* Two sequences with the same beginning are joined in the same way.
LEMMA JoinsAgree ==
    ASSUME NEW S, NEW ss \in Seq(Seq(S)), NEW tt \in Seq(Seq(S)),
           NEW f, Joins(S, ss, f), NEW g, Joins(S, tt, g),
           NEW k \in Nat, k <= Len(ss), k <= Len(tt),
           \A i \in 1 .. k : ss[i] = tt[i]
    PROVE  f[k] = g[k]
<1>. DEFINE T == {n \in Nat : n <= k /\ f[n] # g[n]}
<1>1. ASSUME T # {}  PROVE FALSE
  <2>0. T \in SUBSET Nat
    OBVIOUS
  <2>1. PICK n \in T : \A j \in T : n <= j
    BY ONLY <1>1, <2>0, Least
  <2>2. n # 0
    BY <2>1 DEF Joins
  <2>. DEFINE m == n - 1
  <2>3. m \in Nat /\ m \notin T /\ m + 1 = n /\ m < Len(ss) /\ m < Len(tt) /\ n \in 1 .. k
        /\ n <= k
    BY <2>1, <2>2
  <2>4. f[m] = g[m]
    BY <2>3
  <2>. HIDE DEF m
  <2>5. f[n] = f[m] \o ss[n] /\ g[n] = g[m] \o tt[n]
    BY <2>3 DEF Joins
  <2>6. f[n] = g[n]
    BY <2>3, <2>4, <2>5
  <2>. QED  BY <2>1, <2>6
<1>. QED  BY <1>1

Flattens(ss, h) ==
    h \in {[i \in 1 .. Len(ss) |-> IF i = 1 THEN ss[i] ELSE h[i - 1] \o ss[i]]}

LEMMA FlattenChoice ==
    ASSUME NEW ss
    PROVE  FlattenSeq(ss) = IF Len(ss) = 0 THEN ss
                            ELSE (CHOOSE h : Flattens(ss, h))[Len(ss)]
<1>1. \A h : Flattens(ss, h) <=>
               (h = [i \in 1 .. Len(ss) |-> IF i = 1 THEN ss[i] ELSE h[i - 1] \o ss[i]])
  BY Zenon DEF Flattens
<1>2. FlattenSeq(ss) =
         IF Len(ss) = 0 THEN ss
         ELSE (CHOOSE h : h = [i \in 1 .. Len(ss) |->
                                  IF i = 1 THEN ss[i] ELSE h[i - 1] \o ss[i]])[Len(ss)]
  BY Zenon DEF FlattenSeq
<1>3. (CHOOSE h : Flattens(ss, h)) =
      (CHOOSE h : h = [i \in 1 .. Len(ss) |-> IF i = 1 THEN ss[i] ELSE h[i - 1] \o ss[i]])
  BY <1>1, Zenon
<1>. QED  BY ONLY <1>2, <1>3, Zenon

LEMMA FlattenJoins ==
    ASSUME NEW S, NEW ss \in Seq(Seq(S)), NEW f, Joins(S, ss, f)
    PROVE  FlattenSeq(ss) = f[Len(ss)] /\ FlattenSeq(ss) \in Seq(S)
<1>0. /\ Len(ss) \in Nat /\ f \in [Nat -> Seq(S)] /\ f[Len(ss)] \in Seq(S)
      /\ \A i \in 1 .. Len(ss) : ss[i] \in Seq(S)
  BY DEF Joins
<1>1. CASE Len(ss) = 0
  <2>1. ss = <<>> /\ FlattenSeq(ss) = ss
    BY <1>1, FlattenChoice
  <2>2. f[0] = <<>>
    BY DEF Joins
  <2>. QED  BY <1>0, <1>1, <2>1, <2>2
<1>2. CASE Len(ss) # 0
  <2>. DEFINE g == [i \in 1 .. Len(ss) |-> f[i]]
              Next_(h, i) == IF i = 1 THEN ss[i] ELSE h[i - 1] \o ss[i]
  <2>1. ASSUME NEW i \in 1 .. Len(ss)  PROVE f[i] = f[i - 1] \o ss[i]
    <3>1. i - 1 \in Nat /\ i - 1 < Len(ss) /\ (i - 1) + 1 = i
      BY <1>0
    <3>. QED  BY <3>1 DEF Joins
  <2>2. ASSUME NEW i \in 1 .. Len(ss)  PROVE g[i] = Next_(g, i)
    <3>1. CASE i = 1
      <4>0. i - 1 = 0
        BY <3>1
      <4>1. f[1] = f[0] \o ss[1] /\ f[0] = <<>> /\ ss[1] \in Seq(S)
        BY ONLY <4>0, <1>0, <2>1, <3>1, i \in 1 .. Len(ss), Joins(S, ss, f)
           DEF Joins
      <4>2. f[1] = ss[1]
        BY <4>1, ConcatEmptySeq
      <4>. QED  BY <3>1, <4>2
    <3>2. CASE i # 1
      <4>1. i - 1 \in 1 .. Len(ss)
        BY <1>0, <3>2
      <4>2. g[i - 1] = f[i - 1] /\ g[i] = f[i]
        BY <4>1
      <4>. QED  BY <2>1, <3>2, <4>2
    <3>. QED  BY <3>1, <3>2
  <2>3. Flattens(ss, g)
    <3>1. g \in [1 .. Len(ss) -> Seq(S)]
      BY <1>0
    <3>. HIDE DEF g
    <3>. QED  BY <2>2, <3>1 DEF Flattens
  <2>. DEFINE h == CHOOSE x : Flattens(ss, x)
  <2>4. Flattens(ss, h)
    <3>. HIDE DEF g
    <3>. QED  BY <2>3, Zenon
  <2>. HIDE DEF h
  <2>5. \A i \in 1 .. Len(ss) : h[i] = Next_(h, i)
    BY <2>4 DEF Flattens
  <2>. DEFINE T == {n \in Nat : n \in 1 .. Len(ss) /\ h[n] # f[n]}
  <2>6. ASSUME T # {}  PROVE FALSE
    <3>0. T \in SUBSET Nat
      OBVIOUS
    <3>1. PICK n \in T : \A j \in T : n <= j
      BY ONLY <2>6, <3>0, Least
    <3>2. n \in Nat /\ n \in 1 .. Len(ss) /\ h[n] # f[n]
      BY <3>1
    <3>3. g[n] = f[n] /\ (n # 1 => g[n - 1] = f[n - 1])
      BY <3>2, <1>0
    <3>4. n # 1 => h[n - 1] = f[n - 1]
      <4>. SUFFICES ASSUME n # 1  PROVE h[n - 1] = f[n - 1]
        OBVIOUS
      <4>1. n - 1 \in Nat /\ n - 1 \in 1 .. Len(ss) /\ n - 1 < n
        BY <3>2, <1>0
      <4>2. n - 1 \notin T
        BY SMTT(30), <3>1, <3>2, <4>1
      <4>. QED  BY <4>1, <4>2
    <3>. HIDE DEF g
    <3>5. h[n] = f[n]
      BY <2>2, <2>5, <3>2, <3>3, <3>4
    <3>. QED  BY <3>2, <3>5
  <2>7. h[Len(ss)] = f[Len(ss)]
    <3>1. Len(ss) \in 1 .. Len(ss) /\ Len(ss) \in Nat
      BY <1>0, <1>2
    <3>. QED  BY <2>6, <3>1
  <2>8. FlattenSeq(ss) = h[Len(ss)]
    BY <1>2, FlattenChoice DEF h
  <2>. QED  BY <1>0, <2>7, <2>8
<1>. QED  BY <1>1, <1>2

LEMMA FlattenAppend ==
    ASSUME NEW S, NEW ss \in Seq(Seq(S)), NEW s \in Seq(S)
    PROVE  FlattenSeq(Append(ss, s)) = FlattenSeq(ss) \o s
<1>. DEFINE tt == Append(ss, s)
            n == Len(ss)
<1>1. /\ n \in Nat /\ tt \in Seq(Seq(S)) /\ Len(tt) = n + 1 /\ tt[n + 1] = s
      /\ \A i \in 1 .. n : ss[i] = tt[i]
  BY AppendProperties
<1>2. PICK f : Joins(S, ss, f)
  BY JoinsExists
<1>. HIDE DEF tt
<1>3. PICK g : Joins(S, tt, g)
  BY <1>1, JoinsExists
<1>4. f[n] = g[n]
  <2>1. n <= Len(ss) /\ n <= Len(tt)
    BY <1>1
  <2>. HIDE DEF n
  <2>. QED  BY ONLY <1>1, <2>1, <1>2, <1>3, JoinsAgree, ss \in Seq(Seq(S))
<1>5. g[n + 1] = g[n] \o s
  <2>1. n < Len(tt)
    BY <1>1
  <2>. HIDE DEF n
  <2>. QED  BY ONLY <1>1, <2>1, <1>3 DEF Joins
<1>. QED  BY <1>1, <1>2, <1>3, <1>4, <1>5, FlattenJoins DEF tt

LEMMA FlattenFirst ==
    ASSUME NEW S, NEW ss \in Seq(Seq(S)), ss # <<>>
    PROVE  FlattenSeq(ss) = Head(ss) \o FlattenSeq(Tail(ss))
<1>. DEFINE tt == Tail(ss)
            n == Len(tt)
<1>1. /\ n \in Nat /\ tt \in Seq(Seq(S)) /\ Len(ss) = n + 1
      /\ Head(ss) \in Seq(S) /\ Head(ss) = ss[1]
      /\ \A i \in 1 .. n : tt[i] = ss[i + 1]
  BY HeadTailProperties
<1>2. PICK f : Joins(S, ss, f)
  BY JoinsExists
<1>3. PICK g : Joins(S, tt, g)
  BY <1>1, JoinsExists
<1>. HIDE DEF tt
<1>. DEFINE T == {k \in Nat : k <= n /\ f[k + 1] # ss[1] \o g[k]}
<1>4. ASSUME T # {}  PROVE FALSE
  <2>0. T \in SUBSET Nat
    OBVIOUS
  <2>1. PICK k \in T : \A j \in T : k <= j
    BY ONLY <1>4, <2>0, Least
  <2>2. k \in Nat /\ k <= n /\ f[k + 1] = f[k] \o ss[k + 1]
    <3>1. k \in Nat /\ k <= n /\ k < Len(ss)
      BY <1>1, <2>1
    <3>. HIDE DEF n
    <3>. QED  BY ONLY <3>1, <1>2 DEF Joins
  <2>3. CASE k = 0
    <3>1. f[0] = <<>> /\ g[0] = <<>>
      BY <1>2, <1>3 DEF Joins
    <3>2. f[1] = ss[1] /\ ss[1] \o g[0] = ss[1]
      <4>1. k + 1 = 1
        BY <2>3
      <4>2. <<>> \o ss[1] = ss[1] /\ ss[1] \o <<>> = ss[1]
        BY ONLY <1>1, ConcatEmptySeq
      <4>. QED  BY ONLY <4>1, <4>2, <2>2, <2>3, <3>1
    <3>3. f[k + 1] = ss[1] \o g[k]
      <4>1. k + 1 = 1
        BY <2>3
      <4>. QED  BY ONLY <4>1, <2>3, <3>2
    <3>. QED  BY <2>1, <3>3
  <2>4. CASE k # 0
    <3>. DEFINE m == k - 1
    <3>0. m \in Nat /\ m + 1 = k /\ m <= n /\ m < n /\ m < k
      BY SMTT(30), <1>1, <2>2, <2>4
    <3>1. m \in Nat /\ m + 1 = k /\ m \notin T /\ m <= n /\ m < n
      <4>. HIDE DEF m, n, T
      <4>. QED  BY ONLY <3>0, <2>1, <2>2
    <3>2. f[k] = ss[1] \o g[m]
      BY <3>1
    <3>3. g[k] = g[m] \o tt[k] /\ g[m] \in Seq(S) /\ tt[k] \in Seq(S) /\ tt[k] = ss[k + 1]
      <4>1. k \in 1 .. n
        BY <1>1, <2>2, <2>4
      <4>. HIDE DEF m
      <4>2. g[m + 1] = g[m] \o tt[m + 1] /\ g[m] \in Seq(S)
        BY ONLY <1>3, <3>1, n = Len(tt) DEF Joins
      <4>3. tt[m + 1] \in Seq(S) /\ tt[m + 1] = ss[k + 1]
        BY ONLY SMTT(30), <1>1, <3>1, <4>1, n = Len(tt)
      <4>. QED  BY ONLY <3>1, <4>2, <4>3
    <3>. HIDE DEF m
    <3>4. (ss[1] \o g[m]) \o tt[k] = ss[1] \o (g[m] \o tt[k])
      <4>1. ss[1] \in Seq(S) /\ g[m] \in Seq(S) /\ tt[k] \in Seq(S)
        BY ONLY <1>1, <3>3
      <4>2. \A a, b, c \in Seq(S) : (a \o b) \o c = a \o (b \o c)
        BY ONLY SMTT(30), ConcatAssociative
      <4>. QED  BY ONLY <4>1, <4>2, ZenonT(40)
    <3>5. f[k + 1] = ss[1] \o g[k]
      BY <2>2, <3>2, <3>3, <3>4
    <3>. QED  BY <2>1, <3>5
  <2>. QED  BY <2>3, <2>4
<1>5. f[n + 1] = ss[1] \o g[n]
  <2>1. n \in Nat /\ n <= n
    BY <1>1
  <2>. HIDE DEF n
  <2>. QED  BY ONLY <1>4, <2>1
<1>. QED  BY <1>1, <1>2, <1>3, <1>5, FlattenJoins DEF tt

LEMMA FlattenEmpty == FlattenSeq(<<>>) = <<>>
<1>1. Len(<<>>) = 0
  OBVIOUS
<1>. QED  BY <1>1, FlattenChoice

-----------------------------------------------------------------------------
(* The inductive invariant.                                                *)

\* The packets a broker sends.
Packets ==
    {Publish(m, 0, 0, 1) : m \in Messages}
    \cup {Publish(m, qos, mid, qos + 1) : m \in Messages, qos \in 1 .. 2, mid \in Mids}
    \cup {Pubrel(mid) : mid \in Mids}
    \cup Malformed \cup {Pingresp}

Answers == [type : {"PUBACK", "PUBREC", "PUBCOMP"}, mid : Mids]
Entries == [mid : Mids, msg : Messages]
Flows == [msg : Messages, qos : 1 .. 2, stage : {"publish", "release"}]

Byte == ({"command"} \X Packets) \cup ({"length"} \X Nat \X BOOLEAN)
        \cup ({"body"} \X Packets \X Nat)

Typed ==
    /\ conn \in {"up", "lost", "stopped"}
    /\ pending \in Seq(Packets) /\ stream \in Seq(Byte)
    /\ in_messages \in Seq(Entries)
    /\ delivered \in [Messages -> Nat]
    /\ back \in Seq(Answers)
    /\ outgoing \in [Mids -> Flows \cup {Free}]
    /\ \A mid \in Mids : outgoing[mid].stage = "release" => outgoing[mid].qos = 2
    /\ made \in 0 .. MaxMessages
    /\ done \subseteq [msg : Messages, qos : 1 .. 2, mid : Mids]
    /\ doubled \subseteq Mids
    /\ reconnects \in 0 .. MaxReconnects
    /\ retries \in 0 .. MaxRetries

\* The packet being read: its length is below the weight of the next digit.
ReaderTyped ==
    /\ in_packet \in [command : {<<>>} \cup ({"command"} \X Packets),
                      count : 0 .. MaxDigits, complete : BOOLEAN, length : Nat,
                      mult : Nat, to_process : Nat, body : Seq(Byte)]
    /\ in_packet.mult = Weight[in_packet.count]
    /\ in_packet.length < in_packet.mult
    /\ in_packet.to_process + Len(in_packet.body) =
          IF in_packet.complete THEN in_packet.length ELSE 0

\* The last k bytes of a body.
LastOfBody(p, k) == [i \in 1 .. k |-> <<"body", p, p.len - k + i>>]

\* What is in the socket after the part of a packet that has been read: all the
\* packets, or the rest of the length and of the body of the first of them.
Reading ==
    conn = "up" =>
        IF in_packet.command = <<>>
        THEN in_packet = NoPacket /\ stream = Bytes(pending)
        ELSE /\ pending # <<>>
             /\ in_packet.command = <<"command", Head(pending)>>
             /\ LET p == Head(pending) IN
                IF in_packet.complete
                THEN /\ in_packet.length = p.len
                     /\ stream = LastOfBody(p, in_packet.to_process) \o Bytes(Tail(pending))
                ELSE /\ in_packet.length = p.len % Weight[in_packet.count]
                     /\ in_packet.body = <<>> /\ in_packet.to_process = 0
                     /\ stream = LengthDigits[p.len \div Weight[in_packet.count]]
                                 \o (Body(p, p.len) \o Bytes(Tail(pending)))

\* What knows of a message, by id, QoS and message: no message has two ids.
Known ==
    {<<mid, outgoing[mid].qos, outgoing[mid].msg>> : mid \in Open}
    \cup {<<pending[i].mid, pending[i].qos, pending[i].msg>> :
              i \in {j \in DOMAIN pending : pending[j].msg # 0}}
    \cup {<<in_messages[i].mid, 2, in_messages[i].msg>> : i \in DOMAIN in_messages}
    \cup {<<d.mid, d.qos, d.msg>> : d \in done}

Owned ==
    /\ \A r, s \in Known : r[3] = s[3] => r = s
    /\ \A r \in Known : r[3] <= made
    /\ \A m \in Messages : m > made => delivered[m] = 0

\* The packets under way for a message id, and the answers.
IsPublish(p, mid) == p.type = "PUBLISH" /\ p.msg # 0 /\ p.qos # 0 /\ p.mid = mid
IsPubrel(p, mid) == p.type = "PUBREL" /\ p.mid = mid
Published(mid) == \E i \in DOMAIN pending : IsPublish(pending[i], mid)
Says(i, type, mid) == back[i].type = type /\ back[i].mid = mid
Answered(type, mid) == \E i \in DOMAIN back : Says(i, type, mid)

\* At most one PUBLISH of an id is under way, for the message the broker has
\* with it.  A PUBREL of the id is of an earlier message when it comes first, and
\* of the one the client holds when it comes second.
Underway(mid) ==
    /\ \A i \in DOMAIN pending : IsPublish(pending[i], mid) =>
          /\ outgoing[mid] # Free
          /\ pending[i].qos = outgoing[mid].qos /\ pending[i].msg = outgoing[mid].msg
    /\ \A i, j \in DOMAIN pending :
          /\ IsPublish(pending[i], mid) /\ IsPublish(pending[j], mid) => i = j
          /\ Waiting(mid) = {} /\ i < j =>
                ~ (IsPublish(pending[i], mid) /\ IsPubrel(pending[j], mid))
          /\ Waiting(mid) # {} /\ i < j =>
                ~ (IsPubrel(pending[i], mid) /\ IsPublish(pending[j], mid))

\* The client holds the message the broker has with the id, once, and has not
\* delivered it.
Held(mid) ==
    /\ \A i, j \in Waiting(mid) : i = j
    /\ \A i \in Waiting(mid) : /\ in_messages[i].msg = outgoing[mid].msg
                               /\ outgoing[mid].qos = 2
                               /\ delivered[outgoing[mid].msg] = 0

\* Not released: still to come to the client or held by it; the PUBCOMPs under
\* way are those of earlier messages, and come before any PUBREC.
Unreleased(mid) ==
    outgoing[mid].qos = 2 /\ outgoing[mid].stage = "publish" =>
        /\ delivered[outgoing[mid].msg] = 0
        /\ Waiting(mid) = {} => Published(mid) /\ ~ Answered("PUBREC", mid)
        /\ Waiting(mid) # {} =>
              /\ Published(mid) \/ \A i \in DOMAIN pending : ~ IsPubrel(pending[i], mid)
              /\ \A i, j \in DOMAIN back :
                    i < j => ~ (Says(i, "PUBREC", mid) /\ Says(j, "PUBCOMP", mid))

\* Released: delivered, or held and no PUBCOMP is under way.
Released(mid) ==
    outgoing[mid].stage = "release" =>
        /\ Waiting(mid) # {} => ~ Answered("PUBCOMP", mid)
        /\ Waiting(mid) = {} =>
              /\ delivered[outgoing[mid].msg] = 1
              /\ ~ Published(mid)
              /\ \A i, j \in DOMAIN back :
                    i < j => ~ (Says(i, "PUBCOMP", mid) /\ Says(j, "PUBREC", mid))

\* PUBREC and PUBACK are never late; PUBACK is sent once, with the message.
Acknowledged(mid) ==
    /\ Answered("PUBREC", mid) => outgoing[mid].qos = 2
    /\ Answered("PUBACK", mid) => /\ outgoing[mid].qos = 1 /\ ~ Published(mid)
                                  /\ delivered[outgoing[mid].msg] >= 1
    /\ \A i, j \in DOMAIN back : Says(i, "PUBACK", mid) /\ Says(j, "PUBACK", mid) => i = j

\* The messages the broker has finished with.
Finished(d) ==
    /\ outgoing[d.mid].msg # d.msg
    /\ IF d.qos = 2 THEN delivered[d.msg] = 1 ELSE delivered[d.msg] >= 1

Sessions ==
    /\ \A mid \in Mids \ doubled :
          /\ Underway(mid) /\ Held(mid)
          /\ Unreleased(mid) /\ Released(mid) /\ Acknowledged(mid)
    /\ \A d \in done : d.mid \notin doubled => Finished(d)

IInv == Typed /\ ReaderTyped /\ Reading /\ Framing /\ Owned /\ Sessions

-----------------------------------------------------------------------------
(* Packets and their bytes.                                                *)

\* What is in a packet, where the handlers look at it.
LEMMA PacketFields ==
    ASSUME NEW p \in Packets
    PROVE  /\ p.len \in Nat /\ p.qos \in 0 .. 3 /\ p.msg \in 0 .. MaxMessages
           /\ p.type \in {"PUBLISH", "PUBREL", "PINGRESP", "UNKNOWN"}
           /\ p.type = "PUBREL" => p.mid \in Mids /\ p.msg = 0
           /\ p.msg # 0 => /\ p.type = "PUBLISH" /\ p.msg \in Messages /\ p.qos \in 0 .. 2
                           /\ p.qos # 0 => p.mid \in Mids
                           /\ p.qos = 0 => p.mid = 0
           /\ p.type = "PUBLISH" /\ p.msg = 0 =>
                 \/ p.qos = 3 \/ (p.qos = 1 /\ p.len = 1)
                 \/ (p.qos = 0 /\ p.len = Weight[MaxDigits])
<1>1. MaxMessages \in Nat /\ Weight[MaxDigits] \in Nat
  BY ConstantTypes, WeightValue
<1>2. CASE \E m \in Messages : p = Publish(m, 0, 0, 1)
  BY <1>1, <1>2 DEF Publish, Messages
<1>3. CASE \E m \in Messages, qos \in 1 .. 2, mid \in Mids : p = Publish(m, qos, mid, qos + 1)
  BY <1>1, <1>3 DEF Publish, Messages
<1>4. CASE \E mid \in Mids : p = Pubrel(mid)
  BY <1>1, <1>4 DEF Pubrel
<1>5. CASE p \in Malformed \cup {Pingresp}
  BY <1>1, <1>5 DEF Malformed, Pingresp, Publish
<1>. QED  BY <1>2, <1>3, <1>4, <1>5 DEF Packets

LEMMA SomePackets ==
    /\ \A m \in Messages : Publish(m, 0, 0, 1) \in Packets
    /\ \A m \in Messages, qos \in 1 .. 2, mid \in Mids :
          Publish(m, qos, mid, qos + 1) \in Packets
    /\ \A mid \in Mids : Pubrel(mid) \in Packets
    /\ Malformed \cup {Pingresp} \subseteq Packets
BY DEF Packets

LEMMA BodyType ==
    ASSUME NEW p \in Packets, NEW k \in Nat
    PROVE  /\ Body(p, k) \in Seq(Byte) /\ Len(Body(p, k)) = k
           /\ k <= p.len => LastOfBody(p, k) \in Seq(Byte) /\ Len(LastOfBody(p, k)) = k
           /\ LastOfBody(p, p.len) = Body(p, p.len)
           /\ LastOfBody(p, 0) = <<>>
<1>0. p.len \in Nat
  BY PacketFields
<1>1. \A i \in 1 .. k : <<"body", p, i>> \in Byte
  BY DEF Byte
<1>2. k <= p.len => \A i \in 1 .. k : <<"body", p, p.len - k + i>> \in Byte
  BY <1>0 DEF Byte
<1>3. \A i \in 1 .. p.len : p.len - p.len + i = i
  BY <1>0
<1>. QED  BY <1>0, <1>1, <1>2, <1>3 DEF Body, LastOfBody

LEMMA DigitIsByte == Digit \subseteq Byte
BY SMTT(30) DEF Digit, Byte

LEMMA EncodeType ==
    ASSUME NEW p \in Packets
    PROVE  /\ Encode(p) \in Seq(Byte)
           /\ <<<<"command", p>>>> \in Seq(Byte)
           /\ LengthDigits[p.len] \in Seq(Byte)
           /\ Encode(p) = <<<<"command", p>>>> \o (LengthDigits[p.len] \o Body(p, p.len))
<1>1. <<<<"command", p>>>> \in Seq(Byte)
  BY DEF Byte
<1>2. p.len \in Nat /\ LengthDigits[p.len] \in Seq(Byte)
  BY PacketFields, LengthDigitsType, DigitIsByte, SeqMonotonic
<1>3. Body(p, p.len) \in Seq(Byte)
  BY <1>2, BodyType
<1>. DEFINE a == <<<<"command", p>>>>
            b == LengthDigits[p.len]
            c == Body(p, p.len)
<1>4. Encode(p) = (a \o b) \o c
  BY Zenon DEF Encode
<1>. HIDE DEF a, b, c
<1>5. (a \o b) \o c = a \o (b \o c) /\ a \o (b \o c) \in Seq(Byte)
  <2>1. \A r, s, t \in Seq(Byte) : (r \o s) \o t = r \o (s \o t)
    BY ONLY SMTT(30), ConcatAssociative
  <2>2. \A r, s \in Seq(Byte) : r \o s \in Seq(Byte)
    BY ONLY ConcatProperties
  <2>3. a \in Seq(Byte) /\ b \in Seq(Byte) /\ c \in Seq(Byte)
    BY <1>1, <1>2, <1>3 DEF a, b, c
  <2>4. b \o c \in Seq(Byte)
    BY ONLY <2>2, <2>3
  <2>5. a \o (b \o c) \in Seq(Byte)
    BY ONLY <2>2, <2>3, <2>4
  <2>6. (a \o b) \o c = a \o (b \o c)
    BY ONLY <2>1, <2>3, Zenon
  <2>. QED  BY ONLY <2>5, <2>6
<1>. QED  BY <1>1, <1>2, <1>4, <1>5 DEF a, b, c

Encoded(ps) == [i \in DOMAIN ps |-> Encode(ps[i])]

LEMMA EncodedType ==
    ASSUME NEW ps \in Seq(Packets)
    PROVE  /\ Encoded(ps) \in Seq(Seq(Byte)) /\ Len(Encoded(ps)) = Len(ps)
           /\ \A i \in 1 .. Len(ps) : Encoded(ps)[i] = Encode(ps[i])
           /\ Bytes(ps) = FlattenSeq(Encoded(ps))
           /\ Bytes(ps) \in Seq(Byte)
<1>1. ASSUME NEW i \in 1 .. Len(ps)  PROVE Encode(ps[i]) \in Seq(Byte)
  <2>1. ps[i] \in Packets
    OBVIOUS
  <2>. QED  BY ONLY <2>1, EncodeType
<1>2. /\ Encoded(ps) \in Seq(Seq(Byte)) /\ Len(Encoded(ps)) = Len(ps)
      /\ \A i \in 1 .. Len(ps) : Encoded(ps)[i] = Encode(ps[i])
  BY <1>1 DEF Encoded
<1>3. Bytes(ps) = FlattenSeq(Encoded(ps))
  BY Zenon DEF Bytes, Encoded
<1>4. PICK f : Joins(Byte, Encoded(ps), f)
  BY <1>2, JoinsExists
<1>5. FlattenSeq(Encoded(ps)) \in Seq(Byte)
  BY ONLY <1>2, <1>4, FlattenJoins
<1>. QED  BY <1>2, <1>3, <1>5

LEMMA BytesEmpty == Bytes(<<>>) = <<>>
<1>1. <<>> \in Seq(Packets) /\ Len(<<>>) = 0
  OBVIOUS
<1>2. /\ Encoded(<<>>) \in Seq(Seq(Byte)) /\ Len(Encoded(<<>>)) = 0
      /\ Bytes(<<>>) = FlattenSeq(Encoded(<<>>))
  BY ONLY <1>1, EncodedType
<1>3. Encoded(<<>>) = <<>>
  BY ONLY <1>2
<1>. QED  BY ONLY <1>2, <1>3, FlattenEmpty

LEMMA BytesAppend ==
    ASSUME NEW ps \in Seq(Packets), NEW p \in Packets
    PROVE  Bytes(Append(ps, p)) = Bytes(ps) \o Encode(p)
<1>. DEFINE qs == Append(ps, p)
<1>1. qs \in Seq(Packets) /\ Len(qs) = Len(ps) + 1 /\ qs[Len(ps) + 1] = p
      /\ \A i \in 1 .. Len(ps) : qs[i] = ps[i]
  BY AppendProperties
<1>. HIDE DEF qs
<1>2. /\ Encoded(ps) \in Seq(Seq(Byte)) /\ Len(Encoded(ps)) = Len(ps) /\ Len(ps) \in Nat
      /\ Encoded(qs) \in Seq(Seq(Byte)) /\ Len(Encoded(qs)) = Len(ps) + 1
      /\ Encode(p) \in Seq(Byte)
      /\ \A i \in 1 .. Len(ps) : Encoded(qs)[i] = Encoded(ps)[i]
      /\ Encoded(qs)[Len(ps) + 1] = Encode(p)
  <2>1. /\ Encoded(ps) \in Seq(Seq(Byte)) /\ Len(Encoded(ps)) = Len(ps) /\ Len(ps) \in Nat
        /\ \A i \in 1 .. Len(ps) : Encoded(ps)[i] = Encode(ps[i])
    BY EncodedType
  <2>2. /\ Encoded(qs) \in Seq(Seq(Byte)) /\ Len(Encoded(qs)) = Len(qs)
        /\ \A i \in 1 .. Len(qs) : Encoded(qs)[i] = Encode(qs[i])
    BY ONLY <1>1, EncodedType
  <2>3. Encode(p) \in Seq(Byte)
    BY ONLY EncodeType, p \in Packets
  <2>. QED  BY ONLY <1>1, <2>1, <2>2, <2>3
<1>3. Encoded(qs) = Append(Encoded(ps), Encode(p))
  BY ONLY <1>2
<1>4. FlattenSeq(Encoded(qs)) = FlattenSeq(Encoded(ps)) \o Encode(p)
  BY ONLY <1>2, <1>3, FlattenAppend
<1>. QED  BY <1>1, <1>4, EncodedType DEF qs

LEMMA BytesFirst ==
    ASSUME NEW ps \in Seq(Packets), ps # <<>>
    PROVE  /\ Head(ps) \in Packets /\ Tail(ps) \in Seq(Packets)
           /\ Bytes(ps) = Encode(Head(ps)) \o Bytes(Tail(ps))
<1>1. /\ Head(ps) \in Packets /\ Tail(ps) \in Seq(Packets) /\ Len(ps) \in Nat /\ Len(ps) # 0
      /\ Len(Tail(ps)) = Len(ps) - 1 /\ Head(ps) = ps[1]
      /\ \A i \in 1 .. Len(ps) - 1 : Tail(ps)[i] = ps[i + 1]
  BY HeadTailProperties
<1>. DEFINE e == Encoded(ps)
            t == Encoded(Tail(ps))
<1>2. /\ e \in Seq(Seq(Byte)) /\ Len(e) = Len(ps) /\ e[1] = Encode(Head(ps))
      /\ t \in Seq(Seq(Byte)) /\ Len(t) = Len(ps) - 1
      /\ \A i \in 1 .. Len(ps) - 1 : t[i] = e[i + 1]
  <2>1. \A rs \in Seq(Packets) :
           /\ Encoded(rs) \in Seq(Seq(Byte)) /\ Len(Encoded(rs)) = Len(rs)
           /\ \A i \in 1 .. Len(rs) : Encoded(rs)[i] = Encode(rs[i])
    BY ONLY EncodedType
  <2>2. e \in Seq(Seq(Byte)) /\ Len(e) = Len(ps) /\ \A i \in 1 .. Len(ps) : e[i] = Encode(ps[i])
    BY <2>1
  <2>3. /\ t \in Seq(Seq(Byte)) /\ Len(t) = Len(Tail(ps))
        /\ \A i \in 1 .. Len(Tail(ps)) : t[i] = Encode(Tail(ps)[i])
    BY <1>1, <2>1
  <2>. HIDE DEF e, t
  <2>4. \A i \in 1 .. Len(ps) - 1 : i + 1 \in 1 .. Len(ps)
    BY <1>1
  <2>5. 1 \in 1 .. Len(ps)
    BY <1>1
  <2>. QED  BY ONLY <1>1, <2>2, <2>3, <2>4, <2>5
<1>3. FlattenSeq(e) = Bytes(ps) /\ FlattenSeq(t) = Bytes(Tail(ps))
  BY <1>1, EncodedType
<1>. HIDE DEF e, t
<1>4. e # <<>> /\ Head(e) = e[1] /\ Tail(e) = t
  <2>1. e # <<>> /\ Head(e) = e[1] /\ Tail(e) \in Seq(Seq(Byte)) /\ Len(Tail(e)) = Len(e) - 1
        /\ \A i \in 1 .. Len(e) - 1 : Tail(e)[i] = e[i + 1]
    BY ONLY <1>1, <1>2
  <2>2. Len(Tail(e)) = Len(t) /\ \A i \in 1 .. Len(Tail(e)) : Tail(e)[i] = t[i]
    BY ONLY <1>1, <1>2, <2>1
  <2>3. Tail(e) = t
    BY ONLY <1>2, <2>1, <2>2, SeqEqual
  <2>. QED  BY ONLY <2>1, <2>3
<1>5. FlattenSeq(e) = Head(e) \o FlattenSeq(Tail(e))
  BY ONLY <1>2, <1>4, FlattenFirst
<1>. QED  BY ONLY <1>1, <1>2, <1>3, <1>4, <1>5

\* How sequences of bytes are put together.
LEMMA Concat ==
    /\ \A r, s \in Seq(Byte) : r \o s \in Seq(Byte) /\ Len(r \o s) = Len(r) + Len(s)
    /\ \A r, s, t \in Seq(Byte) : (r \o s) \o t = r \o (s \o t)
    /\ \A s \in Seq(Byte) : s \o <<>> = s /\ <<>> \o s = s
    /\ <<>> \in Seq(Byte)
    /\ \A b \in Byte : <<b>> \in Seq(Byte)
    /\ \A b \in Byte, s \in Seq(Byte) : /\ <<b>> \o s # <<>>
                                        /\ Head(<<b>> \o s) = b /\ Tail(<<b>> \o s) = s
    /\ \A s \in Seq(Byte) : s # <<>> => /\ Head(s) \in Byte /\ Tail(s) \in Seq(Byte)
                                        /\ s = <<Head(s)>> \o Tail(s)
<1>1. \A r, s \in Seq(Byte) : r \o s \in Seq(Byte) /\ Len(r \o s) = Len(r) + Len(s)
  BY ONLY ConcatProperties
<1>2. \A r, s, t \in Seq(Byte) : (r \o s) \o t = r \o (s \o t)
  BY ONLY ConcatAssociative
<1>3. \A s \in Seq(Byte) : s \o <<>> = s /\ <<>> \o s = s
  BY ONLY ConcatEmptySeq
<1>4. <<>> \in Seq(Byte) /\ \A b \in Byte : <<b>> \in Seq(Byte)
  OBVIOUS
<1>5. ASSUME NEW b \in Byte, NEW s \in Seq(Byte)
      PROVE  <<b>> \o s # <<>> /\ Head(<<b>> \o s) = b /\ Tail(<<b>> \o s) = s
  <2>. DEFINE t == <<b>> \o s
  <2>1. /\ t \in Seq(Byte) /\ Len(t) = Len(s) + 1 /\ Len(s) \in Nat /\ t[1] = b
        /\ \A i \in 1 .. Len(s) : t[i + 1] = s[i]
    OBVIOUS
  <2>. HIDE DEF t
  <2>2. t # <<>> /\ Head(t) = b /\ Tail(t) \in Seq(Byte) /\ Len(Tail(t)) = Len(s)
        /\ \A i \in 1 .. Len(s) : Tail(t)[i] = t[i + 1]
    <3>1. t # <<>> /\ Head(t) = t[1]
      BY <2>1
    <3>2. Tail(t) \in Seq(Byte) /\ Len(Tail(t)) = Len(t) - 1
          /\ \A i \in 1 .. Len(Tail(t)) : Tail(t)[i] = t[i + 1]
      BY ONLY <2>1, <3>1, HeadTailProperties
    <3>3. Len(Tail(t)) = Len(s)
      BY ONLY <2>1, <3>2
    <3>4. ASSUME NEW i \in 1 .. Len(s)  PROVE Tail(t)[i] = t[i + 1]
      BY ONLY <3>2, <3>3
    <3>5. Head(t) = b
      BY ONLY <2>1, <3>1
    <3>6. t # <<>> /\ Tail(t) \in Seq(Byte)
      BY ONLY <3>1, <3>2
    <3>. QED  BY ONLY <3>3, <3>4, <3>5, <3>6, Zenon
  <2>3. Tail(t) = s
    BY <2>1, <2>2, SeqEqual
  <2>. QED  BY <2>2, <2>3 DEF t
<1>6. ASSUME NEW s \in Seq(Byte), s # <<>>
      PROVE  Head(s) \in Byte /\ Tail(s) \in Seq(Byte) /\ s = <<Head(s)>> \o Tail(s)
  <2>1. /\ Head(s) \in Byte /\ Tail(s) \in Seq(Byte) /\ Len(s) \in Nat
        /\ Len(Tail(s)) = Len(s) - 1 /\ Head(s) = s[1]
        /\ \A i \in 1 .. Len(s) - 1 : Tail(s)[i] = s[i + 1]
    BY <1>6
  <2>. DEFINE t == <<Head(s)>> \o Tail(s)
  <2>2. /\ t \in Seq(Byte) /\ Len(t) = 1 + Len(Tail(s)) /\ t[1] = Head(s)
        /\ \A i \in 1 .. Len(Tail(s)) : t[i + 1] = Tail(s)[i]
    BY <2>1
  <2>. HIDE DEF t
  <2>3. ASSUME NEW i \in 1 .. Len(s)  PROVE s[i] = t[i]
    <3>1. CASE i = 1
      BY <2>1, <2>2, <3>1
    <3>2. CASE i # 1
      <4>1. i - 1 \in 1 .. Len(s) - 1 /\ (i - 1) + 1 = i
        BY <2>1, <3>2
      <4>. QED  BY <2>1, <2>2, <4>1
    <3>. QED  BY <3>1, <3>2
  <2>4. Len(s) = Len(t)
    BY <2>1, <2>2
  <2>5. s = t
    BY ONLY <2>2, <2>3, <2>4, s \in Seq(Byte), SeqEqual
  <2>. QED  BY <2>1, <2>5 DEF t
<1>. QED  BY ZenonT(40), <1>1, <1>2, <1>3, <1>4, <1>5, <1>6

LEMMA ConcatAt ==
    ASSUME NEW r \in Seq(Byte), NEW s \in Seq(Byte), NEW n \in Nat, n = Len(r)
    PROVE  /\ r \o s \in Seq(Byte) /\ Len(r \o s) = n + Len(s) /\ Len(s) \in Nat
           /\ \A i \in 1 .. n : (r \o s)[i] = r[i]
           /\ \A i \in 1 .. Len(s) : (r \o s)[n + i] = s[i]
OBVIOUS

-----------------------------------------------------------------------------
(* The reader.                                                             *)

ReaderVars == <<conn, stream, pending, in_packet>>
Reader == Typed /\ ReaderTyped /\ Reading /\ Framing

\* The digits read, as they stood in the stream.
DigitsRead ==
    [i \in 1 .. in_packet.count |->
        <<"length", (in_packet.length \div Weight[i - 1]) % Base,
          i < in_packet.count \/ ~ in_packet.complete>>]

LEMMA DigitsReadType ==
    ASSUME ReaderTyped
    PROVE  DigitsRead \in Seq(Byte) /\ Len(DigitsRead) = in_packet.count
<1>1. ASSUME NEW i \in 1 .. in_packet.count
      PROVE  <<"length", (in_packet.length \div Weight[i - 1]) % Base,
               i < in_packet.count \/ ~ in_packet.complete>> \in Byte
  <2>1. in_packet.length \in Nat /\ i - 1 \in Nat /\ in_packet.complete \in BOOLEAN
    BY DEF ReaderTyped
  <2>2. Weight[i - 1] \in Nat /\ Weight[i - 1] > 0
    BY <2>1, WeightValue
  <2>3. in_packet.length \div Weight[i - 1] \in Nat
    BY <2>1, <2>2, DivisionLaw
  <2>4. (in_packet.length \div Weight[i - 1]) % Base \in Nat
    BY <2>3, Shorter
  <2>. QED  BY <2>1, <2>4 DEF Byte
<1>2. in_packet.count \in Nat
  BY ConstantTypes DEF ReaderTyped
<1>. QED  BY <1>1, <1>2 DEF DigitsRead

LEMMA GatheredParts ==
    Gathered = IF in_packet.command = <<>> THEN <<>>
               ELSE (<<in_packet.command>> \o DigitsRead) \o in_packet.body
BY Zenon DEF Gathered, DigitsRead

LEMMA NoPacketReader ==
    ASSUME Typed', in_packet' = NoPacket, conn' = "up" => stream' = Bytes(pending')
    PROVE  ReaderTyped' /\ Reading' /\ Framing'
<1>1. ReaderTyped'
  <2>1. 0 \in 0 .. MaxDigits /\ Weight[0] = 1
    BY ConstantTypes, WeightValue
  <2>. QED  BY <2>1 DEF ReaderTyped, NoPacket
<1>2. in_packet'.command = <<>>
  BY DEF NoPacket
<1>3. Reading'
  BY <1>2 DEF Reading
<1>4. Framing'
  <2>1. Gathered' = <<>>
    BY <1>2 DEF Gathered
  <2>2. stream' \in Seq(Byte)
    BY DEF Typed
  <2>. QED  BY <2>1, <2>2, Concat DEF Framing
<1>. QED  BY <1>1, <1>3, <1>4

\* The connection as it was, or given up: nothing to read has changed.
LEMMA ReaderIdle ==
    ASSUME Reader, Typed', UNCHANGED <<stream, pending, in_packet>>, conn' = "up" => conn = "up"
    PROVE  ReaderTyped' /\ Reading' /\ Framing'
<1>1. ReaderTyped'
  BY SMTT(30) DEF ReaderTyped, Reader
<1>2. Reading'
  BY DEF Reading, Reader
<1>3. Gathered' = Gathered
  BY DEF Gathered
<1>. QED  BY <1>1, <1>2, <1>3 DEF Framing, Reader

LEMMA ReadCommandReader ==
    ASSUME Reader, Typed', ReadCommand
    PROVE  ReaderTyped' /\ Reading' /\ Framing'
<1>. DEFINE p == Head(pending)
            cmd == <<"command", p>>
            rest == LengthDigits[p.len] \o (Body(p, p.len) \o Bytes(Tail(pending)))
<1>1. /\ conn = "up" /\ conn' = "up" /\ stream # <<>> /\ pending' = pending
      /\ in_packet = NoPacket /\ stream = Bytes(pending) /\ stream \in Seq(Byte)
      /\ in_packet' = [in_packet EXCEPT !.command = Head(stream)]
      /\ stream' = Tail(stream) /\ pending \in Seq(Packets)
  BY DEF ReadCommand, Reader, Reading, Typed
<1>2. pending # <<>>
  BY <1>1, BytesEmpty
<1>3. /\ p \in Packets /\ Tail(pending) \in Seq(Packets)
      /\ Bytes(pending) = Encode(p) \o Bytes(Tail(pending))
  BY <1>1, <1>2, BytesFirst
<1>4. /\ Encode(p) = <<cmd>> \o (LengthDigits[p.len] \o Body(p, p.len))
      /\ cmd \in Byte
      /\ LengthDigits[p.len] \in Seq(Byte) /\ Body(p, p.len) \in Seq(Byte)
      /\ Bytes(Tail(pending)) \in Seq(Byte)
      /\ p.len \in Nat
  <2>1. p.len \in Nat
    BY <1>3, PacketFields
  <2>2. cmd \in Byte
    BY <1>3 DEF Byte
  <2>. QED  BY <1>3, <2>1, <2>2, EncodeType, EncodedType, BodyType
<1>5. stream = <<cmd>> \o rest /\ rest \in Seq(Byte)
  <2>. DEFINE a == LengthDigits[p.len]
              b == Body(p, p.len)
              c == Bytes(Tail(pending))
  <2>1. a \in Seq(Byte) /\ b \in Seq(Byte) /\ c \in Seq(Byte) /\ <<cmd>> \in Seq(Byte)
    BY <1>4, Concat
  <2>2. stream = (<<cmd>> \o (a \o b)) \o c
    BY <1>1, <1>3, <1>4
  <2>3. rest = a \o (b \o c)
    OBVIOUS
  <2>. HIDE DEF a, b, c, p, cmd, rest
  <2>4. a \o b \in Seq(Byte) /\ b \o c \in Seq(Byte) /\ a \o (b \o c) \in Seq(Byte)
    BY ONLY <2>1, Concat
  <2>5. (<<cmd>> \o (a \o b)) \o c = <<cmd>> \o ((a \o b) \o c)
    BY ONLY <2>1, <2>4, Concat
  <2>6. (a \o b) \o c = a \o (b \o c)
    BY ONLY SMTT(30), <2>1, Concat
  <2>. QED  BY ONLY <2>2, <2>3, <2>4, <2>5, <2>6
<1>6. Head(stream) = cmd /\ Tail(stream) = rest
  <2>. HIDE DEF rest, cmd
  <2>. QED  BY ONLY <1>4, <1>5, Concat
<1>7. in_packet' = [NoPacket EXCEPT !.command = cmd]
  BY <1>1, <1>6
<1>8. /\ in_packet'.command = cmd /\ in_packet'.count = 0 /\ in_packet'.complete = FALSE
      /\ in_packet'.length = 0 /\ in_packet'.mult = 1 /\ in_packet'.to_process = 0
      /\ in_packet'.body = <<>>
  BY <1>7 DEF NoPacket
<1>9. ReaderTyped'
  <2>1. 0 \in 0 .. MaxDigits /\ Weight[0] = 1
    BY ConstantTypes, WeightValue
  <2>2. cmd \in {"command"} \X Packets
    BY <1>3
  <2>. HIDE DEF cmd, p
  <2>3. in_packet' = [command |-> cmd, count |-> 0, complete |-> FALSE, length |-> 0,
                      mult |-> 1, to_process |-> 0, body |-> <<>>]
    BY <1>7 DEF NoPacket
  <2>4. <<>> \in Seq(Byte) /\ Len(<<>>) = 0
    OBVIOUS
  <2>. QED  BY ONLY <2>1, <2>2, <2>3, <2>4 DEF ReaderTyped
<1>10. Reading'
  <2>1. p.len % Weight[0] = 0 /\ p.len \div Weight[0] = p.len
    <3>1. Weight[0] = 1
      BY ONLY WeightValue
    <3>2. \A n \in Nat : n \div 1 = n /\ n % 1 = 0
      OBVIOUS
    <3>3. p.len \in Nat
      BY ONLY <1>4
    <3>. HIDE DEF p
    <3>. QED  BY ONLY <3>1, <3>2, <3>3
  <2>2. cmd # <<>>
    OBVIOUS
  <2>. QED  BY <1>1, <1>2, <1>6, <1>8, <2>1, <2>2 DEF Reading
<1>11. Framing'
  <2>1. DigitsRead' = <<>>
    BY <1>8 DEF DigitsRead
  <2>2. cmd # <<>>
    OBVIOUS
  <2>3. Gathered' = (<<cmd>> \o <<>>) \o <<>>
    <3>1. Gathered' = IF in_packet'.command = <<>> THEN <<>>
                      ELSE (<<in_packet'.command>> \o DigitsRead') \o in_packet'.body
      BY Zenon DEF Gathered, DigitsRead
    <3>. HIDE DEF cmd
    <3>. QED  BY ONLY <3>1, <1>8, <2>1, <2>2
  <2>. HIDE DEF cmd, rest
  <2>4. Gathered' = <<cmd>>
    BY ONLY <2>3, <1>4, Concat
  <2>. QED  BY <1>1, <1>5, <1>6, <2>4 DEF Framing
<1>. QED  BY <1>9, <1>10, <1>11

\* A digit moves from the stream to the digits read, and the length is so much of
\* the packet's as these digits say.
LEMMA ReadLengthReader ==
    ASSUME Reader, Typed', ReadLength
    PROVE  ReaderTyped' /\ Reading' /\ Framing'
<1>. DEFINE p == Head(pending)
            c == in_packet.count
            w == Weight[c]
            n == p.len \div w
            x == Body(p, p.len) \o Bytes(Tail(pending))
            more == Base <= n
            digit == <<"length", n % Base, more>>
            len == in_packet.length
            len2 == len + (n % Base) * w
<1>a. /\ conn = "up" /\ conn' = "up" /\ pending' = pending /\ pending \in Seq(Packets)
      /\ stream \in Seq(Byte) /\ stream # <<>>
      /\ in_packet.command # <<>> /\ in_packet.complete = FALSE /\ TakeDigit
      /\ stream' = Tail(stream)
  BY ZenonT(30) DEF ReadLength, ReadingLength, TakeDigit, Reader, Typed,
     ReaderTyped
<1>b. c \in Nat /\ c < MaxDigits /\ in_packet.mult = w /\ len \in Nat /\ len < w
  <2>1. /\ c \in 0 .. MaxDigits /\ c < MaxDigits /\ in_packet.mult = Weight[c]
        /\ len \in Nat /\ len < in_packet.mult
    BY DEF ReadLength, Reader, ReaderTyped
  <2>2. c \in Nat
    BY SMTT(30), <2>1, ConstantTypes
  <2>. QED  BY ONLY <2>1, <2>2
<1>c. /\ pending # <<>> /\ in_packet.command = <<"command", p>> /\ len = p.len % w
      /\ in_packet.body = <<>> /\ in_packet.to_process = 0
  BY <1>a DEF Reader, Reading
<1>d. stream = LengthDigits[n] \o x
  BY <1>a, Zenon DEF Reader, Reading
<1>2. p \in Packets /\ Tail(pending) \in Seq(Packets) /\ p.len \in Nat
  BY <1>a, <1>c, HeadTailProperties, PacketFields
<1>3. w \in Nat /\ w > 0 /\ n \in Nat /\ Weight[c + 1] = Base * w
  BY <1>a, <1>b, <1>c, <1>2, WeightValue, DivisionLaw
<1>4. x \in Seq(Byte)
  <2>1. Body(p, p.len) \in Seq(Byte) /\ Bytes(Tail(pending)) \in Seq(Byte)
    BY <1>2, BodyType, EncodedType
  <2>. QED  BY <2>1, Concat
<1>5. /\ n % Base \in Nat /\ n % Base < Base /\ n \div Base \in Nat
      /\ LengthDigits[n \div Base] \in Seq(Byte)
      /\ digit \in Byte /\ more \in BOOLEAN
      /\ LengthDigits[n] = IF more THEN <<digit>> \o LengthDigits[n \div Base] ELSE <<digit>>
  <2>1. n % Base \in Nat /\ n % Base < Base /\ n \div Base \in Nat
    BY <1>3, Shorter
  <2>2. LengthDigits[n \div Base] \in Seq(Byte)
    BY <2>1, LengthDigitsType, DigitIsByte, SeqMonotonic
  <2>3. more \in BOOLEAN
    OBVIOUS
  <2>4. digit \in Byte
    BY <2>1, <2>3 DEF Byte
  <2>5. more => LengthDigits[n] = <<digit>> \o LengthDigits[n \div Base]
    <3>1. n \in Nat
      BY <1>3
    <3>. HIDE DEF n
    <3>. QED  BY <3>1, FirstDigit
  <2>6. ~ more => LengthDigits[n] = <<digit>>
    <3>1. n \in Nat
      BY <1>3
    <3>. HIDE DEF n
    <3>2. ~ more => n < Base /\ more = FALSE
      BY <3>1, ConstantTypes
    <3>. QED  BY <3>1, <3>2, FirstDigit
  <2>. QED  BY <2>1, <2>2, <2>3, <2>4, <2>5, <2>6
<1>. DEFINE rest == IF more THEN LengthDigits[n \div Base] \o x ELSE x
<1>6. rest \in Seq(Byte) /\ stream = <<digit>> \o rest
  <2>. HIDE DEF digit, x, n, more
  <2>1. CASE more
    <3>1. stream = (<<digit>> \o LengthDigits[n \div Base]) \o x
      BY ONLY <1>d, <1>5, <2>1
    <3>2. <<digit>> \in Seq(Byte)
      BY ONLY <1>5, Concat
    <3>3. \A r, s, u \in Seq(Byte) : (r \o s) \o u = r \o (s \o u)
      BY ONLY Concat
    <3>4. LengthDigits[n \div Base] \in Seq(Byte)
      BY ONLY <1>5
    <3>5. stream = <<digit>> \o (LengthDigits[n \div Base] \o x)
      BY ONLY <1>4, <3>1, <3>2, <3>3, <3>4, Zenon
    <3>. QED  BY <1>4, <1>5, <2>1, <3>5, Concat
  <2>2. CASE ~ more
    BY <1>4, <1>5, <1>d, <2>2
  <2>. QED  BY <2>1, <2>2
<1>7. Head(stream) = digit /\ stream' = rest
  <2>. HIDE DEF digit, rest
  <2>1. \A b \in Byte, s \in Seq(Byte) : Head(<<b>> \o s) = b /\ Tail(<<b>> \o s) = s
    BY ONLY Concat
  <2>2. digit \in Byte
    BY ONLY <1>5
  <2>3. stream' = Tail(stream)
    BY ONLY <1>a
  <2>. QED  BY ONLY <1>6, <2>1, <2>2, <2>3, Zenon
<1>8. digit[2] = n % Base /\ digit[3] = more
  BY SMTT(30)
<1>9. in_packet' = [in_packet EXCEPT !.count = c + 1, !.length = len2, !.mult = w * Base,
                                     !.complete = ~ more,
                                     !.to_process = IF more THEN 0 ELSE len2]
  <2>. HIDE DEF digit, n, more
  <2>. QED  BY <1>a, <1>b, <1>c, <1>7, <1>8 DEF TakeDigit
<1>10. /\ n \div Base = p.len \div (Base * w)
       /\ len2 = p.len % (Base * w) /\ len2 \in Nat /\ len2 < Base * w
       /\ ~ more => len2 = p.len
  <2>1. n \div Base = p.len \div (Base * w) /\ len2 = p.len % (Base * w)
    BY <1>a, <1>b, <1>c, <1>2, <1>3, NextDigit
  <2>2. Base * w \in Nat /\ Base * w > 0
    BY <1>3, ConstantTypes
  <2>3. /\ len2 \in Nat /\ len2 < Base * w
        /\ p.len = (Base * w) * (p.len \div (Base * w)) + len2
    <3>. HIDE DEF n, len2, w, p
    <3>. QED  BY <1>2, <2>1, <2>2, DivisionLaw
  <2>4. ~ more => n \div Base = 0
    <3>1. n \in Nat
      BY <1>3
    <3>. HIDE DEF n
    <3>. QED  BY <3>1, Shorter, ConstantTypes
  <2>5. ~ more => len2 = p.len
    <3>1. (Base * w) * 0 = 0
      BY <2>2
    <3>. HIDE DEF n, len2, w, p, more
    <3>2. ~ more => p.len = 0 + len2
      BY ONLY <2>1, <2>3, <2>4, <3>1
    <3>. QED  BY ONLY <2>3, <3>2
  <2>. QED  BY <2>1, <2>3, <2>5
<1>11. /\ in_packet'.command = in_packet.command /\ in_packet'.count = c + 1
       /\ in_packet'.length = len2 /\ in_packet'.mult = w * Base
       /\ in_packet'.complete = ~ more /\ in_packet'.body = <<>>
       /\ in_packet'.to_process = IF more THEN 0 ELSE len2
  <2>. HIDE DEF n, more, len2, w
  <2>. QED  BY <1>a, <1>b, <1>c, <1>9 DEF Reader, ReaderTyped
<1>12. ReaderTyped'
  <2>1. c + 1 \in 0 .. MaxDigits /\ w * Base = Weight[c + 1] /\ w * Base \in Nat
    BY SMTT(30), <1>a, <1>b, <1>c, <1>3, ConstantTypes
  <2>2. <<>> \in Seq(Byte) /\ Len(<<>>) = 0
    OBVIOUS
  <2>3. len2 < w * Base
    <3>1. Base * w = w * Base
      BY <1>3, ConstantTypes
    <3>. QED  BY <1>10, <3>1
  <2>. HIDE DEF n, more, len2, w, c
  <2>4. in_packet' \in [command : {<<>>} \cup ({"command"} \X Packets),
                        count : 0 .. MaxDigits, complete : BOOLEAN, length : Nat,
                        mult : Nat, to_process : Nat, body : Seq(Byte)]
    BY <1>5, <1>9, <1>10, <2>1 DEF Reader, ReaderTyped
  <2>5. in_packet'.mult = Weight[in_packet'.count] /\ in_packet'.length < in_packet'.mult
    BY <1>11, <2>1, <2>3
  <2>6. in_packet'.to_process + Len(in_packet'.body) =
          IF in_packet'.complete THEN in_packet'.length ELSE 0
    <3>1. in_packet'.to_process = (IF more THEN 0 ELSE len2) /\ Len(in_packet'.body) = 0
      BY ONLY <1>11, <2>2
    <3>2. in_packet'.complete = ~ more /\ in_packet'.length = len2 /\ len2 \in Nat
      BY ONLY <1>10, <1>11
    <3>3. more => in_packet'.complete = FALSE /\ in_packet'.to_process = 0
      BY ONLY <3>1, <3>2, Zenon
    <3>4. ~ more => in_packet'.complete = TRUE /\ in_packet'.to_process = len2
      BY ONLY <3>1, <3>2, Zenon
    <3>5. in_packet'.complete = FALSE /\ in_packet'.to_process = 0
          => in_packet'.to_process + Len(in_packet'.body) =
               IF in_packet'.complete THEN in_packet'.length ELSE 0
      BY ONLY <3>1
    <3>6. in_packet'.complete = TRUE /\ in_packet'.to_process = len2
          => in_packet'.to_process + Len(in_packet'.body) =
               IF in_packet'.complete THEN in_packet'.length ELSE 0
      BY ONLY <3>1, <3>2
    <3>. QED  BY ONLY <3>3, <3>4, <3>5, <3>6, Zenon
  <2>. QED  BY <2>4, <2>5, <2>6 DEF ReaderTyped
<1>13. Reading'
  <2>1. CASE more
    <3>1. in_packet'.complete = FALSE /\ in_packet'.to_process = 0
          /\ in_packet'.length = p.len % Weight[in_packet'.count]
          /\ stream' = LengthDigits[p.len \div Weight[in_packet'.count]] \o x
      <4>. HIDE DEF n, len2, w, p, c, x
      <4>. QED  BY <1>3, <1>7, <1>10, <1>11, <2>1
    <3>. HIDE DEF n, len2, w, c, more
    <3>. QED  BY <1>a, <1>b, <1>c, <1>11, <3>1 DEF Reading
  <2>2. CASE ~ more
    <3>1. /\ in_packet'.complete = TRUE /\ in_packet'.to_process = p.len
          /\ in_packet'.length = p.len /\ stream' = x
      <4>. HIDE DEF n, len2, w, p, c, x
      <4>. QED  BY <1>7, <1>10, <1>11, <2>2
    <3>2. x = LastOfBody(p, p.len) \o Bytes(Tail(pending))
      BY <1>2, BodyType
    <3>. HIDE DEF n, len2, w, c, more, x
    <3>. QED  BY <1>a, <1>b, <1>c, <1>11, <3>1, <3>2 DEF Reading
  <2>. QED  BY <2>1, <2>2
<1>14. DigitsRead' = DigitsRead \o <<digit>>
  <2>1. DigitsRead \in Seq(Byte) /\ Len(DigitsRead) = c
    BY DigitsReadType DEF Reader
  <2>2. DigitsRead' \in Seq(Byte) /\ Len(DigitsRead') = c + 1
    <3>1. DigitsRead' \in Seq(Byte) /\ Len(DigitsRead') = in_packet'.count
      <4>1. ASSUME NEW i \in 1 .. in_packet'.count
            PROVE  <<"length", (in_packet'.length \div Weight[i - 1]) % Base,
                     i < in_packet'.count \/ ~ in_packet'.complete>> \in Byte
        <5>1. in_packet'.length \in Nat /\ i - 1 \in Nat /\ in_packet'.complete \in BOOLEAN
          BY <1>12 DEF ReaderTyped
        <5>2. Weight[i - 1] \in Nat /\ Weight[i - 1] > 0
          BY <5>1, WeightValue
        <5>3. in_packet'.length \div Weight[i - 1] \in Nat
          BY <5>1, <5>2, DivisionLaw
        <5>4. (in_packet'.length \div Weight[i - 1]) % Base \in Nat
          BY <5>3, Shorter
        <5>. QED  BY <5>1, <5>4 DEF Byte
      <4>2. in_packet'.count \in Nat
        BY <1>a, <1>b, <1>c, <1>11
      <4>. QED  BY <4>1, <4>2 DEF DigitsRead
    <3>. QED  BY <1>11, <3>1
  <2>3. ASSUME NEW i \in 1 .. c  PROVE DigitsRead'[i] = DigitsRead[i]
    <3>1. i \in Nat /\ i - 1 \in Nat /\ i <= c /\ (i - 1) + 1 = i
      BY <1>a, <1>b, <1>c
    <3>2. PICK k \in Nat : w = k * Weight[i]
      BY <1>a, <1>b, <1>c, <3>1, WeightMultiple
    <3>3. Weight[i] = Base * Weight[i - 1] /\ Weight[i - 1] \in Nat /\ Weight[i - 1] > 0
      BY <3>1, WeightValue
    <3>4. len2 = len + ((n % Base) * k) * (Base * Weight[i - 1]) /\ (n % Base) * k \in Nat
      <4>1. (n % Base) * k \in Nat
        BY <1>5, <3>2
      <4>2. Base * Weight[i - 1] \in Nat
        BY <3>3, ConstantTypes
      <4>3. \A a, b, d \in Nat : a * (b * d) = (a * b) * d
        OBVIOUS
      <4>4. (n % Base) * (k * (Base * Weight[i - 1])) = ((n % Base) * k) * (Base * Weight[i - 1])
        BY ONLY <1>5, <3>2, <4>2, <4>3
      <4>. QED  BY ONLY <3>2, <3>3, <4>1, <4>4
    <3>5. (len2 \div Weight[i - 1]) % Base = (len \div Weight[i - 1]) % Base
      <4>. DEFINE k2 == (n % Base) * k
                  wi == Weight[i - 1]
      <4>1. len \in Nat /\ k2 \in Nat /\ wi \in Nat /\ wi > 0
        BY <1>b, <3>3, <3>4
      <4>2. len2 = len + k2 * (Base * wi)
        BY ONLY <3>4
      <4>. HIDE DEF n, len2, len, k2, wi
      <4>3. ((len + k2 * (Base * wi)) \div wi) % Base = (len \div wi) % Base
        BY ONLY <4>1, DigitStays
      <4>4. (len2 \div wi) % Base = (len \div wi) % Base
        BY ONLY <4>2, <4>3
      <4>. QED  BY ONLY <4>4 DEF wi
    <3>6. DigitsRead'[i] = <<"length", (len2 \div Weight[i - 1]) % Base, TRUE>>
      <4>1. i \in 1 .. in_packet'.count /\ i < in_packet'.count
        <5>1. in_packet'.count = c + 1 /\ c \in Nat
          BY ONLY <1>b, <1>11
        <5>. HIDE DEF c
        <5>. QED  BY ONLY <3>1, <5>1, i \in 1 .. c
      <4>. HIDE DEF n, len2, len, c
      <4>. QED  BY <1>11, <4>1 DEF DigitsRead
    <3>7. DigitsRead[i] = <<"length", (len \div Weight[i - 1]) % Base, TRUE>>
      BY <1>a, <1>b, <1>c, <3>1 DEF DigitsRead
    <3>. QED  BY <3>5, <3>6, <3>7
  <2>4. DigitsRead'[c + 1] = digit
    <3>1. (len2 \div w) % Base = n % Base
      <4>. HIDE DEF n, len
      <4>. QED  BY <1>a, <1>b, <1>c, <1>3, <1>5, DigitAdded
    <3>2. c + 1 \in 1 .. in_packet'.count /\ ~ (c + 1 < in_packet'.count) /\ (c + 1) - 1 = c
      BY <1>a, <1>b, <1>c, <1>11
    <3>. HIDE DEF n, len2, len, more
    <3>. QED  BY <1>5, <1>11, <3>1, <3>2 DEF DigitsRead
  <2>. DEFINE t == DigitsRead \o <<digit>>
  <2>5. /\ t \in Seq(Byte) /\ Len(t) = c + 1 /\ t[c + 1] = digit
        /\ \A i \in 1 .. c : t[i] = DigitsRead[i]
    <3>1. digit \in Byte /\ c \in Nat
      BY ONLY <1>b, <1>5
    <3>. HIDE DEF digit, c
    <3>. QED  BY ONLY <2>1, <3>1
  <2>6. ASSUME NEW i \in 1 .. c + 1  PROVE DigitsRead'[i] = t[i]
    <3>. HIDE DEF digit, t
    <3>1. i \in 1 .. c \/ i = c + 1
      BY <1>a, <1>b, <1>c
    <3>. QED  BY <2>3, <2>4, <2>5, <3>1
  <2>. HIDE DEF t, digit
  <2>7. DigitsRead' = t
    BY ONLY <2>2, <2>5, <2>6, SeqEqual
  <2>. QED  BY <2>7 DEF t
<1>15. Framing'
  <2>. DEFINE cmd == in_packet.command
              d == DigitsRead
  <2>1. cmd \in Byte /\ d \in Seq(Byte)
    BY <1>a, <1>b, <1>c, <1>2, DigitsReadType DEF Byte, Reader
  <2>2. Gathered = (<<cmd>> \o d) \o <<>>
    BY <1>a, <1>b, <1>c, GatheredParts
  <2>3. Gathered' = (<<cmd>> \o (d \o <<digit>>)) \o <<>>
    <3>1. Gathered' = IF in_packet'.command = <<>> THEN <<>>
                      ELSE (<<in_packet'.command>> \o DigitsRead') \o in_packet'.body
      BY Zenon DEF Gathered, DigitsRead
    <3>. HIDE DEF digit, more, n, len2, w, c, p
    <3>. QED  BY ONLY <3>1, <1>a, <1>b, <1>c, <1>11, <1>14
  <2>4. Gathered \o stream = Bytes(pending)
    BY <1>a, <1>b, <1>c DEF Framing, Reader
  <2>. HIDE DEF cmd, d, digit, rest
  <2>5. <<cmd>> \in Seq(Byte) /\ <<digit>> \in Seq(Byte) /\ <<cmd>> \o d \in Seq(Byte)
        /\ d \o <<digit>> \in Seq(Byte) /\ <<cmd>> \o (d \o <<digit>>) \in Seq(Byte)
    <3>1. <<cmd>> \in Seq(Byte) /\ <<digit>> \in Seq(Byte)
      BY ONLY <1>5, <2>1, Concat
    <3>2. \A r, s \in Seq(Byte) : r \o s \in Seq(Byte)
      BY ONLY Concat
    <3>. QED  BY ONLY <2>1, <3>1, <3>2
  <2>6. Gathered = <<cmd>> \o d /\ Gathered' = <<cmd>> \o (d \o <<digit>>)
    BY ONLY <2>2, <2>3, <2>5, Concat
  <2>7. \A r, s, t \in Seq(Byte) : (r \o s) \o t = r \o (s \o t)
    BY ONLY Concat
  <2>8. Gathered' = (<<cmd>> \o d) \o <<digit>>
    <3>1. (<<cmd>> \o d) \o <<digit>> = <<cmd>> \o (d \o <<digit>>)
      BY ONLY <2>1, <2>5, <2>7
    <3>. QED  BY ONLY <2>6, <3>1, Zenon
  <2>9. Gathered' \o rest = (<<cmd>> \o d) \o (<<digit>> \o rest)
    <3>1. rest \in Seq(Byte)
      BY ONLY <1>6
    <3>2. <<cmd>> \o d \in Seq(Byte)
      BY ONLY <2>5
    <3>3. <<digit>> \in Seq(Byte)
      BY ONLY <2>5
    <3>4. ((<<cmd>> \o d) \o <<digit>>) \o rest = (<<cmd>> \o d) \o (<<digit>> \o rest)
      BY ONLY <2>7, <3>1, <3>2, <3>3, SMTT(30)
    <3>. QED  BY ONLY <2>8, <3>4
  <2>10. Gathered' \o stream' = Bytes(pending)
    BY ONLY <1>6, <1>7, <2>4, <2>6, <2>9
  <2>. QED  BY <1>a, <1>b, <1>c, <2>10 DEF Framing
<1>. QED  BY <1>12, <1>13, <1>15

LEMMA ReadLengthFailsReader ==
    ASSUME Reader, Typed', ReadLengthFails
    PROVE  ReaderTyped' /\ Reading' /\ Framing'
BY ReaderIdle DEF ReadLengthFails, clientVars

\* Bytes of the body move from the stream to the packet.
LEMMA ReadBodyReader ==
    ASSUME Reader, Typed', ReadBody
    PROVE  ReaderTyped' /\ Reading' /\ Framing'
<1>. DEFINE p == Head(pending)
            k == in_packet.to_process
            body == in_packet.body
            rest == Bytes(Tail(pending))
<1>1. PICK n \in 1 .. k :
          /\ n <= Len(stream)
          /\ in_packet' = [in_packet EXCEPT !.to_process = k - n,
                                            !.body = body \o SubSeq(stream, 1, n)]
          /\ stream' = SubSeq(stream, n + 1, Len(stream))
  BY DEF ReadBody
<1>. DEFINE s1 == SubSeq(stream, 1, n)
            s2 == SubSeq(stream, n + 1, Len(stream))
<1>2. /\ conn = "up" /\ conn' = "up" /\ pending' = pending /\ pending \in Seq(Packets)
      /\ stream \in Seq(Byte) /\ k > 0
  BY DEF ReadBody, Reader, Typed
<1>3. /\ k \in Nat /\ in_packet.complete = TRUE /\ body \in Seq(Byte)
      /\ k + Len(body) = in_packet.length
  BY SMTT(30), <1>2 DEF Reader, ReaderTyped
<1>4. /\ pending # <<>> /\ in_packet.command # <<>> /\ in_packet.command = <<"command", p>>
      /\ in_packet.length = p.len
  <2>1. in_packet.command # <<>>
    <3>1. in_packet.command = <<>> => in_packet = NoPacket
      BY <1>2 DEF Reader, Reading
    <3>2. NoPacket.to_process = 0
      BY DEF NoPacket
    <3>. QED  BY <1>2, <3>1, <3>2
  <2>. QED  BY <1>2, <1>3, <2>1 DEF Reader, Reading
<1>5. stream = LastOfBody(p, k) \o rest
  <2>1. in_packet.command # <<>> /\ in_packet.complete
    BY <1>3, <1>4
  <2>. QED  BY <1>2, <2>1, Zenon DEF Reader, Reading
<1>6. p \in Packets /\ p.len \in Nat /\ rest \in Seq(Byte)
  BY <1>2, <1>4, HeadTailProperties, PacketFields, EncodedType
<1>7. n \in Nat /\ n > 0 /\ n <= k /\ k - n \in Nat /\ k <= p.len /\ k - n <= p.len
  <2>1. Len(body) \in Nat
    BY <1>3
  <2>. QED  BY <1>3, <1>4, <1>6, <2>1
<1>8. /\ LastOfBody(p, k) \in Seq(Byte) /\ Len(LastOfBody(p, k)) = k
      /\ LastOfBody(p, k - n) \in Seq(Byte) /\ Len(LastOfBody(p, k - n)) = k - n
  BY <1>3, <1>6, <1>7, BodyType
<1>. HIDE DEF rest, p, k, body
<1>9. /\ s1 \in Seq(Byte) /\ Len(s1) = n /\ s2 \in Seq(Byte) /\ Len(s2) = Len(stream) - n
      /\ \A i \in 1 .. n : s1[i] = stream[i]
      /\ \A i \in 1 .. Len(stream) - n : s2[i] = stream[n + i]
      /\ Len(stream) \in Nat
  <2>1. Len(stream) \in Nat /\ n <= Len(stream)
    BY <1>1, <1>2
  <2>2. \A i \in 1 .. n : stream[i] \in Byte
    BY <1>2, <2>1
  <2>3. \A i \in 1 .. Len(stream) - n : stream[n + i] \in Byte
    BY <1>2, <1>7, <2>1
  <2>. QED  BY <1>2, <1>7, <2>1, <2>2, <2>3
<1>10. s1 \o s2 = stream
  <2>. DEFINE t == s1 \o s2
  <2>1. /\ t \in Seq(Byte) /\ Len(t) = Len(stream)
        /\ \A i \in 1 .. n : t[i] = s1[i]
        /\ \A i \in 1 .. Len(stream) - n : t[n + i] = s2[i]
    <3>1. n \in Nat /\ n = Len(s1) /\ n + (Len(stream) - n) = Len(stream)
      BY <1>7, <1>9
    <3>2. s1 \in Seq(Byte) /\ s2 \in Seq(Byte) /\ Len(s2) = Len(stream) - n
      BY SMTT(30), <1>9
    <3>. HIDE DEF s1, s2
    <3>3. /\ t \in Seq(Byte) /\ Len(t) = n + Len(s2)
          /\ \A i \in 1 .. n : t[i] = s1[i]
          /\ \A i \in 1 .. Len(s2) : t[n + i] = s2[i]
      BY ONLY ZenonT(40), <3>1, <3>2, ConcatAt
    <3>. QED  BY ONLY <3>1, <3>2, <3>3
  <2>. HIDE DEF t, s1, s2
  <2>2. ASSUME NEW i \in 1 .. Len(stream)  PROVE t[i] = stream[i]
    <3>1. CASE i <= n
      BY <1>7, <1>9, <2>1, <3>1
    <3>2. CASE i > n
      <4>1. i - n \in 1 .. Len(stream) - n /\ n + (i - n) = i
        BY <1>7, <1>9, <3>2
      <4>2. t[n + (i - n)] = s2[i - n] /\ s2[i - n] = stream[n + (i - n)]
        BY ONLY <1>9, <2>1, <4>1
      <4>. QED  BY ONLY <4>1, <4>2
    <3>. QED  BY <1>7, <3>1, <3>2
  <2>3. t = stream
    BY ONLY <1>2, <2>1, <2>2, SeqEqual
  <2>. QED  BY <2>3 DEF t
<1>11. s2 = LastOfBody(p, k - n) \o rest
  <2>. DEFINE t == LastOfBody(p, k - n) \o rest
              a == LastOfBody(p, k)
              b == LastOfBody(p, k - n)
  <2>1. ASSUME NEW i \in 1 .. k - n  PROVE b[i] = a[n + i]
    <3>1. b[i] = <<"body", p, p.len - (k - n) + i>>
      BY DEF LastOfBody
    <3>2. n + i \in 1 .. k
      BY <1>3, <1>7
    <3>3. a[n + i] = <<"body", p, p.len - k + (n + i)>>
      BY <3>2 DEF LastOfBody
    <3>4. p.len - (k - n) + i = p.len - k + (n + i)
      BY <1>3, <1>6, <1>7
    <3>. QED  BY <3>1, <3>3, <3>4
  <2>2. a \in Seq(Byte) /\ Len(a) = k /\ b \in Seq(Byte) /\ Len(b) = k - n
    BY <1>8
  <2>3. stream = a \o rest
    BY <1>5
  <2>4. t = b \o rest
    OBVIOUS
  <2>. HIDE DEF a, b, t
  <2>5. /\ Len(stream) = k + Len(rest) /\ Len(rest) \in Nat
        /\ \A i \in 1 .. k : stream[i] = a[i]
        /\ \A i \in 1 .. Len(rest) : stream[k + i] = rest[i]
    <3>1. /\ Len(a \o rest) = k + Len(rest) /\ Len(rest) \in Nat
          /\ \A i \in 1 .. k : (a \o rest)[i] = a[i]
          /\ \A i \in 1 .. Len(rest) : (a \o rest)[k + i] = rest[i]
      <4>1. a \in Seq(Byte) /\ rest \in Seq(Byte) /\ k \in Nat /\ k = Len(a)
        BY ONLY <1>3, <1>6, <2>2
      <4>. QED  BY ONLY <4>1, ConcatAt
    <3>. QED  BY ONLY <2>3, <3>1
  <2>6. /\ t \in Seq(Byte) /\ Len(t) = (k - n) + Len(rest)
        /\ \A i \in 1 .. k - n : t[i] = b[i]
        /\ \A i \in 1 .. Len(rest) : t[(k - n) + i] = rest[i]
    <3>. DEFINE m == k - n
    <3>1. b \in Seq(Byte) /\ rest \in Seq(Byte) /\ m \in Nat /\ m = Len(b)
      BY ONLY <1>6, <1>7, <2>2
    <3>. HIDE DEF m
    <3>2. /\ b \o rest \in Seq(Byte) /\ Len(b \o rest) = m + Len(rest)
          /\ \A i \in 1 .. m : (b \o rest)[i] = b[i]
          /\ \A i \in 1 .. Len(rest) : (b \o rest)[m + i] = rest[i]
      BY ONLY <3>1, ConcatAt
    <3>. QED  BY ONLY <2>4, <3>2 DEF m
  <2>. HIDE DEF s1, s2
  <2>7. Len(s2) = Len(t)
    BY ONLY <1>3, <1>7, <1>9, <2>5, <2>6
  <2>8. ASSUME NEW i \in 1 .. Len(s2)  PROVE s2[i] = t[i]
    <3>1. s2[i] = stream[n + i] /\ i \in Nat
      BY <1>9
    <3>2. CASE i <= k - n
      <4>1. i \in 1 .. k - n /\ n + i \in 1 .. k
        BY <1>3, <1>7, <3>2
      <4>. QED  BY ONLY <2>1, <2>5, <2>6, <3>1, <4>1
    <3>3. CASE i > k - n
      <4>1. /\ i - (k - n) \in 1 .. Len(rest)
            /\ k + (i - (k - n)) = n + i /\ (k - n) + (i - (k - n)) = i
        BY <1>3, <1>7, <1>9, <2>5, <3>3
      <4>2. /\ stream[k + (i - (k - n))] = rest[i - (k - n)]
            /\ t[(k - n) + (i - (k - n))] = rest[i - (k - n)]
        BY ONLY <2>5, <2>6, <4>1
      <4>. QED  BY ONLY <3>1, <4>1, <4>2
    <3>. QED  BY <1>7, <3>1, <3>2, <3>3
  <2>9. s2 = t
    BY ONLY <1>9, <2>6, <2>7, <2>8, SeqEqual
  <2>. QED  BY <2>9 DEF t
<1>. HIDE DEF s1, s2
<1>12. in_packet' = [in_packet EXCEPT !.to_process = k - n, !.body = body \o s1]
       /\ stream' = s2
  BY <1>1 DEF s1, s2
<1>13. body \o s1 \in Seq(Byte) /\ Len(body \o s1) = Len(body) + n /\ Len(body) \in Nat
  BY ONLY <1>3, <1>9, Concat, LenProperties
<1>14. /\ in_packet'.command = in_packet.command /\ in_packet'.count = in_packet.count
       /\ in_packet'.complete = TRUE /\ in_packet'.length = in_packet.length
       /\ in_packet'.mult = in_packet.mult /\ in_packet'.to_process = k - n
       /\ in_packet'.body = body \o s1
  BY <1>3, <1>12 DEF Reader, ReaderTyped
<1>15. ReaderTyped'
  <2>1. in_packet' \in [command : {<<>>} \cup ({"command"} \X Packets),
                        count : 0 .. MaxDigits, complete : BOOLEAN, length : Nat,
                        mult : Nat, to_process : Nat, body : Seq(Byte)]
    BY <1>7, <1>12, <1>13 DEF Reader, ReaderTyped
  <2>2. in_packet'.mult = Weight[in_packet'.count] /\ in_packet'.length < in_packet'.mult
    BY <1>14 DEF Reader, ReaderTyped
  <2>3. in_packet'.to_process + Len(in_packet'.body) =
          IF in_packet'.complete THEN in_packet'.length ELSE 0
    <3>1. (k - n) + (Len(body) + n) = k + Len(body)
      BY ONLY SMTT(30), <1>3, <1>7, <1>13
    <3>. QED  BY ONLY <1>3, <1>13, <1>14, <3>1
  <2>. QED  BY <2>1, <2>2, <2>3 DEF ReaderTyped
<1>16. Reading'
  BY <1>2, <1>4, <1>11, <1>12, <1>14 DEF Reading, rest, p
<1>17. Framing'
  <2>. DEFINE g == <<in_packet.command>> \o DigitsRead
  <2>1. g \in Seq(Byte)
    <3>1. in_packet.command \in Byte
      BY <1>4, <1>6 DEF Byte
    <3>2. DigitsRead \in Seq(Byte)
      BY DigitsReadType DEF Reader
    <3>. QED  BY <3>1, <3>2, Concat
  <2>2. Gathered = g \o body
    BY <1>4, GatheredParts DEF body
  <2>3. DigitsRead' = DigitsRead
    BY <1>3, <1>14 DEF DigitsRead
  <2>4. Gathered' = g \o (body \o s1)
    <3>1. Gathered' = IF in_packet'.command = <<>> THEN <<>>
                      ELSE (<<in_packet'.command>> \o DigitsRead') \o in_packet'.body
      BY Zenon DEF Gathered, DigitsRead
    <3>. QED  BY ONLY <3>1, <1>4, <1>14, <2>3
  <2>5. Gathered \o stream = Bytes(pending)
    BY <1>2 DEF Framing, Reader
  <2>. HIDE DEF g
  <2>6. \A r, s, t \in Seq(Byte) : (r \o s) \o t = r \o (s \o t)
    BY ONLY Concat
  <2>7. body \in Seq(Byte)
    BY ONLY <1>3
  <2>8. s1 \in Seq(Byte)
    BY ONLY <1>9
  <2>9. s2 \in Seq(Byte)
    BY ONLY <1>9
  <2>10. body \o s1 \in Seq(Byte)
    BY ONLY <1>13
  <2>11. stream \in Seq(Byte)
    BY ONLY <1>2
  <2>12. (g \o (body \o s1)) \o s2 = g \o ((body \o s1) \o s2)
    BY ONLY <2>1, <2>6, <2>9, <2>10, SMTT(30)
  <2>13. (body \o s1) \o s2 = body \o (s1 \o s2)
    BY ONLY <2>6, <2>7, <2>8, <2>9, SMTT(30)
  <2>14. (g \o body) \o stream = g \o (body \o stream)
    BY ONLY <2>1, <2>6, <2>7, <2>11, SMTT(30)
  <2>15. stream' = s2 /\ stream = s1 \o s2
    BY ONLY <1>10, <1>12
  <2>16. Gathered' \o stream' = (g \o (body \o s1)) \o s2
    BY ONLY <2>4, <2>15
  <2>17. @ = g \o (body \o stream)
    BY ONLY <2>12, <2>13, <2>15
  <2>18. @ = Gathered \o stream
    BY ONLY <2>2, <2>14
  <2>19. Gathered' \o stream' = Bytes(pending)
    BY ONLY <2>5, <2>16, <2>17, <2>18
  <2>. QED  BY <1>2, <2>19 DEF Framing
<1>. QED  BY <1>15, <1>16, <1>17

\* A remaining length has at most MaxDigits digits.
LEMMA LengthBounded ==
    ASSUME ReaderTyped
    PROVE  in_packet.length < Weight[MaxDigits]
<1>1. /\ in_packet.count \in Nat /\ MaxDigits \in Nat /\ in_packet.count <= MaxDigits
      /\ in_packet.length \in Nat /\ in_packet.length < Weight[in_packet.count]
  BY ConstantTypes DEF ReaderTyped
<1>2. PICK k \in Nat : Weight[MaxDigits] = k * Weight[in_packet.count]
  BY <1>1, WeightMultiple
<1>3. /\ Weight[MaxDigits] \in Nat /\ Weight[MaxDigits] > 0
      /\ Weight[in_packet.count] \in Nat
  BY <1>1, WeightValue
<1>4. Weight[in_packet.count] <= Weight[MaxDigits]
  <2>. DEFINE w == Weight[in_packet.count]
  <2>1. k # 0
    BY <1>2, <1>3
  <2>2. w \in Nat /\ k >= 1
    BY <1>3, <2>1
  <2>3. w <= k * w
    <3>. HIDE DEF w
    <3>. QED  BY ONLY <2>2, k \in Nat
  <2>. QED  BY ONLY <1>2, <2>3
<1>. QED  BY <1>1, <1>3, <1>4

\* A packet that is there as a whole is the first the broker sent.
LEMMA WholeArrived ==
    ASSUME Reader, NEW type, Whole(type)
    PROVE  /\ pending # <<>> /\ Arrived = Head(pending) /\ Arrived \in Packets
           /\ Arrived = pending[1] /\ Arrived.type = type
           /\ Len(in_packet.body) = Arrived.len /\ Arrived.len < Weight[MaxDigits]
           /\ stream = Bytes(Tail(pending)) /\ Tail(pending) \in Seq(Packets)
<1>1. /\ conn = "up" /\ in_packet.complete = TRUE /\ in_packet.to_process = 0
      /\ Arrived.type = type /\ pending \in Seq(Packets)
  BY DEF Whole, Arrived, Reader, ReaderTyped, Typed
<1>2. in_packet.command # <<>>
  <2>1. in_packet.command = <<>> => in_packet = NoPacket
    BY <1>1 DEF Reader, Reading
  <2>2. NoPacket.complete = FALSE
    BY DEF NoPacket
  <2>. QED  BY <1>1, <2>1, <2>2
<1>3. /\ pending # <<>> /\ in_packet.command = <<"command", Head(pending)>>
      /\ in_packet.length = Head(pending).len
      /\ stream = LastOfBody(Head(pending), in_packet.to_process) \o Bytes(Tail(pending))
  BY <1>1, <1>2, Zenon DEF Reader, Reading
<1>4. /\ Head(pending) \in Packets /\ Head(pending) = pending[1]
      /\ Tail(pending) \in Seq(Packets)
  BY <1>1, <1>3
<1>5. Arrived = Head(pending)
  BY <1>3 DEF Arrived
<1>6. Len(in_packet.body) = in_packet.length
  <2>1. 0 + Len(in_packet.body) = in_packet.length /\ in_packet.body \in Seq(Byte)
    BY <1>1 DEF Reader, ReaderTyped
  <2>. QED  BY <2>1
<1>7. in_packet.length < Weight[MaxDigits]
  BY LengthBounded DEF Reader
<1>8. stream = Bytes(Tail(pending))
  <2>1. LastOfBody(Head(pending), 0) = <<>>
    BY <1>4, BodyType
  <2>2. Bytes(Tail(pending)) \in Seq(Byte)
    BY <1>4, EncodedType
  <2>3. stream = <<>> \o Bytes(Tail(pending))
    BY ONLY <1>1, <1>3, <2>1
  <2>. QED  BY ONLY <2>2, <2>3, Concat
<1>. QED  BY <1>1, <1>3, <1>4, <1>5, <1>6, <1>7, <1>8

LEMMA HandledReader ==
    ASSUME Reader, Typed', NEW type, Whole(type), Handled, UNCHANGED stream
    PROVE  ReaderTyped' /\ Reading' /\ Framing'
<1>1. in_packet' = NoPacket /\ stream' = Bytes(pending')
  BY WholeArrived DEF Handled
<1>. QED  BY <1>1, NoPacketReader

LEMMA SendReader ==
    ASSUME Reader, Typed', NEW p \in Packets, Send(p), conn = "up", UNCHANGED <<conn, in_packet>>
    PROVE  ReaderTyped' /\ Reading' /\ Framing'
<1>. DEFINE e == Encode(p)
<1>1. /\ pending \in Seq(Packets) /\ pending' = Append(pending, p)
      /\ stream \in Seq(Byte) /\ stream' = stream \o e /\ e \in Seq(Byte)
      /\ conn = "up" /\ conn' = "up" /\ in_packet' = in_packet
  BY EncodeType DEF Send, Reader, Typed
<1>2. Bytes(pending') = Bytes(pending) \o e
  BY <1>1, BytesAppend
<1>. HIDE DEF e
<1>3. Gathered' = Gathered
  BY <1>1 DEF Gathered
<1>4. ReaderTyped'
  BY <1>1 DEF ReaderTyped, Reader
<1>5. /\ \A r, s, t \in Seq(Byte) : (r \o s) \o t = r \o (s \o t)
      /\ \A r, s \in Seq(Byte) : r \o s \in Seq(Byte)
  BY ONLY Concat
<1>6. CASE in_packet.command = <<>>
  <2>1. in_packet = NoPacket /\ stream = Bytes(pending)
    BY <1>1, <1>6 DEF Reader, Reading
  <2>. QED  BY <1>1, <1>2, <2>1, NoPacketReader
<1>7. CASE in_packet.command # <<>>
  <2>. DEFINE h == Head(pending)
              rest == Bytes(Tail(pending))
  <2>1. pending # <<>> /\ in_packet.command = <<"command", h>>
    BY <1>1, <1>7 DEF Reader, Reading
  <2>2. /\ h \in Packets /\ Tail(pending) \in Seq(Packets) /\ h.len \in Nat
        /\ rest \in Seq(Byte)
    BY <1>1, <2>1, HeadTailProperties, PacketFields, EncodedType
  <2>3. pending' # <<>> /\ Head(pending') = h /\ Tail(pending') = Append(Tail(pending), p)
    <3>1. /\ pending' \in Seq(Packets) /\ Len(pending') = Len(pending) + 1
          /\ pending' # <<>> /\ Len(pending) \in Nat /\ Len(pending) # 0
          /\ \A i \in 1 .. Len(pending) : pending'[i] = pending[i]
          /\ pending'[Len(pending) + 1] = p
      BY SMTT(30), <1>1, <2>1
    <3>2. Head(pending') = pending'[1] /\ h = pending[1]
      BY <1>1, <2>1, <3>1
    <3>3. Head(pending') = h
      BY ONLY <3>1, <3>2
    <3>. DEFINE a == Tail(pending')
                b == Append(Tail(pending), p)
    <3>4. /\ a \in Seq(Packets) /\ Len(a) = Len(pending)
          /\ \A i \in 1 .. Len(pending) : a[i] = pending'[i + 1]
      BY ONLY <3>1, HeadTailProperties
    <3>5. /\ b \in Seq(Packets) /\ Len(b) = Len(pending) /\ b[Len(pending)] = p
          /\ \A i \in 1 .. Len(pending) - 1 : b[i] = pending[i + 1]
      <4>1. /\ Len(Tail(pending)) = Len(pending) - 1
            /\ \A i \in 1 .. Len(pending) - 1 : Tail(pending)[i] = pending[i + 1]
        BY <1>1, <2>1, HeadTailProperties
      <4>2. /\ b \in Seq(Packets) /\ Len(b) = Len(Tail(pending)) + 1
            /\ b[Len(Tail(pending)) + 1] = p
            /\ \A i \in 1 .. Len(Tail(pending)) : b[i] = Tail(pending)[i]
        BY <2>2, AppendProperties
      <4>3. (Len(pending) - 1) + 1 = Len(pending)
        BY <3>1
      <4>. HIDE DEF b
      <4>. QED  BY ONLY <4>1, <4>2, <4>3
    <3>. HIDE DEF a, b
    <3>6. ASSUME NEW i \in 1 .. Len(pending)  PROVE a[i] = b[i]
      <4>1. CASE i = Len(pending)
        BY ONLY <3>1, <3>4, <3>5, <4>1
      <4>2. CASE i # Len(pending)
        <5>1. i \in 1 .. Len(pending) - 1 /\ i + 1 \in 1 .. Len(pending)
          BY ONLY <3>1, <4>2, i \in 1 .. Len(pending)
        <5>. QED  BY ONLY <3>1, <3>4, <3>5, <5>1, i \in 1 .. Len(pending)
      <4>. QED  BY ONLY <4>1, <4>2
    <3>7. a = b
      BY ONLY <3>4, <3>5, <3>6, SeqEqual
    <3>. QED  BY ONLY <3>1, <3>3, <3>7 DEF a, b
  <2>4. Bytes(Tail(pending')) = rest \o e
    BY <2>2, <2>3, BytesAppend DEF e
  <2>5. Reading'
    <3>1. CASE in_packet.complete
      <4>. DEFINE l == LastOfBody(h, in_packet.to_process)
      <4>1. stream = l \o rest /\ in_packet.length = h.len
        BY <1>1, <1>7, <3>1, Zenon DEF Reader, Reading
      <4>2. l \in Seq(Byte)
        <5>1. in_packet.to_process \in Nat /\ in_packet.to_process <= h.len
          <6>1. /\ in_packet.to_process \in Nat /\ in_packet.body \in Seq(Byte)
                /\ in_packet.to_process + Len(in_packet.body) = in_packet.length
            BY <3>1 DEF Reader, ReaderTyped
          <6>. QED  BY <4>1, <6>1
        <5>. QED  BY <2>2, <5>1, BodyType
      <4>. HIDE DEF l, rest, h
      <4>3. stream' = l \o Bytes(Tail(pending'))
        <5>1. e \in Seq(Byte) /\ rest \in Seq(Byte) /\ l \in Seq(Byte)
          BY ONLY <1>1, <2>2, <4>2
        <5>2. (l \o rest) \o e = l \o (rest \o e)
          BY ONLY ZenonT(40), <1>5, <5>1
        <5>3. stream' = (l \o rest) \o e
          BY ONLY <1>1, <4>1
        <5>. QED  BY ONLY <2>4, <5>2, <5>3
      <4>. QED  BY <1>1, <1>7, <2>1, <2>3, <3>1, <4>1, <4>3 DEF Reading, l
    <3>2. CASE ~ in_packet.complete
      <4>. DEFINE n == h.len \div Weight[in_packet.count]
                  l == LengthDigits[n]
                  b == Body(h, h.len)
      <4>1. /\ stream = l \o (b \o rest)
            /\ in_packet.length = h.len % Weight[in_packet.count]
            /\ in_packet.body = <<>> /\ in_packet.to_process = 0
        BY <1>1, <1>7, <3>2, Zenon DEF Reader, Reading
      <4>2. l \in Seq(Byte) /\ b \in Seq(Byte)
        <5>1. in_packet.count \in Nat
          BY ConstantTypes DEF Reader, ReaderTyped
        <5>2. Weight[in_packet.count] \in Nat /\ Weight[in_packet.count] > 0
          BY <5>1, WeightValue
        <5>3. n \in Nat
          BY <2>2, <5>2, DivisionLaw
        <5>4. l \in Seq(Byte)
          BY <5>3, LengthDigitsType, DigitIsByte, SeqMonotonic
        <5>. QED  BY <2>2, <5>4, BodyType
      <4>. HIDE DEF l, rest, b, n, h
      <4>3. stream' = l \o (b \o Bytes(Tail(pending')))
        <5>1. b \o rest \in Seq(Byte)
          BY ONLY <1>5, <2>2, <4>2
        <5>2. (l \o (b \o rest)) \o e = l \o ((b \o rest) \o e)
          <6>1. e \in Seq(Byte) /\ b \o rest \in Seq(Byte) /\ l \in Seq(Byte)
            BY ONLY <1>1, <4>2, <5>1
          <6>. QED  BY ONLY ZenonT(40), <1>5, <6>1
        <5>3. (b \o rest) \o e = b \o (rest \o e)
          <6>1. e \in Seq(Byte) /\ b \in Seq(Byte) /\ rest \in Seq(Byte)
            BY ONLY <1>1, <2>2, <4>2
          <6>. QED  BY ONLY SMTT(30), <1>5, <6>1
        <5>4. stream' = (l \o (b \o rest)) \o e
          BY ONLY <1>1, <4>1
        <5>. QED  BY ONLY <2>4, <5>2, <5>3, <5>4
      <4>. QED  BY <1>1, <1>7, <2>1, <2>3, <3>2, <4>1, <4>3 DEF Reading, l, b,
         n
    <3>. QED  BY <3>1, <3>2
  <2>6. Framing'
    <3>1. Gathered \o stream = Bytes(pending)
      BY <1>1 DEF Reader, Framing
    <3>2. Gathered \in Seq(Byte)
      <4>1. in_packet.command \in Byte
        BY <2>1, <2>2 DEF Byte
      <4>2. DigitsRead \in Seq(Byte) /\ in_packet.body \in Seq(Byte)
        BY DigitsReadType DEF Reader, ReaderTyped
      <4>3. <<in_packet.command>> \in Seq(Byte)
        BY ONLY <4>1, Concat
      <4>. QED  BY <1>5, <1>7, <4>2, <4>3, GatheredParts
    <3>3. (Gathered \o stream) \o e = Gathered \o (stream \o e)
      <4>1. e \in Seq(Byte) /\ stream \in Seq(Byte)
        BY ONLY <1>1
      <4>. QED  BY ONLY SMTT(30), <1>5, <3>2, <4>1
    <3>. QED  BY <1>1, <1>2, <1>3, <3>1, <3>3 DEF Framing
  <2>. QED  BY SMTT(30), <1>4, <2>5, <2>6
<1>. QED  BY <1>6, <1>7

-----------------------------------------------------------------------------
(* What arrives, and types.                                                *)

\* A publication that is handled carries a message.
LEMMA PublicationArrived ==
    ASSUME Reader, NEW qos \in 0 .. 2, Publication(qos)
    PROVE  /\ pending # <<>> /\ Arrived = pending[1] /\ Arrived \in Packets
           /\ Arrived.type = "PUBLISH" /\ Arrived.qos = qos
           /\ Arrived.msg \in Messages /\ Arrived.msg # 0
           /\ qos # 0 => Arrived.mid \in Mids
           /\ qos = 0 => Arrived.mid = 0
           /\ Handled
<1>1. Whole("PUBLISH") /\ Arrived.qos = qos /\ Handled
      /\ Len(in_packet.body) >= Needed(Arrived)
  BY DEF Publication
<1>2. /\ pending # <<>> /\ Arrived = pending[1] /\ Arrived \in Packets
      /\ Arrived.type = "PUBLISH"
      /\ Len(in_packet.body) = Arrived.len /\ Arrived.len < Weight[MaxDigits]
  BY <1>1, WholeArrived
<1>3. Arrived.msg # 0
  <2>1. Arrived.msg = 0 => \/ Arrived.qos = 3 \/ (Arrived.qos = 1 /\ Arrived.len = 1)
                           \/ (Arrived.qos = 0 /\ Arrived.len = Weight[MaxDigits])
    BY <1>2, PacketFields
  <2>2. Arrived.qos = 1 => Needed(Arrived) = 2
    BY <1>2 DEF Needed
  <2>3. Weight[MaxDigits] \in Nat /\ Arrived.len \in Nat
    BY <1>2, WeightValue, PacketFields, ConstantTypes
  <2>. HIDE DEF Arrived
  <2>. QED  BY <1>1, <1>2, <2>1, <2>2, <2>3
<1>4. /\ Arrived.msg \in Messages
      /\ Arrived.qos # 0 => Arrived.mid \in Mids
      /\ Arrived.qos = 0 => Arrived.mid = 0
  BY <1>2, <1>3, PacketFields
<1>. QED  BY <1>1, <1>2, <1>3, <1>4

LEMMA PubrelArrived ==
    ASSUME Reader, Whole("PUBREL")
    PROVE  /\ pending # <<>> /\ Arrived = pending[1] /\ Arrived \in Packets
           /\ Arrived.type = "PUBREL" /\ Arrived.mid \in Mids /\ Arrived.msg = 0
<1>1. pending # <<>> /\ Arrived = pending[1] /\ Arrived \in Packets /\ Arrived.type = "PUBREL"
  BY WholeArrived
<1>. QED  BY <1>1, PacketFields

\* A packet that is malformed, or of another type, carries no message.
LEMMA NothingArrived ==
    ASSUME Reader, HandleMalformed \/ HandlePingresp
    PROVE  /\ pending # <<>> /\ Arrived = pending[1] /\ Arrived \in Packets
           /\ Arrived.msg = 0 /\ Arrived.type # "PUBREL"
           /\ \E type : Whole(type)
           /\ Handled
<1>1. CASE Whole("PINGRESP") \/ Whole("UNKNOWN")
  <2>1. /\ pending # <<>> /\ Arrived = pending[1] /\ Arrived \in Packets
        /\ Arrived.type \in {"PINGRESP", "UNKNOWN"}
    BY <1>1, WholeArrived
  <2>2. Arrived.msg = 0
    BY <2>1, PacketFields
  <2>. QED  BY <1>1, <2>1, <2>2 DEF HandleMalformed, HandlePingresp
<1>2. CASE /\ Whole("PUBLISH")
           /\ Arrived.qos = 3 \/ Len(in_packet.body) < Needed(Arrived)
  <2>1. /\ pending # <<>> /\ Arrived = pending[1] /\ Arrived \in Packets
        /\ Arrived.type = "PUBLISH" /\ Len(in_packet.body) = Arrived.len
    BY <1>2, WholeArrived
  <2>2. Arrived.msg # 0 => /\ Arrived.qos \in 0 .. 2
                           /\ Arrived.len = IF Arrived.qos = 0 THEN 1 ELSE Arrived.qos + 1
    <3>1. \A m \in Messages : LET q == Publish(m, 0, 0, 1) IN q.len = 1 /\ q.qos = 0
      BY DEF Publish
    <3>2. \A m \in Messages, qos \in 1 .. 2, mid \in Mids :
             LET q == Publish(m, qos, mid, qos + 1) IN q.len = qos + 1 /\ q.qos = qos
      BY DEF Publish
    <3>3. \A mid \in Mids : Pubrel(mid).msg = 0
      BY DEF Pubrel
    <3>4. \A q \in Malformed \cup {Pingresp} : q.msg = 0
      BY DEF Malformed, Pingresp, Publish
    <3>. HIDE DEF Arrived
    <3>. QED  BY <2>1, <3>1, <3>2, <3>3, <3>4 DEF Packets
  <2>3. Needed(Arrived) = 1 + (IF Arrived.qos > 0 THEN 1 ELSE 0)
    BY <2>1 DEF Needed
  <2>4. Arrived.msg = 0
    <3>. HIDE DEF Arrived
    <3>. QED  BY <1>2, <2>1, <2>2, <2>3
  <2>. QED  BY <1>2, <2>1, <2>4 DEF HandleMalformed, HandlePingresp
<1>. QED  BY <1>1, <1>2 DEF HandleMalformed, HandlePingresp

LEMMA RemoveAtProperties ==
    ASSUME NEW S, NEW q \in Seq(S), NEW i \in 1 .. Len(q)
    PROVE  /\ RemoveAt(q, i) \in Seq(S)
           /\ Len(RemoveAt(q, i)) = Len(q) - 1
           /\ \A j \in 1 .. Len(q) - 1 :
                RemoveAt(q, i)[j] = IF j < i THEN q[j] ELSE q[j + 1]
<1>. DEFINE l == SubSeq(q, 1, i-1)
            r == SubSeq(q, i+1, Len(q))
<1>1. /\ l \in Seq(S)
      /\ Len(l) = i - 1
      /\ \A j \in 1 .. i-1 : l[j] = q[j]
  BY SubSeqProperties, ElementOfSeq
<1>2. /\ r \in Seq(S)
      /\ Len(r) = Len(q) - i
      /\ \A j \in 1 .. Len(q) - i : r[j] = q[i + j]
  BY SubSeqProperties, ElementOfSeq
<1>3. RemoveAt(q, i) = l \o r
  BY DEF RemoveAt
<1>. HIDE DEF l, r
<1>4. /\ l \o r \in Seq(S)
      /\ Len(l \o r) = Len(l) + Len(r)
      /\ \A j \in 1 .. Len(l) + Len(r) :
            (l \o r)[j] = IF j <= Len(l) THEN l[j] ELSE r[j - Len(l)]
  BY ONLY <1>1, <1>2, ConcatProperties, Zenon
<1>5. /\ Len(l \o r) = Len(q) - 1
      /\ \A j \in 1 .. Len(q) - 1 : (l \o r)[j] = IF j < i THEN q[j] ELSE q[j + 1]
  BY SMTT(30), <1>1, <1>2, <1>4
<1>. QED
  BY <1>3, <1>4, <1>5

\* The message that a PUBREL is for.
LEMMA OldestWaits ==
    ASSUME Typed, NEW mid, Waiting(mid) # {}
    PROVE  /\ Oldest(mid) \in Waiting(mid) /\ Oldest(mid) \in 1 .. Len(in_messages)
           /\ in_messages[Oldest(mid)].mid = mid
           /\ in_messages[Oldest(mid)].msg \in Messages
<1>1. Waiting(mid) \in SUBSET Nat
  BY DEF Waiting, Typed
<1>2. \E i \in Waiting(mid) : \A j \in Waiting(mid) : i <= j
  BY ONLY <1>1, Waiting(mid) # {}, Least
<1>3. Oldest(mid) \in Waiting(mid)
  BY <1>2 DEF Oldest
<1>. DEFINE o == Oldest(mid)
<1>4. o \in DOMAIN in_messages /\ in_messages[o].mid = mid
  <2>. HIDE DEF o
  <2>1. o \in Waiting(mid)
    BY <1>3 DEF o
  <2>. QED  BY <2>1 DEF Waiting
<1>5. o \in 1 .. Len(in_messages) /\ in_messages[o] \in Entries
  <2>. HIDE DEF o
  <2>. QED  BY <1>4 DEF Typed
<1>. QED  BY <1>3, <1>4, <1>5 DEF Entries

LEMMA OpenFinite == IsFiniteSet(Open) /\ Cardinality(Open) \in Nat /\ Open \subseteq Mids
<1>1. Open \subseteq Mids
  BY DEF Open
<1>2. IsFiniteSet(Open)
  BY <1>1, IncomingBounds, FS_Subset
<1>. QED  BY <1>1, <1>2, FS_CardinalityType

LEMMA RepeatedType ==
    ASSUME Typed, NEW mid \in Open
    PROVE  /\ Repeated(mid) \in Packets
           /\ outgoing[mid] \in Flows
<1>1. mid \in Mids /\ outgoing[mid] # Free /\ outgoing[mid] \in Flows
  BY DEF Open, Typed
<1>2. /\ outgoing[mid].msg \in Messages /\ outgoing[mid].qos \in 1 .. 2
  BY <1>1 DEF Flows
<1>. QED  BY <1>1, <1>2, SomePackets DEF Repeated

LEMMA DeliveredType ==
    ASSUME Typed, NEW m \in Messages, OnMessage(m)
    PROVE  /\ delivered' \in [Messages -> Nat] /\ delivered'[m] = delivered[m] + 1
           /\ \A k \in Messages : k # m => delivered'[k] = delivered[k]
BY DEF Typed, OnMessage

\* An answer is one more, or none.
LEMMA AnswerType ==
    ASSUME Typed, NEW type \in {"PUBACK", "PUBREC", "PUBCOMP"}, NEW mid \in Mids,
           Answer(type, mid)
    PROVE  /\ conn' \in {"up", "lost", "stopped"} /\ back' \in Seq(Answers)
           /\ \/ back' = Append(back, [type |-> type, mid |-> mid]) \/ back' = back
<1>1. [type |-> type, mid |-> mid] \in Answers
  BY DEF Answers
<1>. DEFINE a == [type |-> type, mid |-> mid]
<1>2. (back' = Append(back, a) /\ conn' = conn) \/ (conn' = "lost" /\ back' = back)
  BY DEF Answer
<1>. HIDE DEF a
<1>3. a \in Answers
  BY <1>1 DEF a
<1>4. back' \in Seq(Answers)
  <2>1. back \in Seq(Answers) /\ Append(back, a) \in Seq(Answers)
    BY <1>3 DEF Typed
  <2>. QED  BY <1>2, <2>1
<1>5. conn' \in {"up", "lost", "stopped"}
  BY <1>2 DEF Typed
<1>. QED  BY <1>2, <1>4, <1>5 DEF a

LEMMA ReadTyped ==
    ASSUME Reader, Read \/ Lose
    PROVE  Typed'
<1>1. /\ UNCHANGED <<pending, in_messages, delivered, back, brokerVars, countVars>>
      /\ conn' \in {"up", "lost", "stopped"}
  BY DEF Reader, Typed, Read, ReadCommand, ReadLength, ReadLengthFails,
     ReadBody, Lose, clientVars
<1>2. stream \in Seq(Byte)
  BY DEF Reader, Typed
<1>3. stream' \in Seq(Byte)
  <2>1. CASE ReadCommand \/ ReadLength
    <3>1. stream # <<>> /\ stream' = Tail(stream)
      BY <2>1 DEF ReadCommand, ReadLength, ReadingLength, TakeDigit
    <3>. QED  BY <1>2, <3>1
  <2>2. CASE ReadLengthFails \/ Lose
    BY <1>2, <2>2 DEF ReadLengthFails, Lose
  <2>3. CASE ReadBody
    <3>1. PICK n \in 1 .. in_packet.to_process :
             n <= Len(stream) /\ stream' = SubSeq(stream, n + 1, Len(stream))
      BY <2>3 DEF ReadBody
    <3>2. in_packet.to_process \in Nat
      BY DEF Reader, ReaderTyped
    <3>3. n \in Nat /\ Len(stream) \in Nat /\ \A i \in 1 .. Len(stream) : stream[i] \in Byte
      BY <1>2, <3>2
    <3>4. \A i \in n + 1 .. Len(stream) : stream[i] \in Byte
      BY <3>3
    <3>. QED  BY <1>2, <3>1, <3>3, <3>4, SubSeqProperties
  <2>. QED  BY <2>1, <2>2, <2>3 DEF Read
<1>. QED  BY <1>1, <1>3 DEF Reader, Typed, brokerVars, countVars

LEMMA TailPending ==
    ASSUME Reader, NEW type, Whole(type), Handled
    PROVE  pending' \in Seq(Packets) /\ pending' = Tail(pending)
BY WholeArrived DEF Handled

LEMMA HandleTyped ==
    ASSUME Reader, Handle
    PROVE  Typed'
<1>. USE DEF brokerVars, countVars
<1>0. Typed
  BY DEF Reader
<1>1. ASSUME HandlePingresp \/ HandleMalformed  PROVE Typed'
  <2>1. pending' \in Seq(Packets)
    BY <1>1, NothingArrived, TailPending
  <2>2. /\ UNCHANGED <<stream, in_messages, delivered, back, brokerVars, countVars>>
        /\ conn' \in {"up", "lost", "stopped"}
    BY <1>0, <1>1 DEF HandlePingresp, HandleMalformed, Typed
  <2>. QED  BY <1>0, <2>1, <2>2 DEF Typed
<1>2. ASSUME HandlePublish0  PROVE Typed'
  <2>1. Publication(0) /\ OnMessage(Arrived.msg)
        /\ UNCHANGED <<conn, stream, in_messages, back, brokerVars, countVars>>
    BY <1>2 DEF HandlePublish0
  <2>2. pending' \in Seq(Packets)
    BY <2>1, TailPending DEF Publication
  <2>3. delivered' \in [Messages -> Nat]
    BY <1>0, <2>1, PublicationArrived, DeliveredType
  <2>. QED  BY <1>0, <2>1, <2>2, <2>3 DEF Typed
<1>3. ASSUME HandlePublish1  PROVE Typed'
  <2>1. Publication(1) /\ OnMessage(Arrived.msg) /\ Answer("PUBACK", Arrived.mid)
        /\ UNCHANGED <<stream, in_messages, brokerVars, countVars>>
    BY <1>3 DEF HandlePublish1
  <2>2. pending' \in Seq(Packets)
    BY <2>1, TailPending DEF Publication
  <2>3. delivered' \in [Messages -> Nat] /\ Arrived.mid \in Mids
    BY <1>0, <2>1, PublicationArrived, DeliveredType
  <2>4. conn' \in {"up", "lost", "stopped"} /\ back' \in Seq(Answers)
    BY <1>0, <2>1, <2>3, AnswerType
  <2>. QED  BY <1>0, <2>1, <2>2, <2>3, <2>4 DEF Typed
<1>4. ASSUME HandlePublish2  PROVE Typed'
  <2>1. /\ Publication(2) /\ Answer("PUBREC", Arrived.mid)
        /\ in_messages' = Append(in_messages, [mid |-> Arrived.mid, msg |-> Arrived.msg])
        /\ doubled' \subseteq doubled \cup {Arrived.mid}
        /\ UNCHANGED <<stream, delivered, brokerVars, reconnects, retries>>
    BY <1>4 DEF HandlePublish2
  <2>2. pending' \in Seq(Packets)
    BY <2>1, TailPending DEF Publication
  <2>3. Arrived.mid \in Mids /\ Arrived.msg \in Messages
    BY <2>1, PublicationArrived
  <2>4. in_messages' \in Seq(Entries)
    BY <1>0, <2>1, <2>3 DEF Typed, Entries
  <2>5. conn' \in {"up", "lost", "stopped"} /\ back' \in Seq(Answers)
    BY <1>0, <2>1, <2>3, AnswerType
  <2>. QED  BY <1>0, <2>1, <2>2, <2>3, <2>4, <2>5 DEF Typed
<1>5. ASSUME HandlePubrel  PROVE Typed'
  <2>1. /\ Whole("PUBREL") /\ Handled /\ Waiting(Arrived.mid) # {}
        /\ OnMessage(in_messages[Oldest(Arrived.mid)].msg)
        /\ in_messages' = RemoveAt(in_messages, Oldest(Arrived.mid))
        /\ Answer("PUBCOMP", Arrived.mid)
        /\ UNCHANGED <<stream, brokerVars, countVars>>
    BY <1>5 DEF HandlePubrel
  <2>2. pending' \in Seq(Packets)
    BY <2>1, TailPending
  <2>3. delivered' \in [Messages -> Nat]
    BY <1>0, <2>1, OldestWaits, DeliveredType
  <2>4. Arrived.mid \in Mids
    BY <2>1, PubrelArrived
  <2>5. in_messages' \in Seq(Entries)
    BY <1>0, <2>1, OldestWaits, RemoveAtProperties DEF Typed
  <2>6. conn' \in {"up", "lost", "stopped"} /\ back' \in Seq(Answers)
    BY <1>0, <2>1, <2>4, AnswerType
  <2>. QED  BY <1>0, <2>1, <2>2, <2>3, <2>5, <2>6 DEF Typed
<1>6. ASSUME HandlePubrelAgain  PROVE Typed'
  <2>1. /\ Whole("PUBREL") /\ Handled /\ Answer("PUBCOMP", Arrived.mid)
        /\ UNCHANGED <<stream, in_messages, delivered, brokerVars, countVars>>
    BY <1>6 DEF HandlePubrelAgain
  <2>2. pending' \in Seq(Packets)
    BY <2>1, TailPending
  <2>3. Arrived.mid \in Mids
    BY <2>1, PubrelArrived
  <2>4. conn' \in {"up", "lost", "stopped"} /\ back' \in Seq(Answers)
    BY <1>0, <2>1, <2>3, AnswerType
  <2>. QED  BY <1>0, <2>1, <2>2, <2>4 DEF Typed
<1>. QED  BY <1>1, <1>2, <1>3, <1>4, <1>5, <1>6 DEF Handle

LEMMA SendType ==
    ASSUME Typed, NEW p \in Packets, Send(p)
    PROVE  pending' \in Seq(Packets) /\ stream' \in Seq(Byte)
<1>1. Encode(p) \in Seq(Byte)
  BY EncodeType
<1>. DEFINE e == Encode(p)
<1>. HIDE DEF e
<1>2. stream \in Seq(Byte) /\ e \in Seq(Byte) /\ stream' = stream \o e
  BY <1>1 DEF Send, Typed, e
<1>3. pending' \in Seq(Packets)
  BY DEF Send, Typed
<1>. QED  BY <1>2, <1>3, Concat

LEMMA FirstAnswer ==
    ASSUME Typed, back # <<>>
    PROVE  /\ Head(back) \in Answers /\ Tail(back) \in Seq(Answers)
           /\ Head(back).mid \in Mids /\ Head(back) = back[1] /\ 1 \in DOMAIN back
           /\ \A i \in DOMAIN Tail(back) : i + 1 \in DOMAIN back /\ Tail(back)[i] = back[i + 1]
<1>1. back \in Seq(Answers)
  BY DEF Typed
<1>2. Head(back) \in Answers /\ Tail(back) \in Seq(Answers) /\ Head(back) = back[1]
      /\ 1 \in DOMAIN back
  BY <1>1
<1>3. \A i \in DOMAIN Tail(back) : i + 1 \in DOMAIN back /\ Tail(back)[i] = back[i + 1]
  BY <1>1
<1>. QED  BY <1>2, <1>3 DEF Answers

\* What the broker sends a client that comes back.
LEMMA Comeback ==
    ASSUME Typed, Reconnect
    PROVE  /\ conn' = "up" /\ back' = <<>> /\ in_packet' = NoPacket
           /\ stream' = Bytes(pending')
           /\ pending' \in Seq(Packets) /\ stream' \in Seq(Byte)
           /\ clean => /\ outgoing' = [mid \in Mids |-> Free] /\ pending' = <<>>
                       /\ doubled' = doubled \cup {in_messages[i].mid : i \in DOMAIN in_messages}
           /\ ~ clean => /\ \E order \in Bijection(1 .. Cardinality(Open), Open) :
                               pending' = [i \in DOMAIN order |-> Repeated(order[i])]
                         /\ outgoing' = outgoing /\ doubled' = doubled
           /\ UNCHANGED <<in_messages, delivered, made, done>>
<1>1. /\ conn' = "up" /\ back' = <<>> /\ in_packet' = NoPacket
      /\ stream' = Bytes(pending')
      /\ UNCHANGED <<in_messages, delivered, made, done>>
      /\ clean => /\ outgoing' = [mid \in Mids |-> Free] /\ pending' = <<>>
                  /\ doubled' = doubled \cup {in_messages[i].mid : i \in DOMAIN in_messages}
      /\ ~ clean => /\ \E order \in Bijection(1 .. Cardinality(Open), Open) :
                          pending' = [i \in DOMAIN order |-> Repeated(order[i])]
                    /\ outgoing' = outgoing /\ doubled' = doubled
  BY DEF Reconnect
<1>2. pending' \in Seq(Packets)
  <2>1. CASE clean
    BY <1>1, <2>1
  <2>2. CASE ~ clean
    <3>1. PICK order \in Bijection(1 .. Cardinality(Open), Open) :
             pending' = [i \in DOMAIN order |-> Repeated(order[i])]
      BY <1>1, <2>2
    <3>2. DOMAIN order = 1 .. Cardinality(Open) /\ \A i \in DOMAIN order : order[i] \in Open
      BY DEF Bijection, Injection
    <3>3. \A i \in DOMAIN order : Repeated(order[i]) \in Packets
      BY <3>2, RepeatedType
    <3>4. Cardinality(Open) \in Nat
      BY OpenFinite
    <3>. QED  BY <3>1, <3>2, <3>3, <3>4
  <2>. QED  BY <2>1, <2>2
<1>3. stream' \in Seq(Byte)
  BY <1>1, <1>2, EncodedType
<1>. QED  BY <1>1, <1>2, <1>3

LEMMA BrokerTyped ==
    ASSUME Reader, RetryPubrec \/ Reconnect \/ BrokerPublishes \/ BrokerSendsOther \/ BrokerGets
    PROVE  Typed'
<1>. USE DEF clientVars, brokerVars, countVars
<1>0. Typed
  BY DEF Reader
<1>1. ASSUME RetryPubrec  PROVE Typed'
  <2>1. PICK i \in DOMAIN in_messages :
             back' = Append(back, [type |-> "PUBREC", mid |-> in_messages[i].mid])
    BY <1>1 DEF RetryPubrec
  <2>2. in_messages[i] \in Entries
    BY <1>0 DEF Typed
  <2>3. [type |-> "PUBREC", mid |-> in_messages[i].mid] \in Answers
    BY <2>2 DEF Entries, Answers
  <2>4. back' \in Seq(Answers)
    BY <1>0, <2>1, <2>3 DEF Typed
  <2>5. retries' \in 0 .. MaxRetries
    BY <1>0, <1>1, ConstantTypes DEF RetryPubrec, Typed
  <2>6. UNCHANGED <<conn, stream, pending, in_messages, delivered, outgoing, made, done,
                    doubled, reconnects>>
    BY <1>1 DEF RetryPubrec
  <2>. QED  BY <1>0, <2>4, <2>5, <2>6 DEF Typed
<1>2. ASSUME Reconnect  PROVE Typed'
  <2>1. /\ pending' \in Seq(Packets) /\ stream' \in Seq(Byte) /\ conn' = "up" /\ back' = <<>>
        /\ UNCHANGED <<in_messages, delivered, made, done>>
    BY <1>0, <1>2, Comeback
  <2>2. reconnects' \in 0 .. MaxReconnects /\ retries' = retries
    BY <1>0, <1>2, ConstantTypes DEF Reconnect, Typed
  <2>3. /\ outgoing' \in [Mids -> Flows \cup {Free}] /\ doubled' \subseteq Mids
        /\ \A mid \in Mids : outgoing'[mid].stage = "release" => outgoing'[mid].qos = 2
    <3>1. CASE clean
      <4>1. /\ outgoing' = [mid \in Mids |-> Free]
            /\ doubled' = doubled \cup {in_messages[i].mid : i \in DOMAIN in_messages}
        BY <1>0, <1>2, <3>1, Comeback
      <4>2. \A i \in DOMAIN in_messages : in_messages[i].mid \in Mids
        <5>1. \A i \in DOMAIN in_messages : in_messages[i] \in Entries
          BY <1>0 DEF Typed
        <5>. QED  BY <5>1 DEF Entries
      <4>. QED  BY <1>0, <4>1, <4>2 DEF Typed, Free
    <3>2. CASE ~ clean
      <4>1. outgoing' = outgoing /\ doubled' = doubled
        BY <1>0, <1>2, <3>2, Comeback
      <4>. QED  BY <1>0, <4>1 DEF Typed
    <3>. QED  BY <3>1, <3>2
  <2>. QED  BY <1>0, <2>1, <2>2, <2>3 DEF Typed
<1>3. ASSUME BrokerPublishes  PROVE Typed'
  <2>1. /\ made < MaxMessages /\ made' = made + 1
        /\ UNCHANGED <<conn, in_messages, delivered, back, done, doubled, reconnects, retries>>
    BY <1>3 DEF BrokerPublishes
  <2>2. made + 1 \in Messages /\ made' \in 0 .. MaxMessages
    BY <1>0, <2>1, ConstantTypes DEF Typed, Messages
  <2>3. CASE Send(Publish(made + 1, 0, 0, 1)) /\ UNCHANGED outgoing
    <3>1. Publish(made + 1, 0, 0, 1) \in Packets
      BY <2>2, SomePackets
    <3>2. pending' \in Seq(Packets) /\ stream' \in Seq(Byte)
      BY <1>0, <2>3, <3>1, SendType
    <3>. QED  BY <1>0, <2>1, <2>2, <2>3, <3>2 DEF Typed
  <2>4. CASE \E qos \in 1 .. 2, mid \in Mids :
                /\ outgoing' = [outgoing EXCEPT ![mid] =
                                  [msg |-> made + 1, qos |-> qos, stage |-> "publish"]]
                /\ Send(Publish(made + 1, qos, mid, qos + 1))
    <3>1. PICK qos \in 1 .. 2, mid \in Mids :
                /\ outgoing' = [outgoing EXCEPT ![mid] =
                                  [msg |-> made + 1, qos |-> qos, stage |-> "publish"]]
                /\ Send(Publish(made + 1, qos, mid, qos + 1))
      BY <2>4
    <3>2. Publish(made + 1, qos, mid, qos + 1) \in Packets
      BY <2>2, SomePackets
    <3>3. pending' \in Seq(Packets) /\ stream' \in Seq(Byte)
      BY <1>0, <3>1, <3>2, SendType
    <3>4. [msg |-> made + 1, qos |-> qos, stage |-> "publish"] \in Flows
      BY <2>2 DEF Flows
    <3>5. /\ outgoing' \in [Mids -> Flows \cup {Free}]
          /\ \A id \in Mids : outgoing'[id].stage = "release" => outgoing'[id].qos = 2
      BY <1>0, <3>1, <3>4 DEF Typed
    <3>. QED  BY <1>0, <2>1, <2>2, <3>3, <3>5 DEF Typed
  <2>. QED  BY <1>3, <2>3, <2>4 DEF BrokerPublishes
<1>4. ASSUME BrokerSendsOther  PROVE Typed'
  <2>1. PICK p \in Malformed \cup {Pingresp} : Send(p)
    BY <1>4 DEF BrokerSendsOther
  <2>2. pending' \in Seq(Packets) /\ stream' \in Seq(Byte)
    BY <1>0, <2>1, SomePackets, SendType
  <2>3. UNCHANGED <<conn, in_messages, delivered, back, outgoing, made, done,
                    doubled, reconnects, retries>>
    BY <1>4 DEF BrokerSendsOther
  <2>. QED  BY <1>0, <2>2, <2>3 DEF Typed
<1>5. ASSUME BrokerGets  PROVE Typed'
  <2>. DEFINE a == Head(back)
              o == outgoing[a.mid]
  <2>1. /\ back # <<>> /\ back' = Tail(back)
        /\ UNCHANGED <<conn, in_messages, delivered, made, doubled, reconnects, retries>>
    BY <1>5 DEF BrokerGets
  <2>2. a \in Answers /\ back' \in Seq(Answers) /\ a.mid \in Mids
    BY <1>0, <2>1, FirstAnswer
  <2>3. o \in Flows \cup {Free}
    BY <1>0, <2>2 DEF Typed
  <2>4. CASE Finish(a.mid) /\ UNCHANGED <<pending, stream>> /\ o.qos # 0
    <3>1. o \in Flows
      BY <2>3, <2>4 DEF Free
    <3>2. /\ outgoing' \in [Mids -> Flows \cup {Free}]
          /\ \A id \in Mids : outgoing'[id].stage = "release" => outgoing'[id].qos = 2
      BY <1>0, <2>2, <2>4 DEF Typed, Finish, Free
    <3>3. done' \subseteq [msg : Messages, qos : 1 .. 2, mid : Mids]
      BY <1>0, <2>2, <2>4, <3>1 DEF Typed, Finish, Flows
    <3>. QED  BY <1>0, <2>1, <2>2, <2>4, <3>2, <3>3 DEF Typed
  <2>5. CASE /\ o.qos = 2 /\ outgoing' = [outgoing EXCEPT ![a.mid].stage = "release"]
             /\ Send(Pubrel(a.mid)) /\ UNCHANGED done
    <3>1. o \in Flows
      BY <2>3, <2>5 DEF Free
    <3>2. /\ outgoing' \in [Mids -> Flows \cup {Free}]
          /\ \A id \in Mids : outgoing'[id].stage = "release" => outgoing'[id].qos = 2
      BY <1>0, <2>2, <2>5, <3>1 DEF Typed, Flows
    <3>3. pending' \in Seq(Packets) /\ stream' \in Seq(Byte)
      BY <1>0, <2>2, <2>5, SomePackets, SendType
    <3>. QED  BY <1>0, <2>1, <2>2, <2>5, <3>2, <3>3 DEF Typed
  <2>6. CASE UNCHANGED <<outgoing, done, pending, stream>>
    BY <1>0, <2>1, <2>2, <2>6 DEF Typed
  <2>7. o.stage = "release" => o.qos # 0
    BY <1>0, <2>2 DEF Typed
  <2>. QED  BY <1>5, <2>4, <2>5, <2>6, <2>7 DEF BrokerGets
<1>. QED  BY <1>1, <1>2, <1>3, <1>4, <1>5

LEMMA ReaderStep ==
    ASSUME Reader, Next
    PROVE  Reader'
<1>1. CASE Read \/ Lose
  <2>1. Typed'
    BY <1>1, ReadTyped
  <2>2. ReaderTyped' /\ Reading' /\ Framing'
    <3>1. CASE Lose
      BY <2>1, <3>1, ReaderIdle DEF Lose, clientVars
    <3>2. CASE Read
      BY <2>1, <3>2, ReadCommandReader, ReadLengthReader,
         ReadLengthFailsReader, ReadBodyReader DEF Read
    <3>. QED  BY <1>1, <3>1, <3>2
  <2>. QED  BY <2>1, <2>2 DEF Reader
<1>2. CASE Handle
  <2>1. Typed'
    BY <1>2, HandleTyped
  <2>2. (\E type : Whole(type)) /\ Handled /\ UNCHANGED stream
    <3>1. CASE HandlePingresp \/ HandleMalformed
      BY <3>1, NothingArrived DEF HandlePingresp, HandleMalformed
    <3>2. CASE HandlePublish0 \/ HandlePublish1 \/ HandlePublish2
      BY <3>2 DEF HandlePublish0, HandlePublish1, HandlePublish2, Publication
    <3>3. CASE HandlePubrel \/ HandlePubrelAgain
      BY <3>3 DEF HandlePubrel, HandlePubrelAgain
    <3>. QED  BY <1>2, <3>1, <3>2, <3>3 DEF Handle
  <2>. QED  BY <2>1, <2>2, HandledReader DEF Reader
<1>3. CASE RetryPubrec \/ Reconnect \/ BrokerPublishes \/ BrokerSendsOther \/ BrokerGets
  <2>1. Typed' /\ Typed
    BY <1>3, BrokerTyped DEF Reader
  <2>. USE DEF clientVars
  <2>2. CASE RetryPubrec
    BY <2>1, <2>2, ReaderIdle DEF RetryPubrec, Reader
  <2>3. CASE Reconnect
    BY <2>1, <2>3, Comeback, NoPacketReader DEF Reader
  <2>4. CASE BrokerPublishes
    <3>1. made + 1 \in Messages
      BY <2>1, <2>4, ConstantTypes DEF BrokerPublishes, Typed, Messages
    <3>2. PICK p \in Packets : Send(p)
      BY <2>4, <3>1, SomePackets DEF BrokerPublishes
    <3>. QED  BY <2>1, <2>4, <3>2, SendReader DEF BrokerPublishes, Reader
  <2>5. CASE BrokerSendsOther
    <3>1. PICK p \in Packets : Send(p)
      BY <2>5, SomePackets DEF BrokerSendsOther
    <3>. QED  BY <2>1, <2>5, <3>1, SendReader DEF BrokerSendsOther, Reader
  <2>6. CASE BrokerGets
    <3>1. conn = "up" /\ UNCHANGED <<conn, in_packet>>
      BY <2>6 DEF BrokerGets
    <3>2. CASE UNCHANGED <<pending, stream>>
      BY <2>1, <3>1, <3>2, ReaderIdle DEF Reader
    <3>3. CASE Send(Pubrel(Head(back).mid))
      <4>1. Head(back).mid \in Mids
        BY <2>1, <2>6, FirstAnswer DEF BrokerGets
      <4>2. Pubrel(Head(back).mid) \in Packets
        BY <4>1, SomePackets
      <4>. QED  BY <2>1, <3>1, <3>3, <4>2, SendReader DEF Reader
    <3>. QED  BY <2>6, <3>2, <3>3 DEF BrokerGets
  <2>. QED  BY <1>3, <2>2, <2>3, <2>4, <2>5, <2>6
<1>. QED  BY <1>1, <1>2, <1>3 DEF Next

-----------------------------------------------------------------------------
(* No message has two ids.                                                 *)

LEMMA AppendAt ==
    ASSUME NEW S, NEW s \in Seq(S), NEW e \in S
    PROVE  /\ Len(s) \in Nat /\ Len(s) + 1 \in DOMAIN Append(s, e)
           /\ Append(s, e)[Len(s) + 1] = e
           /\ \A i \in DOMAIN s : i \in Nat /\ i <= Len(s)
           /\ \A i \in DOMAIN s : i \in DOMAIN Append(s, e) /\ Append(s, e)[i] = s[i]
           /\ \A i \in DOMAIN Append(s, e) : i \in DOMAIN s \/ i = Len(s) + 1
OBVIOUS

LEMMA FirstPacket ==
    ASSUME Typed, pending # <<>>
    PROVE  /\ 1 \in DOMAIN pending /\ pending[1] \in Packets /\ Head(pending) = pending[1]
           /\ \A i \in DOMAIN pending : i \in Nat /\ i >= 1
           /\ \A i \in DOMAIN pending : i # 1 => i - 1 \in DOMAIN Tail(pending)
           /\ \A i \in DOMAIN Tail(pending) : /\ i \in Nat /\ i + 1 \in DOMAIN pending
                                              /\ Tail(pending)[i] = pending[i + 1]
<1>1. pending \in Seq(Packets)
  BY DEF Typed
<1>. QED  BY <1>1

LEMMA KnownMembers ==
    /\ \A mid \in Mids :
          outgoing[mid] # Free => <<mid, outgoing[mid].qos, outgoing[mid].msg>> \in Known
    /\ \A i \in DOMAIN pending :
          pending[i].msg # 0 => <<pending[i].mid, pending[i].qos, pending[i].msg>> \in Known
    /\ \A i \in DOMAIN in_messages : <<in_messages[i].mid, 2, in_messages[i].msg>> \in Known
    /\ \A d \in done : <<d.mid, d.qos, d.msg>> \in Known
BY DEF Known, Open

\* Nothing becomes known that was not.
LEMMA KnownKept ==
    ASSUME NEW K,
           \A i \in DOMAIN pending' : pending'[i].msg # 0 =>
               <<pending'[i].mid, pending'[i].qos, pending'[i].msg>> \in K,
           \A i \in DOMAIN in_messages' : <<in_messages'[i].mid, 2, in_messages'[i].msg>> \in K,
           \A mid \in Mids : outgoing'[mid] # Free =>
               <<mid, outgoing'[mid].qos, outgoing'[mid].msg>> \in K,
           \A d \in done' : <<d.mid, d.qos, d.msg>> \in K
    PROVE  Known' \subseteq K
BY DEF Known, Open

\* The head of the pending packets goes.
LEMMA KnownPending ==
    ASSUME Typed, \/ UNCHANGED pending
                  \/ pending # <<>> /\ pending' = Tail(pending)
                  \/ \E p \in Packets : p.msg = 0 /\ pending' = Append(pending, p)
    PROVE  \A i \in DOMAIN pending' : pending'[i].msg # 0 =>
               <<pending'[i].mid, pending'[i].qos, pending'[i].msg>> \in Known
<1>1. CASE UNCHANGED pending
  BY <1>1, KnownMembers
<1>2. CASE pending # <<>> /\ pending' = Tail(pending)
  BY <1>2, FirstPacket, KnownMembers
<1>3. CASE \E p \in Packets : p.msg = 0 /\ pending' = Append(pending, p)
  <2>1. PICK p \in Packets : p.msg = 0 /\ pending' = Append(pending, p)
    BY <1>3
  <2>2. pending \in Seq(Packets)
    BY DEF Typed
  <2>3. /\ \A i \in DOMAIN pending' : i \in DOMAIN pending \/ i = Len(pending) + 1
        /\ \A i \in DOMAIN pending : pending'[i] = pending[i]
        /\ pending'[Len(pending) + 1] = p
    BY <2>1, <2>2, AppendAt
  <2>4. ASSUME NEW i \in DOMAIN pending', pending'[i].msg # 0
        PROVE  <<pending'[i].mid, pending'[i].qos, pending'[i].msg>> \in Known
    <3>1. i \in DOMAIN pending /\ pending'[i] = pending[i]
      BY <2>1, <2>3, <2>4
    <3>. QED  BY <2>4, <3>1, KnownMembers
  <2>. QED  BY <2>4
<1>. QED  BY <1>1, <1>2, <1>3

\* The packet handled is the first of those pending, and then it is no more.
LEMMA HandleTakes ==
    ASSUME Reader, Handle
    PROVE  /\ pending # <<>> /\ Arrived = pending[1] /\ Arrived \in Packets
           /\ pending' = Tail(pending)
           /\ UNCHANGED <<outgoing, done, made>>
<1>. USE DEF brokerVars
<1>1. ASSUME HandlePingresp \/ HandleMalformed
      PROVE  /\ pending # <<>> /\ Arrived = pending[1] /\ Arrived \in Packets
             /\ pending' = Tail(pending) /\ UNCHANGED <<outgoing, done, made>>
  BY <1>1, NothingArrived, TailPending DEF HandlePingresp, HandleMalformed
<1>2. ASSUME NEW qos \in 0 .. 2, Publication(qos)
      PROVE  /\ pending # <<>> /\ Arrived = pending[1] /\ Arrived \in Packets
             /\ pending' = Tail(pending)
  BY <1>2, PublicationArrived DEF Handled
<1>3. ASSUME Whole("PUBREL"), Handled
      PROVE  /\ pending # <<>> /\ Arrived = pending[1] /\ Arrived \in Packets
             /\ pending' = Tail(pending)
  BY <1>3, PubrelArrived DEF Handled
<1>4. CASE HandlePublish0 \/ HandlePublish1 \/ HandlePublish2
  BY <1>2, <1>4 DEF HandlePublish0, HandlePublish1, HandlePublish2
<1>5. CASE HandlePubrel \/ HandlePubrelAgain
  BY <1>3, <1>5 DEF HandlePubrel, HandlePubrelAgain
<1>. QED  BY <1>1, <1>4, <1>5 DEF Handle

\* What the client holds is what it held, but for a message that has arrived.
LEMMA KnownInMessages ==
    ASSUME Reader, Handle
    PROVE  \A i \in DOMAIN in_messages' :
               <<in_messages'[i].mid, 2, in_messages'[i].msg>> \in Known
<1>1. Typed /\ in_messages \in Seq(Entries)
  BY DEF Reader, Typed
<1>2. CASE UNCHANGED in_messages
  BY <1>2, KnownMembers
<1>3. CASE HandlePublish2
  <2>. DEFINE e == [mid |-> Arrived.mid, msg |-> Arrived.msg]
  <2>1. /\ Publication(2) /\ in_messages' = Append(in_messages, e)
    BY <1>3 DEF HandlePublish2
  <2>2. /\ pending # <<>> /\ Arrived = pending[1] /\ Arrived.qos = 2 /\ Arrived.msg # 0
        /\ Arrived.mid \in Mids /\ Arrived.msg \in Messages
    BY <2>1, PublicationArrived
  <2>3. e \in Entries /\ e.mid = Arrived.mid /\ e.msg = Arrived.msg
    BY <2>2 DEF Entries
  <2>4. <<e.mid, 2, e.msg>> \in Known
    BY <1>1, <2>2, <2>3, FirstPacket, KnownMembers
  <2>. HIDE DEF e
  <2>5. /\ \A i \in DOMAIN in_messages' : i \in DOMAIN in_messages \/ i = Len(in_messages) + 1
        /\ \A i \in DOMAIN in_messages : in_messages'[i] = in_messages[i]
        /\ in_messages'[Len(in_messages) + 1] = e
    BY <1>1, <2>1, <2>3, AppendAt
  <2>6. ASSUME NEW i \in DOMAIN in_messages'
        PROVE  <<in_messages'[i].mid, 2, in_messages'[i].msg>> \in Known
    <3>1. CASE i \in DOMAIN in_messages
      BY <2>5, <3>1, KnownMembers
    <3>2. CASE i = Len(in_messages) + 1
      BY <2>4, <2>5, <3>2
    <3>. QED  BY <2>5, <3>1, <3>2
  <2>. QED  BY <2>6
<1>4. CASE HandlePubrel
  <2>. DEFINE o == Oldest(Arrived.mid)
  <2>1. in_messages' = RemoveAt(in_messages, o) /\ o \in 1 .. Len(in_messages)
    BY <1>1, <1>4, OldestWaits DEF HandlePubrel
  <2>. HIDE DEF o
  <2>2. /\ DOMAIN in_messages' = 1 .. Len(in_messages) - 1 /\ Len(in_messages) \in Nat
        /\ \A i \in 1 .. Len(in_messages) - 1 :
              in_messages'[i] = IF i < o THEN in_messages[i] ELSE in_messages[i + 1]
    <3>1. /\ in_messages' \in Seq(Entries) /\ Len(in_messages') = Len(in_messages) - 1
          /\ \A i \in 1 .. Len(in_messages) - 1 :
                in_messages'[i] = IF i < o THEN in_messages[i] ELSE in_messages[i + 1]
      BY ONLY <1>1, <2>1, RemoveAtProperties
    <3>2. DOMAIN in_messages' = 1 .. Len(in_messages') /\ Len(in_messages) \in Nat
      BY ONLY <1>1, <3>1
    <3>. QED  BY ONLY <3>1, <3>2
  <2>3. ASSUME NEW i \in DOMAIN in_messages'
        PROVE  <<in_messages'[i].mid, 2, in_messages'[i].msg>> \in Known
    <3>1. i \in DOMAIN in_messages /\ i + 1 \in DOMAIN in_messages
      BY <1>1, <2>2
    <3>2. in_messages'[i] = in_messages[i] \/ in_messages'[i] = in_messages[i + 1]
      BY <2>2
    <3>. QED  BY <3>1, <3>2, KnownMembers
  <2>. QED  BY <2>3
<1>. QED
  BY <1>2, <1>3, <1>4 DEF Handle, HandlePingresp, HandleMalformed,
     HandlePublish0, HandlePublish1, HandlePubrelAgain

LEMMA KnownStep ==
    ASSUME Reader, Next, ~ BrokerPublishes
    PROVE  Known' \subseteq Known
<1>. USE DEF clientVars, brokerVars, countVars
<1>0. Typed
  BY DEF Reader
<1>1. CASE Read \/ RetryPubrec \/ Lose
  <2>1. UNCHANGED <<pending, in_messages, outgoing, done>>
    BY <1>1 DEF Read, RetryPubrec, Lose, ReadCommand, ReadLength,
       ReadLengthFails, ReadBody
  <2>. QED  BY <2>1 DEF Known, Open
<1>2. CASE Handle
  <2>1. pending # <<>> /\ pending' = Tail(pending) /\ UNCHANGED <<outgoing, done>>
    BY <1>2, HandleTakes
  <2>2. \A i \in DOMAIN pending' : pending'[i].msg # 0 =>
               <<pending'[i].mid, pending'[i].qos, pending'[i].msg>> \in Known
    BY <1>0, <2>1, KnownPending
  <2>3. \A i \in DOMAIN in_messages' : <<in_messages'[i].mid, 2, in_messages'[i].msg>> \in Known
    BY <1>2, KnownInMessages
  <2>. QED  BY <2>1, <2>2, <2>3, KnownKept, KnownMembers
<1>3. CASE Reconnect
  <2>1. UNCHANGED <<in_messages, done>>
    BY <1>0, <1>3, Comeback
  <2>2. CASE clean
    <3>1. outgoing' = [mid \in Mids |-> Free] /\ pending' = <<>>
      BY <1>0, <1>3, <2>2, Comeback
    <3>2. DOMAIN pending' = {} /\ \A mid \in Mids : outgoing'[mid] = Free
      BY <3>1
    <3>. QED  BY <2>1, <3>2, KnownKept, KnownMembers
  <2>3. CASE ~ clean
    <3>1. PICK order \in Bijection(1 .. Cardinality(Open), Open) :
             pending' = [i \in DOMAIN order |-> Repeated(order[i])]
      BY <1>0, <1>3, <2>3, Comeback
    <3>2. outgoing' = outgoing
      BY <1>0, <1>3, <2>3, Comeback
    <3>3. ASSUME NEW i \in DOMAIN pending', pending'[i].msg # 0
          PROVE  <<pending'[i].mid, pending'[i].qos, pending'[i].msg>> \in Known
      <4>1. order[i] \in Open /\ pending'[i] = Repeated(order[i])
        BY <3>1 DEF Bijection, Injection
      <4>2. PICK mid \in Open : pending'[i] = Repeated(mid)
        BY <4>1
      <4>3. /\ pending'[i].mid = mid /\ pending'[i].qos = outgoing[mid].qos
            /\ pending'[i].msg = outgoing[mid].msg
        BY <3>3, <4>2 DEF Repeated, Pubrel, Publish
      <4>. QED  BY <4>2, <4>3, KnownMembers DEF Open
    <3>. QED  BY <2>1, <3>2, <3>3, KnownKept, KnownMembers
  <2>. QED  BY <2>2, <2>3
<1>4. CASE BrokerSendsOther
  <2>1. PICK p \in Malformed \cup {Pingresp} : Send(p)
    BY <1>4 DEF BrokerSendsOther
  <2>2. p \in Packets /\ p.msg = 0
    BY SomePackets DEF Malformed, Pingresp, Publish
  <2>3. pending' = Append(pending, p) /\ UNCHANGED <<in_messages, outgoing, done>>
    BY <1>4, <2>1 DEF BrokerSendsOther, Send
  <2>4. \A i \in DOMAIN pending' : pending'[i].msg # 0 =>
               <<pending'[i].mid, pending'[i].qos, pending'[i].msg>> \in Known
    BY <1>0, <2>2, <2>3, KnownPending
  <2>. QED  BY <2>3, <2>4, KnownKept, KnownMembers
<1>5. CASE BrokerGets
  <2>. DEFINE a == Head(back)
              o == outgoing[a.mid]
  <2>1. back # <<>> /\ UNCHANGED in_messages
    BY <1>5 DEF BrokerGets
  <2>2. a.mid \in Mids /\ o \in Flows \cup {Free}
    BY <1>0, <2>1, FirstAnswer DEF Typed
  <2>3. CASE Finish(a.mid) /\ UNCHANGED pending /\ o # Free
    <3>1. /\ \A mid \in Mids : outgoing'[mid] # Free => outgoing'[mid] = outgoing[mid]
          /\ \A d \in done' : d \in done \/ d = [msg |-> o.msg, qos |-> o.qos, mid |-> a.mid]
      BY <1>0, <2>2, <2>3 DEF Finish, Typed
    <3>2. <<a.mid, o.qos, o.msg>> \in Known
      BY <2>2, <2>3, KnownMembers
    <3>3. ASSUME NEW d \in done'  PROVE <<d.mid, d.qos, d.msg>> \in Known
      <4>1. CASE d \in done
        BY <4>1, KnownMembers
      <4>2. CASE d = [msg |-> o.msg, qos |-> o.qos, mid |-> a.mid]
        <5>1. d.msg = o.msg /\ d.qos = o.qos /\ d.mid = a.mid
          BY <4>2
        <5>. QED  BY <3>2, <5>1
      <4>. QED  BY <3>1, <4>1, <4>2
    <3>. QED  BY <2>1, <2>3, <3>1, <3>3, KnownKept, KnownMembers
  <2>4. CASE /\ o # Free /\ outgoing' = [outgoing EXCEPT ![a.mid].stage = "release"]
             /\ Send(Pubrel(a.mid)) /\ UNCHANGED done
    <3>1. \A mid \in Mids : outgoing'[mid] # Free =>
              <<mid, outgoing'[mid].qos, outgoing'[mid].msg>> \in Known
      <4>1. ASSUME NEW mid \in Mids, outgoing'[mid] # Free
            PROVE  /\ outgoing[mid] # Free /\ outgoing'[mid].qos = outgoing[mid].qos
                   /\ outgoing'[mid].msg = outgoing[mid].msg
        BY <1>0, <2>2, <2>4, <4>1 DEF Typed, Flows
      <4>. QED  BY <4>1, KnownMembers
    <3>2. Pubrel(a.mid) \in Packets /\ Pubrel(a.mid).msg = 0
      BY <2>2, SomePackets DEF Pubrel
    <3>3. \A i \in DOMAIN pending' : pending'[i].msg # 0 =>
               <<pending'[i].mid, pending'[i].qos, pending'[i].msg>> \in Known
      BY <1>0, <2>4, <3>2, KnownPending DEF Send
    <3>. QED  BY <2>1, <2>4, <3>1, <3>3, KnownKept, KnownMembers
  <2>5. CASE UNCHANGED <<outgoing, done, pending>>
    BY <2>1, <2>5, KnownKept, KnownMembers
  <2>6. o = Free => o.qos = 0 /\ o.stage = "none"
    BY DEF Free
  <2>. QED  BY <1>5, <2>3, <2>4, <2>5, <2>6 DEF BrokerGets
<1>. QED  BY <1>1, <1>2, <1>3, <1>4, <1>5 DEF Next

\* What a publication of the broker adds.
LEMMA BrokerPublished ==
    ASSUME Typed, BrokerPublishes
    PROVE  \E qos \in 0 .. 2, mid \in Mids \cup {0} :
               LET p == Publish(made + 1, qos, mid, qos + 1) IN
               /\ p \in Packets /\ pending' = Append(pending, p)
               /\ made + 1 \in Messages /\ made' = made + 1
               /\ UNCHANGED <<in_messages, delivered, back, done, doubled>>
               /\ qos = 0 => outgoing' = outgoing /\ mid = 0
               /\ qos # 0 => /\ mid \in Mids /\ outgoing[mid] = Free
                             /\ outgoing' = [outgoing EXCEPT ![mid] =
                                   [msg |-> made + 1, qos |-> qos, stage |-> "publish"]]
<1>1. /\ made + 1 \in Messages /\ made' = made + 1
      /\ UNCHANGED <<in_messages, delivered, back, done, doubled>>
  BY ConstantTypes DEF BrokerPublishes, Typed, Messages, clientVars, countVars
<1>2. CASE Send(Publish(made + 1, 0, 0, 1)) /\ UNCHANGED outgoing
  <2>1. Publish(made + 1, 0, 0, 1) \in Packets
    BY <1>1, SomePackets
  <2>2. Publish(made + 1, 0, 0, 0 + 1) = Publish(made + 1, 0, 0, 1)
    OBVIOUS
  <2>. QED  BY <1>1, <1>2, <2>1, <2>2 DEF Send
<1>3. CASE \E qos \in 1 .. 2, mid \in Mids :
              /\ outgoing[mid] = Free
              /\ outgoing' = [outgoing EXCEPT ![mid] =
                                 [msg |-> made + 1, qos |-> qos, stage |-> "publish"]]
              /\ Send(Publish(made + 1, qos, mid, qos + 1))
  <2>1. PICK qos \in 1 .. 2, mid \in Mids :
              /\ outgoing[mid] = Free
              /\ outgoing' = [outgoing EXCEPT ![mid] =
                                 [msg |-> made + 1, qos |-> qos, stage |-> "publish"]]
              /\ Send(Publish(made + 1, qos, mid, qos + 1))
    BY <1>3
  <2>2. Publish(made + 1, qos, mid, qos + 1) \in Packets
    BY <1>1, SomePackets
  <2>3. qos \in 0 .. 2 /\ mid \in Mids \cup {0} /\ qos # 0
    OBVIOUS
  <2>. QED  BY <1>1, <2>1, <2>2, <2>3 DEF Send
<1>. QED  BY <1>2, <1>3 DEF BrokerPublishes

LEMMA OwnedPublished ==
    ASSUME Reader, Owned, BrokerPublishes
    PROVE  Owned'
<1>0. Typed
  BY DEF Reader
<1>1. PICK qos \in 0 .. 2, mid \in Mids \cup {0} :
         LET p == Publish(made + 1, qos, mid, qos + 1) IN
         /\ p \in Packets /\ pending' = Append(pending, p)
         /\ made + 1 \in Messages /\ made' = made + 1
         /\ UNCHANGED <<in_messages, delivered, back, done, doubled>>
         /\ qos = 0 => outgoing' = outgoing /\ mid = 0
         /\ qos # 0 => /\ mid \in Mids /\ outgoing[mid] = Free
                       /\ outgoing' = [outgoing EXCEPT ![mid] =
                             [msg |-> made + 1, qos |-> qos, stage |-> "publish"]]
  BY <1>0, BrokerPublished
<1>. DEFINE p == Publish(made + 1, qos, mid, qos + 1)
            new == <<mid, qos, made + 1>>
            K == Known \cup {new}
<1>2. /\ p.mid = mid /\ p.qos = qos /\ p.msg = made + 1 /\ p \in Packets
      /\ pending' = Append(pending, p)
  BY <1>1 DEF Publish
<1>3. \A i \in DOMAIN pending' : pending'[i].msg # 0 =>
          <<pending'[i].mid, pending'[i].qos, pending'[i].msg>> \in K
  <2>. HIDE DEF p
  <2>1. pending \in Seq(Packets)
    BY <1>0 DEF Typed
  <2>2. /\ \A i \in DOMAIN pending' : i \in DOMAIN pending \/ i = Len(pending) + 1
        /\ \A i \in DOMAIN pending : pending'[i] = pending[i]
        /\ pending'[Len(pending) + 1] = p
    BY <1>2, <2>1, AppendAt
  <2>3. ASSUME NEW i \in DOMAIN pending', pending'[i].msg # 0
        PROVE  <<pending'[i].mid, pending'[i].qos, pending'[i].msg>> \in K
    <3>1. CASE i \in DOMAIN pending
      BY <2>2, <2>3, <3>1, KnownMembers
    <3>2. CASE i = Len(pending) + 1
      BY <1>2, <2>2, <3>2
    <3>. QED  BY <2>2, <3>1, <3>2
  <2>. QED  BY <2>3
<1>4. \A id \in Mids : outgoing'[id] # Free => <<id, outgoing'[id].qos, outgoing'[id].msg>> \in K
  <2>1. CASE qos = 0
    BY <1>1, <2>1, KnownMembers
  <2>2. CASE qos # 0
    <3>1. ASSUME NEW id \in Mids, outgoing'[id] # Free
          PROVE  <<id, outgoing'[id].qos, outgoing'[id].msg>> \in K
      <4>1. CASE id = mid
        <5>1. outgoing'[id].qos = qos /\ outgoing'[id].msg = made + 1
          BY <1>0, <1>1, <2>2, <4>1 DEF Typed
        <5>. QED  BY <4>1, <5>1
      <4>2. CASE id # mid
        <5>1. outgoing'[id] = outgoing[id]
          BY <1>0, <1>1, <2>2, <4>2 DEF Typed
        <5>. QED  BY <3>1, <5>1, KnownMembers
      <4>. QED  BY <4>1, <4>2
    <3>. QED  BY <3>1
  <2>. QED  BY <2>1, <2>2
<1>5. Known' \subseteq K
  <2>1. /\ \A i \in DOMAIN in_messages' : <<in_messages'[i].mid, 2, in_messages'[i].msg>> \in K
        /\ \A d \in done' : <<d.mid, d.qos, d.msg>> \in K
    BY <1>1, KnownMembers
  <2>. HIDE DEF K
  <2>. QED  BY <1>3, <1>4, <2>1, KnownKept
<1>6. made \in Nat /\ made' = made + 1 /\ delivered' = delivered /\ new[3] = made + 1
  BY <1>0, <1>1, ConstantTypes DEF Typed
<1>7. \A r \in Known : r[3] <= made /\ r[3] # made + 1 /\ r[3] <= made + 1
  <2>1. \A r \in Known : r[3] \in Nat
    <3>1. ASSUME NEW i \in DOMAIN pending  PROVE pending[i].msg \in Nat
      <4>1. pending[i] \in Packets
        BY <1>0 DEF Typed
      <4>. QED  BY <4>1, PacketFields, ConstantTypes
    <3>2. \A i \in DOMAIN in_messages : in_messages[i].msg \in Nat
      <4>1. \A i \in DOMAIN in_messages : in_messages[i] \in Entries
        BY <1>0 DEF Typed
      <4>. QED  BY <4>1 DEF Entries, Messages
    <3>3. \A id \in Open : outgoing[id].msg \in Nat
      BY <1>0, RepeatedType DEF Flows, Messages
    <3>4. \A d \in done : d.msg \in Nat
      BY <1>0 DEF Typed, Messages
    <3>. QED  BY <3>1, <3>2, <3>3, <3>4 DEF Known
  <2>2. \A r \in Known : r[3] <= made
    BY DEF Owned
  <2>. QED  BY <1>6, <2>1, <2>2
<1>8. \A r, s \in Known' : r[3] = s[3] => r = s
  <2>1. \A r, s \in Known : r[3] = s[3] => r = s
    BY DEF Owned
  <2>. HIDE DEF new
  <2>. QED  BY <1>5, <1>6, <1>7, <2>1
<1>9. \A r \in Known' : r[3] <= made'
  <2>1. made + 1 <= made + 1
    BY <1>6
  <2>. HIDE DEF new
  <2>. QED  BY <1>5, <1>6, <1>7, <2>1
<1>10. \A m \in Messages : m > made' => delivered'[m] = 0
  <2>1. \A m \in Messages : m > made + 1 => m > made
    BY <1>6 DEF Messages
  <2>. QED  BY <1>6, <2>1 DEF Owned
<1>. QED  BY <1>8, <1>9, <1>10 DEF Owned

LEMMA DeliveredMade ==
    ASSUME Reader, Owned, Next, ~ BrokerPublishes
    PROVE  made' = made /\ \A m \in Messages : m > made => delivered'[m] = 0
<1>. USE DEF clientVars, brokerVars, countVars
<1>0. Typed /\ made \in Nat
  BY SMTT(30), ConstantTypes DEF Reader, Typed
<1>1. CASE ~ Handle
  <2>1. UNCHANGED <<made, delivered>>
    BY <1>1 DEF Next, Read, RetryPubrec, Lose, ReadCommand, ReadLength,
       ReadLengthFails, ReadBody, Reconnect, BrokerSendsOther, BrokerGets
  <2>. QED  BY SMTT(30), <2>1 DEF Owned
<1>2. ASSUME NEW n \in Messages, n <= made, OnMessage(n)
      PROVE  \A m \in Messages : m > made => delivered'[m] = 0
  <2>1. \A m \in Messages : m > made => m # n
    BY <1>0, <1>2 DEF Messages
  <2>. QED  BY <1>0, <1>2, <2>1, DeliveredType DEF Owned
<1>3. CASE HandlePublish0 \/ HandlePublish1
  <2>1. PICK qos \in 0 .. 2 : Publication(qos)
    BY <1>3 DEF HandlePublish0, HandlePublish1
  <2>2. /\ pending # <<>> /\ Arrived = pending[1] /\ Arrived.msg \in Messages /\ Arrived.msg # 0
        /\ OnMessage(Arrived.msg) /\ made' = made
    BY <1>3, <2>1, PublicationArrived DEF HandlePublish0, HandlePublish1
  <2>3. <<pending[1].mid, pending[1].qos, pending[1].msg>> \in Known
    BY <1>0, <2>2, FirstPacket, KnownMembers
  <2>4. Arrived.msg <= made
    BY <2>2, <2>3 DEF Owned
  <2>. QED  BY <1>2, <2>2, <2>4
<1>4. CASE HandlePubrel
  <2>. DEFINE o == Oldest(Arrived.mid)
  <2>1. OnMessage(in_messages[o].msg) /\ Waiting(Arrived.mid) # {} /\ made' = made
    BY <1>4 DEF HandlePubrel
  <2>2. o \in DOMAIN in_messages /\ in_messages[o].msg \in Messages
    BY <1>0, <2>1, OldestWaits DEF Waiting
  <2>. HIDE DEF o
  <2>3. <<in_messages[o].mid, 2, in_messages[o].msg>> \in Known
    BY <2>2, KnownMembers
  <2>4. in_messages[o].msg <= made
    BY <2>3 DEF Owned
  <2>. QED  BY <1>2, <2>1, <2>2, <2>4
<1>5. CASE HandlePingresp \/ HandleMalformed \/ HandlePublish2 \/ HandlePubrelAgain
  BY <1>5 DEF Owned, HandlePingresp, HandleMalformed, HandlePublish2,
     HandlePubrelAgain
<1>. QED  BY <1>1, <1>3, <1>4, <1>5 DEF Handle

LEMMA OwnedStep ==
    ASSUME Reader, Owned, Next
    PROVE  Owned'
<1>1. CASE BrokerPublishes
  BY <1>1, OwnedPublished
<1>2. CASE ~ BrokerPublishes
  <2>1. Known' \subseteq Known
    BY <1>2, KnownStep
  <2>2. made' = made /\ \A m \in Messages : m > made => delivered'[m] = 0
    BY <1>2, DeliveredMade
  <2>. QED  BY <2>1, <2>2 DEF Owned
<1>. QED  BY <1>1, <1>2

-----------------------------------------------------------------------------
(* A step that does not concern a message id.                              *)

Flow(mid) == /\ Underway(mid) /\ Held(mid)
             /\ Unreleased(mid) /\ Released(mid) /\ Acknowledged(mid)

\* What is under way for the id was under way before the step, in the same order:
\* packets and answers have come up s and t places.
Concerns(p, mid) == IsPublish(p, mid) \/ IsPubrel(p, mid)
PendingFrom(mid, s) ==
    \A i \in DOMAIN pending' : Concerns(pending'[i], mid) =>
        i + s \in DOMAIN pending /\ pending[i + s] = pending'[i]
PendingKept(mid, s) == PendingFrom(mid, s) /\ (Published(mid) => Published(mid)')
BackKept(mid, t) ==
    \A i \in DOMAIN back' : back'[i].mid = mid =>
        i + t \in DOMAIN back /\ back[i + t] = back'[i]
WaitingKept(mid) ==
    /\ Waiting(mid)' = {} <=> Waiting(mid) = {}
    /\ \A i \in Waiting(mid)' : \E k \in Waiting(mid) : in_messages'[i] = in_messages[k]
    /\ (\A i, j \in Waiting(mid) : i = j) => \A i, j \in Waiting(mid)' : i = j

LEMMA Positions ==
    ASSUME Typed
    PROVE  /\ \A i \in DOMAIN pending : i \in Nat /\ i >= 1
           /\ \A i \in DOMAIN back : i \in Nat /\ i >= 1
           /\ \A i \in DOMAIN in_messages : i \in Nat /\ i >= 1
BY DEF Typed

LEMMA PublishedFrom ==
    ASSUME NEW mid, NEW s, PendingFrom(mid, s)
    PROVE  Published(mid)' => Published(mid)
BY DEF PendingFrom, Published, Concerns

LEMMA AnsweredFrom ==
    ASSUME NEW mid, NEW t, BackKept(mid, t)
    PROVE  \A type : Answered(type, mid)' => Answered(type, mid)
BY DEF BackKept, Answered, Says

\* The order of two answers.
LEMMA AnswersFrom ==
    ASSUME Typed, Typed', NEW mid, NEW t \in {0, 1}, BackKept(mid, t), NEW x, NEW y
    PROVE  /\ (\A i, j \in DOMAIN back : i < j => ~ (Says(i, x, mid) /\ Says(j, y, mid)))
              => (\A i, j \in DOMAIN back : i < j => ~ (Says(i, x, mid) /\ Says(j, y, mid)))'
           /\ (\A i, j \in DOMAIN back : Says(i, x, mid) /\ Says(j, x, mid) => i = j)
              => (\A i, j \in DOMAIN back : Says(i, x, mid) /\ Says(j, x, mid) => i = j)'
<1>1. \A i \in DOMAIN back' : i \in Nat
  BY SMTT(30) DEF Typed
<1>2. \A i \in DOMAIN back' : \A z : Says(i, z, mid)' => i + t \in DOMAIN back /\ Says(i + t, z, mid)
  BY DEF BackKept, Says
<1>3. ASSUME \A i, j \in DOMAIN back : i < j => ~ (Says(i, x, mid) /\ Says(j, y, mid)),
             NEW i \in DOMAIN back', NEW j \in DOMAIN back', i < j, Says(i, x, mid)', Says(j, y, mid)'
      PROVE  FALSE
  <2>1. /\ i + t \in DOMAIN back /\ Says(i + t, x, mid)
        /\ j + t \in DOMAIN back /\ Says(j + t, y, mid)
    BY <1>2, <1>3
  <2>2. i + t < j + t
    BY <1>1, <1>3
  <2>. QED  BY ONLY <1>3, <2>1, <2>2
<1>4. ASSUME \A i, j \in DOMAIN back : Says(i, x, mid) /\ Says(j, x, mid) => i = j,
             NEW i \in DOMAIN back', NEW j \in DOMAIN back', Says(i, x, mid)', Says(j, x, mid)'
      PROVE  i = j
  <2>1. /\ i + t \in DOMAIN back /\ Says(i + t, x, mid)
        /\ j + t \in DOMAIN back /\ Says(j + t, x, mid)
    BY <1>2, <1>4
  <2>2. i + t = j + t
    BY ONLY <1>4, <2>1
  <2>. QED  BY <1>1, <2>2
<1>. QED  BY <1>3, <1>4

LEMMA UnderwayFrom ==
    ASSUME Typed, Typed', NEW mid, NEW s \in {0, 1}, PendingFrom(mid, s), Underway(mid),
           outgoing'[mid] = outgoing[mid], Waiting(mid)' = {} <=> Waiting(mid) = {}
    PROVE  Underway(mid)'
<1>1. \A i \in DOMAIN pending' : i \in Nat
  BY SMTT(30) DEF Typed
<1>2. \A i \in DOMAIN pending' :
         IsPublish(pending'[i], mid) \/ IsPubrel(pending'[i], mid) =>
            i + s \in DOMAIN pending /\ pending[i + s] = pending'[i]
  BY DEF PendingFrom, Concerns
<1>3. ASSUME NEW i \in DOMAIN pending', IsPublish(pending'[i], mid)
      PROVE  /\ outgoing'[mid] # Free
             /\ pending'[i].qos = outgoing'[mid].qos /\ pending'[i].msg = outgoing'[mid].msg
  BY <1>2, <1>3 DEF Underway
<1>4. ASSUME NEW i \in DOMAIN pending', NEW j \in DOMAIN pending',
             IsPublish(pending'[i], mid), IsPublish(pending'[j], mid)
      PROVE  i = j
  <2>1. /\ i + s \in DOMAIN pending /\ j + s \in DOMAIN pending
        /\ IsPublish(pending[i + s], mid) /\ IsPublish(pending[j + s], mid)
    BY <1>2, <1>4
  <2>2. i + s = j + s
    BY <2>1 DEF Underway
  <2>. QED  BY <1>1, <2>2
<1>5. ASSUME NEW i \in DOMAIN pending', NEW j \in DOMAIN pending', i < j
      PROVE  /\ Waiting(mid)' = {} => ~ (IsPublish(pending'[i], mid) /\ IsPubrel(pending'[j], mid))
             /\ Waiting(mid)' # {} => ~ (IsPubrel(pending'[i], mid) /\ IsPublish(pending'[j], mid))
  <2>1. i + s < j + s
    BY <1>1, <1>5
  <2>2. ASSUME Waiting(mid)' = {}, IsPublish(pending'[i], mid), IsPubrel(pending'[j], mid)
        PROVE  FALSE
    <3>1. /\ i + s \in DOMAIN pending /\ j + s \in DOMAIN pending
          /\ IsPublish(pending[i + s], mid) /\ IsPubrel(pending[j + s], mid)
      BY <1>2, <2>2
    <3>. QED  BY <2>1, <2>2, <3>1 DEF Underway
  <2>3. ASSUME Waiting(mid)' # {}, IsPubrel(pending'[i], mid), IsPublish(pending'[j], mid)
        PROVE  FALSE
    <3>1. /\ i + s \in DOMAIN pending /\ j + s \in DOMAIN pending
          /\ IsPubrel(pending[i + s], mid) /\ IsPublish(pending[j + s], mid)
      BY <1>2, <2>3
    <3>. QED  BY <2>1, <2>3, <3>1 DEF Underway
  <2>. QED  BY <2>2, <2>3
<1>. QED  BY <1>3, <1>4, <1>5 DEF Underway

LEMMA FlowKept ==
    ASSUME Typed, Typed', NEW mid \in Mids, Flow(mid), NEW s \in {0, 1}, NEW t \in {0, 1},
           outgoing'[mid] = outgoing[mid],
           outgoing[mid] # Free =>
               delivered'[outgoing[mid].msg] = delivered[outgoing[mid].msg],
           PendingKept(mid, s), BackKept(mid, t), WaitingKept(mid)
    PROVE  Flow(mid)'
<1>1. PendingFrom(mid, s) /\ (Published(mid)' <=> Published(mid))
  BY PublishedFrom DEF PendingKept
<1>2. Waiting(mid)' = {} <=> Waiting(mid) = {}
  BY DEF WaitingKept
<1>3. \A type : Answered(type, mid)' => Answered(type, mid)
  BY AnsweredFrom
<1>4. \A i \in DOMAIN pending' : IsPubrel(pending'[i], mid) =>
         \E j \in DOMAIN pending : IsPubrel(pending[j], mid)
  BY <1>1 DEF PendingFrom, Concerns
<1>5. outgoing[mid].qos \in {1, 2} \/ outgoing[mid].stage = "release" => outgoing[mid] # Free
  BY DEF Free
<1>6. Underway(mid)'
  BY <1>1, <1>2, UnderwayFrom DEF Flow
<1>7. Held(mid)'
  BY <1>5 DEF Flow, Held, WaitingKept
<1>8. Unreleased(mid)'
  <2>1. (\A i, j \in DOMAIN back : i < j => ~ (Says(i, "PUBREC", mid) /\ Says(j, "PUBCOMP", mid)))
        => (\A i, j \in DOMAIN back : i < j => ~ (Says(i, "PUBREC", mid) /\ Says(j, "PUBCOMP", mid)))'
    BY AnswersFrom
  <2>2. Unreleased(mid)
    BY DEF Flow
  <2>. QED  BY <1>1, <1>2, <1>3, <1>4, <1>5, <2>1, <2>2 DEF Unreleased
<1>9. Released(mid)'
  <2>1. (\A i, j \in DOMAIN back : i < j => ~ (Says(i, "PUBCOMP", mid) /\ Says(j, "PUBREC", mid)))
        => (\A i, j \in DOMAIN back : i < j => ~ (Says(i, "PUBCOMP", mid) /\ Says(j, "PUBREC", mid)))'
    BY AnswersFrom
  <2>2. Released(mid)
    BY DEF Flow
  <2>. QED  BY <1>1, <1>2, <1>3, <1>5, <2>1, <2>2 DEF Released
<1>10. Acknowledged(mid)'
  <2>1. (\A i, j \in DOMAIN back : Says(i, "PUBACK", mid) /\ Says(j, "PUBACK", mid) => i = j)
        => (\A i, j \in DOMAIN back : Says(i, "PUBACK", mid) /\ Says(j, "PUBACK", mid) => i = j)'
    BY AnswersFrom
  <2>2. Acknowledged(mid)
    BY DEF Flow
  <2>. QED  BY <1>1, <1>3, <1>5, <2>1, <2>2 DEF Acknowledged
<1>. QED  BY <1>6, <1>7, <1>8, <1>9, <1>10 DEF Flow

\* Steps that keep the packets, the answers and the messages held.
LEMMA PendingSame ==
    ASSUME Typed, UNCHANGED pending, NEW mid
    PROVE  PendingKept(mid, 0)
BY Positions DEF PendingKept, PendingFrom, Published

LEMMA PendingTail ==
    ASSUME Typed, pending # <<>>, pending' = Tail(pending), NEW mid
    PROVE  /\ PendingFrom(mid, 1)
           /\ ~ IsPublish(pending[1], mid) => PendingKept(mid, 1)
<1>1. PendingFrom(mid, 1)
  BY FirstPacket DEF PendingFrom
<1>2. ASSUME ~ IsPublish(pending[1], mid), Published(mid)
      PROVE  Published(mid)'
  <2>1. PICK i \in DOMAIN pending : IsPublish(pending[i], mid)
    BY <1>2 DEF Published
  <2>2. i # 1 /\ i \in Nat
    BY <1>2, <2>1, FirstPacket
  <2>3. i - 1 \in DOMAIN pending' /\ pending'[i - 1] = pending[(i - 1) + 1] /\ (i - 1) + 1 = i
    BY <2>2, FirstPacket
  <2>. QED  BY <2>1, <2>3 DEF Published
<1>. QED  BY <1>1, <1>2 DEF PendingKept

LEMMA PendingAppend ==
    ASSUME Typed, NEW p \in Packets, pending' = Append(pending, p), NEW mid
    PROVE  /\ ~ Concerns(p, mid) => PendingKept(mid, 0)
           /\ Published(mid) => Published(mid)'
           /\ \A i \in DOMAIN pending' : \/ i \in DOMAIN pending /\ pending'[i] = pending[i]
                                         \/ i = Len(pending) + 1 /\ pending'[i] = p
           /\ Len(pending) + 1 \in DOMAIN pending' /\ pending'[Len(pending) + 1] = p
           /\ \A i \in DOMAIN pending : i \in Nat /\ i <= Len(pending)
           /\ Len(pending) \in Nat
<1>1. pending \in Seq(Packets)
  BY DEF Typed
<1>2. /\ Len(pending) \in Nat /\ Len(pending) + 1 \in DOMAIN pending'
      /\ pending'[Len(pending) + 1] = p
      /\ \A i \in DOMAIN pending : i \in Nat /\ i <= Len(pending)
      /\ \A i \in DOMAIN pending : i \in DOMAIN pending' /\ pending'[i] = pending[i]
      /\ \A i \in DOMAIN pending' : i \in DOMAIN pending \/ i = Len(pending) + 1
  BY <1>1, AppendAt
<1>3. Published(mid) => Published(mid)'
  BY <1>2 DEF Published
<1>4. ~ Concerns(p, mid) => PendingFrom(mid, 0)
  BY <1>2 DEF PendingFrom
<1>. QED  BY <1>2, <1>3, <1>4 DEF PendingKept

LEMMA BackSame ==
    ASSUME Typed, UNCHANGED back, NEW mid
    PROVE  BackKept(mid, 0)
BY Positions DEF BackKept

LEMMA BackTail ==
    ASSUME Typed, back # <<>>, back' = Tail(back), NEW mid
    PROVE  BackKept(mid, 1)
BY FirstAnswer DEF BackKept

LEMMA BackAppend ==
    ASSUME Typed, NEW a \in Answers, back' = Append(back, a), NEW mid
    PROVE  /\ a.mid # mid => BackKept(mid, 0)
           /\ \A i \in DOMAIN back' : \/ i \in DOMAIN back /\ back'[i] = back[i]
                                      \/ i = Len(back) + 1 /\ back'[i] = a
           /\ Len(back) + 1 \in DOMAIN back' /\ back'[Len(back) + 1] = a
           /\ \A i \in DOMAIN back : i \in Nat /\ i <= Len(back)
           /\ Len(back) \in Nat
<1>1. back \in Seq(Answers)
  BY DEF Typed
<1>2. /\ Len(back) \in Nat /\ Len(back) + 1 \in DOMAIN back' /\ back'[Len(back) + 1] = a
      /\ \A i \in DOMAIN back : i \in Nat /\ i <= Len(back)
      /\ \A i \in DOMAIN back : i \in DOMAIN back' /\ back'[i] = back[i]
      /\ \A i \in DOMAIN back' : i \in DOMAIN back \/ i = Len(back) + 1
  BY <1>1, AppendAt
<1>3. a.mid # mid => BackKept(mid, 0)
  BY <1>2 DEF BackKept
<1>. QED  BY <1>2, <1>3

LEMMA WaitingSame ==
    ASSUME UNCHANGED in_messages, NEW mid
    PROVE  WaitingKept(mid) /\ Waiting(mid)' = Waiting(mid)
BY DEF WaitingKept, Waiting

LEMMA WaitingAppend ==
    ASSUME Typed, NEW e \in Entries, in_messages' = Append(in_messages, e), NEW mid
    PROVE  /\ e.mid # mid => WaitingKept(mid)
           /\ e.mid = mid /\ Waiting(mid) = {} =>
                 /\ Waiting(mid)' = {Len(in_messages) + 1}
                 /\ in_messages'[Len(in_messages) + 1] = e
<1>1. in_messages \in Seq(Entries)
  BY DEF Typed
<1>2. /\ Len(in_messages) + 1 \in DOMAIN in_messages'
      /\ in_messages'[Len(in_messages) + 1] = e
      /\ \A i \in DOMAIN in_messages : i \in DOMAIN in_messages' /\ in_messages'[i] = in_messages[i]
      /\ \A i \in DOMAIN in_messages' : i \in DOMAIN in_messages \/ i = Len(in_messages) + 1
  BY <1>1, AppendAt
<1>3. e.mid # mid => Waiting(mid)' = Waiting(mid)
  BY <1>2 DEF Waiting
<1>4. \A i \in Waiting(mid) : in_messages'[i] = in_messages[i]
  BY <1>2 DEF Waiting
<1>5. e.mid = mid /\ Waiting(mid) = {} => Waiting(mid)' = {Len(in_messages) + 1}
  BY <1>2 DEF Waiting
<1>. QED  BY <1>2, <1>3, <1>4, <1>5 DEF WaitingKept

\* A message taken out of the list: those of other ids stay, in their order.
LEMMA WaitingRemove ==
    ASSUME Typed, NEW o \in 1 .. Len(in_messages), in_messages' = RemoveAt(in_messages, o), NEW mid
    PROVE  /\ in_messages[o].mid # mid => WaitingKept(mid)
           /\ Waiting(mid) = {o} => Waiting(mid)' = {}
<1>1. /\ DOMAIN in_messages' = 1 .. Len(in_messages) - 1 /\ Len(in_messages) \in Nat
      /\ DOMAIN in_messages = 1 .. Len(in_messages)
      /\ \A i \in 1 .. Len(in_messages) - 1 :
            in_messages'[i] = IF i < o THEN in_messages[i] ELSE in_messages[i + 1]
  <2>1. in_messages \in Seq(Entries)
    BY DEF Typed
  <2>2. /\ in_messages' \in Seq(Entries) /\ Len(in_messages') = Len(in_messages) - 1
        /\ \A i \in 1 .. Len(in_messages) - 1 :
              in_messages'[i] = IF i < o THEN in_messages[i] ELSE in_messages[i + 1]
    BY <2>1, RemoveAtProperties
  <2>3. DOMAIN in_messages' = 1 .. Len(in_messages') /\ Len(in_messages) \in Nat
        /\ DOMAIN in_messages = 1 .. Len(in_messages)
    BY ONLY <2>1, <2>2
  <2>. QED  BY ONLY <2>2, <2>3
<1>. DEFINE from(i) == IF i < o THEN i ELSE i + 1
<1>2. ASSUME NEW i \in Waiting(mid)'
      PROVE  /\ from(i) \in Waiting(mid) /\ from(i) # o
             /\ in_messages'[i] = in_messages[from(i)] /\ i \in Nat
  <2>1. i \in 1 .. Len(in_messages) - 1 /\ in_messages'[i].mid = mid
    BY <1>1 DEF Waiting
  <2>2. from(i) \in DOMAIN in_messages /\ from(i) # o /\ in_messages'[i] = in_messages[from(i)]
    BY <1>1, <2>1
  <2>. QED  BY <2>1, <2>2 DEF Waiting
<1>3. Waiting(mid) = {o} => Waiting(mid)' = {}
  <2>. HIDE DEF from
  <2>. QED  BY <1>2
<1>4. ASSUME in_messages[o].mid # mid  PROVE WaitingKept(mid)
  <2>1. ASSUME NEW k \in Waiting(mid)  PROVE Waiting(mid)' # {}
    <3>1. k \in 1 .. Len(in_messages) /\ in_messages[k].mid = mid /\ k # o
      BY <1>1, <1>4 DEF Waiting
    <3>2. CASE k < o
      <4>1. k \in 1 .. Len(in_messages) - 1 /\ in_messages'[k] = in_messages[k]
        BY <1>1, <3>1, <3>2
      <4>. QED  BY <1>1, <3>1, <4>1 DEF Waiting
    <3>3. CASE k > o
      <4>1. /\ k - 1 \in 1 .. Len(in_messages) - 1 /\ ~ (k - 1 < o) /\ (k - 1) + 1 = k
        BY <1>1, <3>1, <3>3
      <4>2. in_messages'[k - 1] = in_messages[k]
        BY <1>1, <4>1
      <4>. QED  BY <1>1, <3>1, <4>1, <4>2 DEF Waiting
    <3>. QED  BY <1>1, <3>1, <3>2, <3>3
  <2>2. Waiting(mid)' # {} => Waiting(mid) # {}
    BY <1>2
  <2>3. \A i \in Waiting(mid)' : \E k \in Waiting(mid) : in_messages'[i] = in_messages[k]
    BY <1>2
  <2>4. ASSUME \A i, j \in Waiting(mid) : i = j, NEW i \in Waiting(mid)', NEW j \in Waiting(mid)'
        PROVE  i = j
    <3>1. from(i) = from(j) /\ i \in Nat /\ j \in Nat
      BY <1>2, <2>4
    <3>. QED  BY <1>1, <3>1
  <2>. QED  BY <2>1, <2>2, <2>3, <2>4 DEF WaitingKept
<1>. QED  BY <1>3, <1>4

LEMMA FlowSame ==
    ASSUME Typed, Typed', NEW mid \in Mids, Flow(mid),
           outgoing'[mid] = outgoing[mid],
           outgoing[mid] # Free =>
               delivered'[outgoing[mid].msg] = delivered[outgoing[mid].msg],
           PendingKept(mid, 0) \/ PendingKept(mid, 1), BackKept(mid, 0) \/ BackKept(mid, 1),
           WaitingKept(mid)
    PROVE  Flow(mid)'
<1>1. PICK s \in {0, 1} : PendingKept(mid, s)
  OBVIOUS
<1>2. PICK t \in {0, 1} : BackKept(mid, t)
  OBVIOUS
<1>. QED  BY <1>1, <1>2, FlowKept

-----------------------------------------------------------------------------
(* The steps that concern a message id.                                    *)

LEMMA HeadPublish ==
    ASSUME Typed, pending # <<>>, pending' = Tail(pending), NEW mid,
           Underway(mid), IsPublish(pending[1], mid)
    PROVE  /\ ~ Published(mid)' /\ outgoing[mid] # Free
           /\ outgoing[mid].qos = pending[1].qos /\ outgoing[mid].msg = pending[1].msg
           /\ Published(mid)
           /\ Waiting(mid) = {} => \A i \in DOMAIN pending' : ~ IsPubrel(pending'[i], mid)
<1>1. /\ 1 \in DOMAIN pending
      /\ \A i \in DOMAIN pending' : /\ i \in Nat /\ i >= 1 /\ i + 1 \in DOMAIN pending
                                    /\ pending'[i] = pending[i + 1]
  BY FirstPacket, Positions DEF Typed
<1>2. \A i \in DOMAIN pending' : i + 1 # 1 /\ 1 < i + 1
  BY <1>1
<1>3. ~ Published(mid)'
  BY <1>1, <1>2 DEF Published, Underway
<1>4. ASSUME Waiting(mid) = {}, NEW i \in DOMAIN pending'
      PROVE  ~ IsPubrel(pending'[i], mid)
  BY <1>1, <1>2, <1>4 DEF Underway
<1>. QED  BY <1>1, <1>3, <1>4 DEF Underway, Published

LEMMA HeadPubrel ==
    ASSUME Typed, pending # <<>>, pending' = Tail(pending), NEW mid,
           Underway(mid), IsPubrel(pending[1], mid), Waiting(mid) # {}
    PROVE  ~ Published(mid)' /\ ~ Published(mid)
<1>1. /\ 1 \in DOMAIN pending
      /\ \A i \in DOMAIN pending : i \in Nat /\ i >= 1
  BY FirstPacket
<1>2. ASSUME NEW i \in DOMAIN pending  PROVE ~ IsPublish(pending[i], mid)
  <2>1. CASE i = 1
    BY <2>1 DEF IsPublish, IsPubrel
  <2>2. CASE i # 1
    <3>1. 1 < i
      BY <1>1, <2>2
    <3>. QED  BY <1>1, <3>1 DEF Underway
  <2>. QED  BY <2>1, <2>2
<1>3. PendingFrom(mid, 1)
  BY PendingTail
<1>. QED  BY <1>2, <1>3, PublishedFrom DEF Published

LEMMA NoPublish ==
    ASSUME NEW mid, ~ Published(mid)'
    PROVE  Underway(mid)'
BY DEF Underway, Published

LEMMA AnswerAdded ==
    ASSUME Typed, NEW type \in {"PUBACK", "PUBREC", "PUBCOMP"}, NEW mid \in Mids,
           back' = Append(back, [type |-> type, mid |-> mid]) \/ back' = back
    PROVE  /\ \A i \in DOMAIN back' : \A x : x # type /\ Says(i, x, mid)' =>
                 i \in DOMAIN back /\ Says(i, x, mid)
           /\ \A i, j \in DOMAIN back' : \A x : i < j /\ Says(i, x, mid)' =>
                 i \in DOMAIN back /\ Says(i, x, mid)
           /\ \A i \in DOMAIN back' : i \in DOMAIN back \/ i = Len(back) + 1
           /\ \A i \in DOMAIN back : back'[i] = back[i]
           /\ \A x : x # type /\ Answered(x, mid)' => Answered(x, mid)
<1>. DEFINE a == [type |-> type, mid |-> mid]
<1>1. a \in Answers /\ a.type = type
  BY DEF Answers
<1>. HIDE DEF a
<1>2. CASE back' = back
  BY <1>2, Positions DEF Says, Answered
<1>3. CASE back' = Append(back, a)
  <2>1. /\ \A i \in DOMAIN back' : \/ i \in DOMAIN back /\ back'[i] = back[i]
                                   \/ i = Len(back) + 1 /\ back'[i] = a
        /\ \A i \in DOMAIN back : i \in Nat /\ i <= Len(back)
        /\ Len(back) \in Nat
    BY <1>1, <1>3, BackAppend
  <2>2. \A i \in DOMAIN back : back'[i] = back[i]
    <3>1. back \in Seq(Answers)
      BY DEF Typed
    <3>. QED  BY <1>1, <1>3, <3>1, AppendAt
  <2>3. \A i \in DOMAIN back' : \A x : x # type /\ Says(i, x, mid)' =>
           i \in DOMAIN back /\ Says(i, x, mid)
    BY <1>1, <2>1 DEF Says
  <2>4. \A i, j \in DOMAIN back' : \A x : i < j /\ Says(i, x, mid)' =>
           i \in DOMAIN back /\ Says(i, x, mid)
    <3>1. \A i, j \in DOMAIN back' : i < j => i \in DOMAIN back
      BY <2>1
    <3>. QED  BY <2>2, <3>1 DEF Says
  <2>5. \A i \in DOMAIN back' : i \in DOMAIN back \/ i = Len(back) + 1
    BY <2>1
  <2>. QED  BY <2>2, <2>3, <2>4, <2>5 DEF Answered
<1>. QED  BY <1>2, <1>3 DEF a

\* A message of QoS 1 arrives.
LEMMA FlowPublish1 ==
    ASSUME Typed, Typed', NEW mid \in Mids, Flow(mid),
           pending # <<>>, pending' = Tail(pending), IsPublish(pending[1], mid),
           pending[1].qos = 1, UNCHANGED <<outgoing, in_messages>>,
           back' = Append(back, [type |-> "PUBACK", mid |-> mid]) \/ back' = back,
           delivered'[outgoing[mid].msg] >= 1
    PROVE  Flow(mid)'
<1>1. /\ ~ Published(mid)' /\ outgoing[mid].qos = 1 /\ outgoing'[mid] = outgoing[mid]
      /\ Published(mid)
  BY HeadPublish DEF Flow
<1>2. Waiting(mid)' = Waiting(mid) /\ Waiting(mid) = {}
  BY <1>1, WaitingSame DEF Flow, Held
<1>3. outgoing[mid].stage # "release"
  BY SMTT(30), <1>1 DEF Typed
<1>4. Underway(mid)'
  BY <1>1, NoPublish
<1>5. Held(mid)' /\ Unreleased(mid)' /\ Released(mid)'
  BY <1>1, <1>2, <1>3 DEF Held, Unreleased, Released
<1>6. ~ Answered("PUBREC", mid) /\ ~ Answered("PUBACK", mid)
  BY <1>1 DEF Flow, Acknowledged
<1>7. Acknowledged(mid)'
  <2>1. ~ Answered("PUBREC", mid)'
    BY <1>6, AnswerAdded
  <2>2. ASSUME NEW i \in DOMAIN back', NEW j \in DOMAIN back',
               Says(i, "PUBACK", mid)', Says(j, "PUBACK", mid)'
        PROVE  i = j
    <3>1. i \notin DOMAIN back /\ j \notin DOMAIN back
      <4>1. \A k \in DOMAIN back : back'[k] = back[k]
        BY AnswerAdded
      <4>. QED  BY <1>6, <2>2, <4>1 DEF Answered, Says
    <3>2. i = Len(back) + 1 /\ j = Len(back) + 1
      BY <3>1, AnswerAdded
    <3>. QED  BY <3>2
  <2>. QED  BY <1>1, <2>1, <2>2 DEF Acknowledged
<1>. QED  BY <1>4, <1>5, <1>7 DEF Flow

\* A message of QoS 2 arrives, and none of its id is held.
LEMMA FlowPublish2 ==
    ASSUME Typed, Typed', NEW mid \in Mids, Flow(mid), Waiting(mid) = {},
           pending # <<>>, pending' = Tail(pending), IsPublish(pending[1], mid),
           pending[1].qos = 2, UNCHANGED <<outgoing, delivered>>,
           NEW e \in Entries, e.mid = mid, e.msg = pending[1].msg,
           in_messages' = Append(in_messages, e),
           back' = Append(back, [type |-> "PUBREC", mid |-> mid]) \/ back' = back
    PROVE  Flow(mid)'
<1>1. /\ ~ Published(mid)' /\ outgoing[mid].qos = 2 /\ outgoing[mid].msg = pending[1].msg
      /\ outgoing[mid] # Free /\ Published(mid) /\ outgoing'[mid] = outgoing[mid]
      /\ \A i \in DOMAIN pending' : ~ IsPubrel(pending'[i], mid)
  BY HeadPublish DEF Flow
<1>2. outgoing[mid].stage = "publish"
  <2>1. outgoing[mid].stage # "release"
    BY <1>1 DEF Flow, Released
  <2>. QED  BY <1>1, <2>1 DEF Typed, Flows
<1>3. delivered[outgoing[mid].msg] = 0 /\ ~ Answered("PUBREC", mid)
  BY <1>1, <1>2 DEF Flow, Unreleased
<1>4. Waiting(mid)' = {Len(in_messages) + 1} /\ in_messages'[Len(in_messages) + 1] = e
  BY WaitingAppend
<1>5. Underway(mid)'
  BY <1>1, NoPublish
<1>6. Held(mid)'
  BY <1>1, <1>3, <1>4 DEF Held
<1>7. Unreleased(mid)'
  <2>1. \A i, j \in DOMAIN back' : i < j => ~ (Says(i, "PUBREC", mid)' /\ Says(j, "PUBCOMP", mid)')
    BY <1>3, AnswerAdded DEF Answered
  <2>. QED  BY <1>1, <1>3, <1>4, <2>1 DEF Unreleased
<1>8. Released(mid)'
  BY <1>1, <1>2 DEF Released
<1>9. Acknowledged(mid)'
  <2>1. ~ Answered("PUBACK", mid)
    BY <1>1 DEF Flow, Acknowledged
  <2>2. ~ Answered("PUBACK", mid)'
    BY <2>1, AnswerAdded
  <2>. QED  BY <1>1, <2>2 DEF Acknowledged, Answered
<1>. QED  BY <1>5, <1>6, <1>7, <1>8, <1>9 DEF Flow

\* The message held is released.
LEMMA FlowPubrel ==
    ASSUME Typed, Typed', NEW mid \in Mids, Flow(mid), Waiting(mid) # {}, Waiting(mid)' = {},
           pending # <<>>, pending' = Tail(pending), IsPubrel(pending[1], mid),
           UNCHANGED outgoing,
           delivered'[outgoing[mid].msg] = delivered[outgoing[mid].msg] + 1,
           back' = Append(back, [type |-> "PUBCOMP", mid |-> mid]) \/ back' = back
    PROVE  Flow(mid)'
<1>1. ~ Published(mid)' /\ ~ Published(mid) /\ outgoing'[mid] = outgoing[mid]
  BY HeadPubrel DEF Flow
<1>2. outgoing[mid].qos = 2 /\ delivered[outgoing[mid].msg] = 0
  BY DEF Flow, Held
<1>3. outgoing[mid].stage = "release"
  <2>1. 1 \in DOMAIN pending
    BY FirstPacket
  <2>2. outgoing[mid].stage # "publish"
    BY <1>1, <1>2, <2>1 DEF Flow, Unreleased
  <2>3. outgoing[mid] # Free
    BY <1>2 DEF Free
  <2>. QED  BY <2>2, <2>3 DEF Typed, Flows
<1>4. ~ Answered("PUBCOMP", mid)
  BY <1>3 DEF Flow, Released
<1>5. Underway(mid)'
  BY <1>1, NoPublish
<1>6. Held(mid)'
  BY DEF Held
<1>7. Unreleased(mid)'
  BY <1>1, <1>3 DEF Unreleased
<1>8. Released(mid)'
  <2>1. \A i, j \in DOMAIN back' : i < j => ~ (Says(i, "PUBCOMP", mid)' /\ Says(j, "PUBREC", mid)')
    BY <1>4, AnswerAdded DEF Answered
  <2>. QED  BY <1>1, <1>2, <2>1 DEF Released
<1>9. Acknowledged(mid)'
  <2>1. ~ Answered("PUBACK", mid)
    BY <1>2 DEF Flow, Acknowledged
  <2>2. ~ Answered("PUBACK", mid)'
    BY <2>1, AnswerAdded
  <2>. QED  BY <1>1, <1>2, <2>2 DEF Acknowledged, Answered
<1>. QED  BY <1>5, <1>6, <1>7, <1>8, <1>9 DEF Flow

\* A PUBREL for a message that is not there.
LEMMA FlowPubrelAgain ==
    ASSUME Typed, Typed', NEW mid \in Mids, Flow(mid), Waiting(mid) = {},
           pending # <<>>, pending' = Tail(pending), IsPubrel(pending[1], mid),
           UNCHANGED <<outgoing, delivered, in_messages>>,
           back' = Append(back, [type |-> "PUBCOMP", mid |-> mid]) \/ back' = back
    PROVE  Flow(mid)'
<1>1. Waiting(mid)' = {} /\ outgoing'[mid] = outgoing[mid]
  BY WaitingSame
<1>2. PendingFrom(mid, 1) /\ (Published(mid) <=> Published(mid)')
  <2>1. ~ IsPublish(pending[1], mid)
    BY DEF IsPublish, IsPubrel
  <2>2. PendingKept(mid, 1)
    BY <2>1, PendingTail
  <2>. QED  BY <2>2, PublishedFrom DEF PendingKept
<1>3. Underway(mid)'
  BY <1>1, <1>2, UnderwayFrom DEF Flow
<1>4. Held(mid)'
  BY <1>1 DEF Held
<1>5. Unreleased(mid)'
  <2>1. Answered("PUBREC", mid)' => Answered("PUBREC", mid)
    BY AnswerAdded
  <2>. QED  BY <1>1, <1>2, <2>1 DEF Flow, Unreleased
<1>6. Released(mid)'
  <2>1. ASSUME outgoing[mid].stage = "release", NEW i \in DOMAIN back', NEW j \in DOMAIN back',
               i < j, Says(i, "PUBCOMP", mid)', Says(j, "PUBREC", mid)'
        PROVE  FALSE
    <3>1. i \in DOMAIN back /\ Says(i, "PUBCOMP", mid)
      BY <2>1, AnswerAdded
    <3>2. j \in DOMAIN back /\ Says(j, "PUBREC", mid)
      BY <2>1, AnswerAdded
    <3>. QED  BY <2>1, <3>1, <3>2 DEF Flow, Released
  <2>. QED  BY <1>1, <1>2, <2>1 DEF Flow, Released
<1>7. Acknowledged(mid)'
  <2>1. /\ Answered("PUBREC", mid)' => Answered("PUBREC", mid)
        /\ Answered("PUBACK", mid)' => Answered("PUBACK", mid)
    BY AnswerAdded
  <2>2. ASSUME NEW i \in DOMAIN back', NEW j \in DOMAIN back',
               Says(i, "PUBACK", mid)', Says(j, "PUBACK", mid)'
        PROVE  i = j
    <3>1. /\ i \in DOMAIN back /\ Says(i, "PUBACK", mid)
          /\ j \in DOMAIN back /\ Says(j, "PUBACK", mid)
      BY <2>2, AnswerAdded
    <3>. QED  BY <3>1 DEF Flow, Acknowledged
  <2>. QED  BY <1>1, <1>2, <2>1, <2>2 DEF Flow, Acknowledged
<1>. QED  BY <1>3, <1>4, <1>5, <1>6, <1>7 DEF Flow

\* The PUBREC of a message held is sent again.
LEMMA FlowRetry ==
    ASSUME Typed, Typed', NEW mid \in Mids, Flow(mid), Waiting(mid) # {},
           UNCHANGED <<pending, outgoing, delivered, in_messages>>,
           back' = Append(back, [type |-> "PUBREC", mid |-> mid]) \/ back' = back
    PROVE  Flow(mid)'
<1>1. Waiting(mid)' = Waiting(mid) /\ outgoing'[mid] = outgoing[mid]
      /\ (Published(mid)' <=> Published(mid))
  BY WaitingSame DEF Published
<1>2. outgoing[mid].qos = 2
  BY DEF Flow, Held
<1>3. Underway(mid)' /\ Held(mid)'
  BY <1>1 DEF Flow, Underway, Held
<1>4. Unreleased(mid)'
  <2>1. ASSUME outgoing[mid].stage = "publish", NEW i \in DOMAIN back', NEW j \in DOMAIN back',
               i < j, Says(i, "PUBREC", mid)', Says(j, "PUBCOMP", mid)'
        PROVE  FALSE
    <3>1. i \in DOMAIN back /\ Says(i, "PUBREC", mid)
      BY <2>1, AnswerAdded
    <3>2. j \in DOMAIN back /\ Says(j, "PUBCOMP", mid)
      BY <2>1, AnswerAdded
    <3>. QED  BY <1>2, <2>1, <3>1, <3>2 DEF Flow, Unreleased
  <2>. QED  BY <1>1, <2>1 DEF Flow, Unreleased
<1>5. Released(mid)'
  <2>1. Answered("PUBCOMP", mid)' => Answered("PUBCOMP", mid)
    BY AnswerAdded
  <2>. QED  BY <1>1, <2>1 DEF Flow, Released
<1>6. Acknowledged(mid)'
  <2>1. ~ Answered("PUBACK", mid)
    BY <1>2 DEF Flow, Acknowledged
  <2>2. ~ Answered("PUBACK", mid)'
    BY <2>1, AnswerAdded
  <2>. QED  BY <1>1, <1>2, <2>2 DEF Acknowledged, Answered
<1>. QED  BY <1>3, <1>4, <1>5, <1>6 DEF Flow

\* The broker takes a free id.
LEMMA FlowTaken ==
    ASSUME Typed, Typed', NEW mid \in Mids, Flow(mid), outgoing[mid] = Free,
           NEW p \in Packets, pending' = Append(pending, p),
           IsPublish(p, mid), outgoing'[mid].qos = p.qos, outgoing'[mid].msg = p.msg,
           outgoing'[mid].stage = "publish", outgoing'[mid] # Free,
           UNCHANGED <<in_messages, delivered, back>>, delivered[p.msg] = 0
    PROVE  Flow(mid)'
<1>1. Free.qos = 0
  BY DEF Free
<1>2. ~ Published(mid) /\ Waiting(mid) = {}
      /\ ~ Answered("PUBREC", mid) /\ ~ Answered("PUBACK", mid)
  BY <1>1 DEF Flow, Underway, Published, Held, Acknowledged
<1>3. Waiting(mid)' = {}
  BY <1>2, WaitingSame
<1>4. /\ Published(mid)' /\ Len(pending) \in Nat
      /\ \A i \in DOMAIN pending' :
            IsPublish(pending'[i], mid) => i = Len(pending) + 1 /\ pending'[i] = p
      /\ \A i \in DOMAIN pending' : i \in Nat /\ i <= Len(pending) + 1
  BY <1>2, PendingAppend DEF Published
<1>5. Underway(mid)'
  <2>1. \A i, j \in DOMAIN pending' : i < j => ~ IsPublish(pending'[i], mid)
    BY <1>4
  <2>. QED  BY <1>3, <1>4, <2>1 DEF Underway
<1>6. Held(mid)'
  BY <1>3 DEF Held
<1>7. ~ Answered("PUBREC", mid)' /\ ~ Answered("PUBACK", mid)'
  BY <1>2 DEF Answered, Says
<1>8. Unreleased(mid)'
  BY <1>3, <1>4, <1>7 DEF Unreleased
<1>9. Released(mid)'
  BY DEF Released
<1>10. Acknowledged(mid)'
  BY <1>7 DEF Acknowledged, Answered
<1>. QED  BY <1>5, <1>6, <1>8, <1>9, <1>10 DEF Flow

\* The broker is done with a message.
LEMMA FlowFinished ==
    ASSUME Typed, Typed', NEW mid \in Mids, ~ Published(mid), Waiting(mid) = {},
           UNCHANGED <<pending, in_messages>>, outgoing'[mid] = Free,
           ~ Answered("PUBREC", mid)', ~ Answered("PUBACK", mid)'
    PROVE  Flow(mid)'
<1>1. Free.qos = 0 /\ Free.stage = "none"
  BY DEF Free
<1>2. Waiting(mid)' = {} /\ ~ Published(mid)'
  BY WaitingSame DEF Published
<1>. QED
  BY <1>1, <1>2, NoPublish DEF Flow, Held, Unreleased, Released, Acknowledged,
     Answered

\* The first answer goes.
LEMMA AnswerTaken ==
    ASSUME Typed, Typed', back # <<>>, back' = Tail(back), NEW mid
    PROVE  /\ BackKept(mid, 1)
           /\ \A x : Answered(x, mid)' => Answered(x, mid)
           /\ \A i \in DOMAIN back' : i \in Nat /\ 1 < i + 1 /\ i + 1 \in DOMAIN back
           /\ \A i \in DOMAIN back' : \A x : Says(i, x, mid)' => Says(i + 1, x, mid)
           /\ 1 \in DOMAIN back
           /\ \A x : back[1].type = x /\ back[1].mid = mid => Says(1, x, mid)
<1>1. BackKept(mid, 1)
  BY BackTail
<1>2. \A i \in DOMAIN back' : i \in Nat /\ i >= 1
  BY SMTT(30) DEF Typed
<1>3. /\ 1 \in DOMAIN back
      /\ \A i \in DOMAIN back' : i + 1 \in DOMAIN back /\ back'[i] = back[i + 1]
  BY FirstAnswer
<1>4. \A i \in DOMAIN back' : \A x : Says(i, x, mid)' => Says(i + 1, x, mid)
  BY <1>3 DEF Says
<1>5. \A i \in DOMAIN back' : i \in Nat /\ 1 < i + 1 /\ i + 1 \in DOMAIN back
  BY <1>2, <1>3
<1>. QED  BY <1>1, <1>3, <1>4, <1>5, AnsweredFrom DEF Says

\* The broker gets the PUBACK of a message.
LEMMA FlowPuback ==
    ASSUME Typed, Typed', NEW mid \in Mids, Flow(mid), back # <<>>, back' = Tail(back),
           back[1].type = "PUBACK", back[1].mid = mid, outgoing[mid].qos = 1,
           UNCHANGED <<pending, in_messages, delivered>>, outgoing'[mid] = Free
    PROVE  Flow(mid)' /\ delivered[outgoing[mid].msg] >= 1
<1>1. Says(1, "PUBACK", mid) /\ 1 \in DOMAIN back
  BY AnswerTaken
<1>2. ~ Published(mid) /\ delivered[outgoing[mid].msg] >= 1 /\ ~ Answered("PUBREC", mid)
  BY <1>1 DEF Flow, Acknowledged, Answered
<1>3. Waiting(mid) = {}
  BY DEF Flow, Held
<1>4. ~ Answered("PUBREC", mid)'
  BY <1>2, AnswerTaken
<1>5. ~ Answered("PUBACK", mid)'
  <2>1. ASSUME NEW i \in DOMAIN back', Says(i, "PUBACK", mid)'  PROVE FALSE
    <3>1. i \in Nat /\ 1 < i + 1 /\ i + 1 \in DOMAIN back /\ Says(i + 1, "PUBACK", mid)
      BY <2>1, AnswerTaken
    <3>2. i + 1 = 1
      BY <1>1, <3>1 DEF Flow, Acknowledged
    <3>. QED  BY <3>1, <3>2
  <2>. QED  BY <2>1 DEF Answered
<1>. QED  BY <1>2, <1>3, <1>4, <1>5, FlowFinished

\* The broker gets the PUBCOMP of a message it has released.
LEMMA FlowPubcomp ==
    ASSUME Typed, Typed', NEW mid \in Mids, Flow(mid), back # <<>>, back' = Tail(back),
           back[1].type = "PUBCOMP", back[1].mid = mid, outgoing[mid].stage = "release",
           UNCHANGED <<pending, in_messages, delivered>>, outgoing'[mid] = Free
    PROVE  Flow(mid)' /\ delivered[outgoing[mid].msg] = 1
<1>1. Says(1, "PUBCOMP", mid) /\ 1 \in DOMAIN back
  BY AnswerTaken
<1>2. Waiting(mid) = {}
  BY <1>1 DEF Flow, Released, Answered
<1>3. /\ ~ Published(mid) /\ delivered[outgoing[mid].msg] = 1
      /\ \A i, j \in DOMAIN back : i < j => ~ (Says(i, "PUBCOMP", mid) /\ Says(j, "PUBREC", mid))
  BY <1>2 DEF Flow, Released
<1>4. ~ Answered("PUBREC", mid)'
  BY <1>1, <1>3, AnswerTaken DEF Answered
<1>5. outgoing[mid].qos = 2
  BY DEF Typed
<1>6. ~ Answered("PUBACK", mid)'
  <2>1. ~ Answered("PUBACK", mid)
    BY <1>5 DEF Flow, Acknowledged
  <2>. QED  BY <2>1, AnswerTaken
<1>. QED  BY <1>2, <1>3, <1>4, <1>6, FlowFinished

\* The broker gets a PUBREC and releases the message, or releases it again.
LEMMA FlowPubrec ==
    ASSUME Typed, Typed', NEW mid \in Mids, Flow(mid), back # <<>>, back' = Tail(back),
           back[1].type = "PUBREC", back[1].mid = mid, outgoing[mid].qos = 2,
           UNCHANGED <<in_messages, delivered>>,
           NEW p \in Packets, IsPubrel(p, mid), pending' = Append(pending, p),
           outgoing'[mid] = [outgoing[mid] EXCEPT !.stage = "release"]
    PROVE  Flow(mid)'
<1>1. outgoing[mid] # Free /\ outgoing[mid] \in Flows
  BY SMTT(30) DEF Free, Typed
<1>2. /\ outgoing'[mid] # Free /\ outgoing'[mid].qos = 2 /\ outgoing'[mid].stage = "release"
      /\ outgoing'[mid].msg = outgoing[mid].msg
  BY <1>1 DEF Flows, Free
<1>3. Says(1, "PUBREC", mid) /\ 1 \in DOMAIN back
  BY AnswerTaken
<1>4. Waiting(mid)' = Waiting(mid)
  BY WaitingSame
<1>5. /\ ~ IsPublish(p, mid)
      /\ \A i \in DOMAIN pending' : \/ i \in DOMAIN pending /\ pending'[i] = pending[i]
                                    \/ i = Len(pending) + 1 /\ pending'[i] = p
      /\ \A i \in DOMAIN pending : i \in Nat /\ i <= Len(pending)
      /\ Len(pending) \in Nat
  BY PendingAppend DEF IsPublish, IsPubrel
<1>6. \A i \in DOMAIN pending' : IsPublish(pending'[i], mid) =>
         i \in DOMAIN pending /\ IsPublish(pending[i], mid) /\ pending'[i] = pending[i]
  BY <1>5
<1>7. Published(mid)' => Published(mid)
  BY <1>6 DEF Published
<1>8. Waiting(mid) = {} => outgoing[mid].stage = "release" /\ ~ Published(mid)
  <2>1. Waiting(mid) = {} => outgoing[mid].stage # "publish"
    BY <1>3 DEF Flow, Unreleased, Answered
  <2>2. outgoing[mid].stage = "publish" \/ outgoing[mid].stage = "release"
    BY <1>1 DEF Flows
  <2>. QED  BY <2>1, <2>2 DEF Flow, Released
<1>9. Underway(mid)'
  <2>1. ASSUME NEW i \in DOMAIN pending', IsPublish(pending'[i], mid)
        PROVE  /\ outgoing'[mid] # Free
               /\ pending'[i].qos = outgoing'[mid].qos /\ pending'[i].msg = outgoing'[mid].msg
    BY <1>2, <1>6, <2>1 DEF Flow, Underway
  <2>2. ASSUME NEW i \in DOMAIN pending', NEW j \in DOMAIN pending',
               IsPublish(pending'[i], mid), IsPublish(pending'[j], mid)
        PROVE  i = j
    BY <1>6, <2>2 DEF Flow, Underway
  <2>3. Waiting(mid)' = {} => \A i \in DOMAIN pending' : ~ IsPublish(pending'[i], mid)
    BY <1>4, <1>7, <1>8 DEF Published
  <2>4. ASSUME Waiting(mid)' # {}, NEW i \in DOMAIN pending', NEW j \in DOMAIN pending', i < j,
               IsPubrel(pending'[i], mid), IsPublish(pending'[j], mid)
        PROVE  FALSE
    <3>1. j \in DOMAIN pending /\ IsPublish(pending[j], mid) /\ j <= Len(pending)
      BY <1>5, <1>6, <2>4
    <3>2. i # Len(pending) + 1
      BY <1>5, <2>4, <3>1
    <3>3. i \in DOMAIN pending /\ IsPubrel(pending[i], mid)
      BY <1>5, <2>4, <3>2
    <3>. QED  BY <1>4, <2>4, <3>1, <3>3 DEF Flow, Underway
  <2>. QED  BY <2>1, <2>2, <2>3, <2>4 DEF Underway
<1>10. Held(mid)'
  BY <1>2, <1>4 DEF Flow, Held
<1>11. Unreleased(mid)'
  BY <1>2 DEF Unreleased
<1>12. Released(mid)'
  <2>1. CASE Waiting(mid) = {}
    <3>1. /\ delivered[outgoing[mid].msg] = 1
          /\ \A i, j \in DOMAIN back : i < j => ~ (Says(i, "PUBCOMP", mid) /\ Says(j, "PUBREC", mid))
      BY <1>8, <2>1 DEF Flow, Released
    <3>2. (\A i, j \in DOMAIN back : i < j => ~ (Says(i, "PUBCOMP", mid) /\ Says(j, "PUBREC", mid)))'
      <4>1. BackKept(mid, 1)
        BY AnswerTaken
      <4>2. 1 \in {0, 1}
        OBVIOUS
      <4>. QED  BY <3>1, <4>1, <4>2, AnswersFrom
    <3>. QED  BY <1>2, <1>4, <1>7, <1>8, <2>1, <3>1, <3>2 DEF Released
  <2>2. CASE Waiting(mid) # {}
    <3>1. ~ Answered("PUBCOMP", mid)'
      <4>1. CASE outgoing[mid].stage = "release"
        BY <2>2, <4>1, AnswerTaken DEF Flow, Released
      <4>2. CASE outgoing[mid].stage = "publish"
        <5>1. \A j \in DOMAIN back : 1 < j => ~ Says(j, "PUBCOMP", mid)
          BY <1>3, <2>2, <4>2 DEF Flow, Unreleased
        <5>. QED  BY <5>1, AnswerTaken DEF Answered
      <4>3. outgoing[mid].stage = "publish" \/ outgoing[mid].stage = "release"
        BY <1>1 DEF Flows
      <4>. QED  BY <4>1, <4>2, <4>3
    <3>. QED  BY <1>4, <2>2, <3>1 DEF Released
  <2>. QED  BY <2>1, <2>2
<1>13. Acknowledged(mid)'
  <2>1. ~ Answered("PUBACK", mid)
    BY DEF Flow, Acknowledged
  <2>2. ~ Answered("PUBACK", mid)'
    BY <2>1, AnswerTaken
  <2>. QED  BY <1>2, <2>2 DEF Acknowledged, Answered
<1>. QED  BY <1>9, <1>10, <1>11, <1>12, <1>13 DEF Flow

-----------------------------------------------------------------------------
(* The steps, for all message ids.                                         *)

LEMMA SessionsFrom ==
    ASSUME Sessions, doubled \subseteq doubled',
           \A mid \in Mids \ doubled' : Flow(mid) => Flow(mid)',
           \A d \in done' : d.mid \notin doubled' => Finished(d)'
    PROVE  Sessions'
<1>1. \A mid \in Mids \ doubled' : Flow(mid)
  BY DEF Sessions, Flow
<1>2. \A mid \in Mids \ doubled' : Flow(mid)'
  BY <1>1
<1>. QED  BY <1>2 DEF Sessions, Flow

LEMMA FinishedFrom ==
    ASSUME Sessions, doubled \subseteq doubled', UNCHANGED <<done, outgoing>>,
           \A d \in done : d.mid \notin doubled' => delivered'[d.msg] = delivered[d.msg]
    PROVE  \A d \in done' : d.mid \notin doubled' => Finished(d)'
<1>1. ASSUME NEW d \in done', d.mid \notin doubled'
      PROVE  Finished(d)'
  <2>1. d \in done /\ Finished(d)
    BY <1>1 DEF Sessions
  <2>2. delivered'[d.msg] = delivered[d.msg] /\ outgoing'[d.mid] = outgoing[d.mid]
    BY <1>1, <2>1
  <2>. QED  BY <2>1, <2>2 DEF Finished
<1>. QED  BY <1>1

\* A message delivered is not that of another id, or of another QoS.
LEMMA DeliveredOthers ==
    ASSUME Typed, Owned, NEW x \in Known, x[3] \in Messages, OnMessage(x[3])
    PROVE  /\ delivered'[x[3]] = delivered[x[3]] + 1 /\ delivered[x[3]] \in Nat
           /\ \A mid \in Mids : outgoing[mid] # Free /\ (x[1] # mid \/ x[2] # outgoing[mid].qos)
                 => delivered'[outgoing[mid].msg] = delivered[outgoing[mid].msg]
           /\ \A d \in done : x[1] # d.mid \/ x[2] # d.qos \/ x[3] # d.msg
                 => delivered'[d.msg] = delivered[d.msg]
<1>1. /\ delivered'[x[3]] = delivered[x[3]] + 1 /\ delivered[x[3]] \in Nat
      /\ \A k \in Messages : k # x[3] => delivered'[k] = delivered[k]
  BY DeliveredType DEF Typed
<1>2. \A r \in Known : r[3] = x[3] => r = x
  BY DEF Owned
<1>3. ASSUME NEW mid \in Mids, outgoing[mid] # Free, x[1] # mid \/ x[2] # outgoing[mid].qos
      PROVE  delivered'[outgoing[mid].msg] = delivered[outgoing[mid].msg]
  <2>1. <<mid, outgoing[mid].qos, outgoing[mid].msg>> \in Known
    BY <1>3, KnownMembers
  <2>2. <<mid, outgoing[mid].qos, outgoing[mid].msg>> # x
    BY <1>3
  <2>3. outgoing[mid].msg # x[3]
    BY <1>2, <2>1, <2>2
  <2>4. outgoing[mid] \in Flows
    BY <1>3 DEF Typed
  <2>5. outgoing[mid].msg \in Messages
    BY <2>4 DEF Flows
  <2>. QED  BY <1>1, <2>3, <2>5
<1>4. ASSUME NEW d \in done, x[1] # d.mid \/ x[2] # d.qos \/ x[3] # d.msg
      PROVE  delivered'[d.msg] = delivered[d.msg]
  <2>1. <<d.mid, d.qos, d.msg>> \in Known
    BY KnownMembers
  <2>2. <<d.mid, d.qos, d.msg>> # x
    BY <1>4
  <2>3. d.msg # x[3]
    BY <1>2, <2>1, <2>2
  <2>4. d.msg \in Messages
    BY DEF Typed
  <2>. QED  BY <1>1, <2>3, <2>4
<1>. QED  BY <1>1, <1>3, <1>4

LEMMA BackOther ==
    ASSUME Typed, NEW type \in {"PUBACK", "PUBREC", "PUBCOMP"}, NEW m \in Mids,
           back' = Append(back, [type |-> type, mid |-> m]) \/ back' = back,
           NEW mid, mid # m
    PROVE  BackKept(mid, 0)
<1>. DEFINE a == [type |-> type, mid |-> m]
<1>1. a \in Answers /\ a.mid = m
  BY DEF Answers
<1>. HIDE DEF a
<1>2. back' = Append(back, a) \/ back' = back
  BY DEF a
<1>. QED  BY <1>1, <1>2, BackAppend, BackSame

LEMMA SessionsIdle ==
    ASSUME Typed, Typed', Sessions,
           UNCHANGED <<pending, in_messages, delivered, back, outgoing, done, doubled>>
    PROVE  Sessions'
<1>1. ASSUME NEW mid \in Mids, Flow(mid)  PROVE Flow(mid)'
  BY <1>1, FlowSame, PendingSame, BackSame, WaitingSame
<1>. QED  BY <1>1, SessionsFrom, FinishedFrom

\* A packet is handled that is none of a message id's.
LEMMA SessionsNothing ==
    ASSUME Typed, Typed', Sessions, pending # <<>>, pending' = Tail(pending),
           \A mid : ~ IsPublish(pending[1], mid),
           \A mid \in Mids : outgoing[mid] # Free =>
               delivered'[outgoing[mid].msg] = delivered[outgoing[mid].msg],
           \A d \in done : delivered'[d.msg] = delivered[d.msg],
           UNCHANGED <<in_messages, back, outgoing, done, doubled>>
    PROVE  Sessions'
<1>1. ASSUME NEW mid \in Mids, Flow(mid)  PROVE Flow(mid)'
  BY <1>1, FlowSame, PendingTail, BackSame, WaitingSame
<1>. QED  BY <1>1, SessionsFrom, FinishedFrom

LEMMA SessionsPublish0 ==
    ASSUME Reader, Owned, Sessions, Typed', HandlePublish0
    PROVE  Sessions'
<1>0. Typed
  BY DEF Reader
<1>1. /\ Publication(0) /\ OnMessage(Arrived.msg)
      /\ UNCHANGED <<in_messages, back, outgoing, done, doubled>>
  BY DEF HandlePublish0, brokerVars, countVars
<1>2. /\ pending # <<>> /\ Arrived = pending[1] /\ Arrived.qos = 0 /\ Arrived.mid = 0
      /\ Arrived.msg \in Messages /\ Arrived.msg # 0 /\ pending' = Tail(pending)
  BY <1>1, PublicationArrived DEF Handled
<1>. DEFINE x == <<pending[1].mid, pending[1].qos, pending[1].msg>>
<1>3. x \in Known /\ x[2] = 0 /\ x[3] = Arrived.msg
  BY <1>0, <1>2, FirstPacket, KnownMembers
<1>. HIDE DEF x
<1>4. ASSUME NEW mid \in Mids, outgoing[mid] # Free  PROVE outgoing[mid].qos # 0
  <2>1. outgoing[mid] \in Flows
    BY <1>0, <1>4 DEF Typed
  <2>. QED  BY <2>1 DEF Flows
<1>5. ASSUME NEW d \in done  PROVE d.qos # 0
  <2>1. d \in [msg : Messages, qos : 1 .. 2, mid : Mids]
    BY <1>0 DEF Typed
  <2>2. d.qos \in 1 .. 2
    BY <2>1
  <2>. QED  BY <2>2
<1>6. /\ \A mid \in Mids : outgoing[mid] # Free =>
            delivered'[outgoing[mid].msg] = delivered[outgoing[mid].msg]
      /\ \A d \in done : delivered'[d.msg] = delivered[d.msg]
  BY <1>0, <1>1, <1>2, <1>3, <1>4, <1>5, DeliveredOthers
<1>7. \A mid : ~ IsPublish(pending[1], mid)
  BY <1>2 DEF IsPublish
<1>. QED  BY <1>0, <1>1, <1>2, <1>6, <1>7, SessionsNothing

\* The message of an id is delivered: the broker is not done with it.
LEMMA FinishedOthers ==
    ASSUME Typed, Owned, Sessions, NEW x \in Known, x[3] \in Messages, OnMessage(x[3]),
           x[1] \in Mids, x[1] \notin doubled => x[3] = outgoing[x[1]].msg,
           UNCHANGED <<done, outgoing, doubled>>
    PROVE  \A d \in done' : d.mid \notin doubled' => Finished(d)'
<1>1. ASSUME NEW d \in done, d.mid \notin doubled
      PROVE  delivered'[d.msg] = delivered[d.msg]
  <2>1. outgoing[d.mid].msg # d.msg
    BY <1>1 DEF Sessions, Finished
  <2>2. x[1] # d.mid \/ x[3] # d.msg
    BY <1>1, <2>1
  <2>. QED  BY <2>2, DeliveredOthers
<1>. QED  BY <1>1, FinishedFrom

LEMMA SessionsPublish1 ==
    ASSUME Reader, Owned, Sessions, Typed', HandlePublish1
    PROVE  Sessions'
<1>0. Typed
  BY DEF Reader
<1>. DEFINE m == Arrived.mid
<1>1. /\ Publication(1) /\ OnMessage(Arrived.msg) /\ Answer("PUBACK", m)
      /\ UNCHANGED <<in_messages, outgoing, done, doubled>>
  BY DEF HandlePublish1, brokerVars, countVars
<1>2. /\ pending # <<>> /\ Arrived = pending[1] /\ Arrived.qos = 1 /\ m \in Mids
      /\ Arrived.msg \in Messages /\ Arrived.msg # 0 /\ pending' = Tail(pending)
      /\ Arrived.type = "PUBLISH"
  BY <1>1, PublicationArrived DEF Handled
<1>3. back' = Append(back, [type |-> "PUBACK", mid |-> m]) \/ back' = back
  BY <1>0, <1>1, <1>2, AnswerType
<1>. DEFINE x == <<pending[1].mid, pending[1].qos, pending[1].msg>>
<1>4. x \in Known /\ x[1] = m /\ x[2] = 1 /\ x[3] = Arrived.msg
  BY <1>0, <1>2, FirstPacket, KnownMembers
<1>5. IsPublish(pending[1], m) /\ \A mid : mid # m => ~ IsPublish(pending[1], mid)
  BY <1>2 DEF IsPublish
<1>. HIDE DEF x, m
<1>6. m \notin doubled => outgoing[m].msg = Arrived.msg
  BY <1>0, <1>2, <1>5, HeadPublish DEF Sessions
<1>7. ASSUME NEW mid \in Mids, Flow(mid)  PROVE Flow(mid)'
  <2>1. CASE mid = m
    <3>1. outgoing[m].msg = Arrived.msg
      BY <1>0, <1>2, <1>5, <1>7, <2>1, HeadPublish DEF Flow
    <3>2. delivered'[Arrived.msg] >= 1
      <4>1. delivered'[x[3]] = delivered[x[3]] + 1 /\ delivered[x[3]] \in Nat
        BY <1>0, <1>1, <1>2, <1>4, DeliveredOthers
      <4>. QED  BY <1>4, <4>1
    <3>. QED  BY <1>0, <1>1, <1>2, <1>3, <1>5, <1>7, <2>1, <3>1, <3>2,
       FlowPublish1
  <2>2. CASE mid # m
    <3>1. outgoing[mid] # Free => delivered'[outgoing[mid].msg] = delivered[outgoing[mid].msg]
      BY <1>0, <1>1, <1>2, <1>4, <2>2, DeliveredOthers
    <3>2. PendingKept(mid, 1) /\ WaitingKept(mid)
      BY <1>0, <1>1, <1>2, <1>5, <2>2, PendingTail, WaitingSame
    <3>3. BackKept(mid, 0)
      BY <1>0, <1>2, <1>3, <2>2, BackOther
    <3>. QED  BY <1>0, <1>1, <1>7, <3>1, <3>2, <3>3, FlowSame
  <2>. QED  BY <2>1, <2>2
<1>8. \A d \in done' : d.mid \notin doubled' => Finished(d)'
  BY <1>0, <1>1, <1>2, <1>4, <1>6, FinishedOthers
<1>. QED  BY <1>1, <1>7, <1>8, SessionsFrom

LEMMA SessionsPublish2 ==
    ASSUME Reader, Sessions, Typed', HandlePublish2
    PROVE  Sessions'
<1>0. Typed
  BY DEF Reader
<1>. DEFINE m == Arrived.mid
            e == [mid |-> m, msg |-> Arrived.msg]
<1>1. /\ Publication(2) /\ Answer("PUBREC", m)
      /\ in_messages' = Append(in_messages, e)
      /\ doubled' = IF \E i \in DOMAIN in_messages : in_messages[i].mid = m
                    THEN doubled \cup {m} ELSE doubled
      /\ UNCHANGED <<outgoing, done, delivered>>
  BY DEF HandlePublish2, brokerVars
<1>2. /\ pending # <<>> /\ Arrived = pending[1] /\ Arrived.qos = 2 /\ m \in Mids
      /\ Arrived.msg \in Messages /\ Arrived.msg # 0 /\ pending' = Tail(pending)
      /\ Arrived.type = "PUBLISH"
  BY <1>1, PublicationArrived DEF Handled
<1>3. back' = Append(back, [type |-> "PUBREC", mid |-> m]) \/ back' = back
  BY <1>0, <1>1, <1>2, AnswerType
<1>4. e \in Entries /\ e.mid = m /\ e.msg = pending[1].msg
  BY <1>2 DEF Entries
<1>5. IsPublish(pending[1], m) /\ \A mid : mid # m => ~ IsPublish(pending[1], mid)
  BY <1>2 DEF IsPublish
<1>6. doubled \subseteq doubled' /\ (m \notin doubled' => Waiting(m) = {})
  BY <1>1 DEF Waiting
<1>. HIDE DEF m, e
<1>7. ASSUME NEW mid \in Mids \ doubled', Flow(mid)  PROVE Flow(mid)'
  <2>1. CASE mid = m
    <3>1. Waiting(mid) = {} /\ pending[1].qos = 2
      BY <1>2, <1>6, <2>1
    <3>. QED  BY <1>0, <1>1, <1>2, <1>3, <1>4, <1>5, <1>7, <2>1, <3>1,
       FlowPublish2
  <2>2. CASE mid # m
    <3>1. PendingKept(mid, 1)
      BY <1>0, <1>2, <1>5, <2>2, PendingTail
    <3>2. WaitingKept(mid)
      BY <1>0, <1>1, <1>4, <2>2, WaitingAppend
    <3>3. BackKept(mid, 0)
      BY <1>0, <1>2, <1>3, <2>2, BackOther
    <3>. QED  BY <1>0, <1>1, <1>7, <3>1, <3>2, <3>3, FlowSame
  <2>. QED  BY <2>1, <2>2
<1>8. \A d \in done' : d.mid \notin doubled' => Finished(d)'
  BY <1>1, <1>6, FinishedFrom
<1>. QED  BY <1>6, <1>7, <1>8, SessionsFrom

LEMMA SessionsPubrel ==
    ASSUME Reader, Owned, Sessions, Typed', HandlePubrel
    PROVE  Sessions'
<1>0. Typed
  BY DEF Reader
<1>. DEFINE m == Arrived.mid
            o == Oldest(m)
<1>1. /\ Whole("PUBREL") /\ Handled /\ Waiting(m) # {} /\ OnMessage(in_messages[o].msg)
      /\ in_messages' = RemoveAt(in_messages, o) /\ Answer("PUBCOMP", m)
      /\ UNCHANGED <<outgoing, done, doubled>>
  BY DEF HandlePubrel, brokerVars, countVars
<1>2. /\ pending # <<>> /\ Arrived = pending[1] /\ m \in Mids /\ pending' = Tail(pending)
      /\ Arrived.type = "PUBREL"
  BY <1>1, PubrelArrived DEF Handled
<1>3. back' = Append(back, [type |-> "PUBCOMP", mid |-> m]) \/ back' = back
  BY <1>0, <1>1, <1>2, AnswerType
<1>4. /\ o \in Waiting(m) /\ o \in 1 .. Len(in_messages) /\ in_messages[o].mid = m
      /\ in_messages[o].msg \in Messages /\ o \in DOMAIN in_messages
  BY <1>0, <1>1, OldestWaits DEF Waiting
<1>5. IsPubrel(pending[1], m) /\ \A mid : ~ IsPublish(pending[1], mid)
  BY <1>2 DEF IsPublish, IsPubrel
<1>. HIDE DEF m, o
<1>. DEFINE x == <<in_messages[o].mid, 2, in_messages[o].msg>>
<1>6. x \in Known /\ x[1] = m /\ x[2] = 2 /\ x[3] = in_messages[o].msg
  BY <1>4, KnownMembers
<1>. HIDE DEF x
<1>7. ASSUME Held(m)  PROVE outgoing[m].msg = in_messages[o].msg /\ Waiting(m) = {o}
  BY <1>4, <1>7 DEF Held
<1>8. ASSUME NEW mid \in Mids, Flow(mid)  PROVE Flow(mid)'
  <2>1. CASE mid = m
    <3>1. outgoing[mid].msg = in_messages[o].msg /\ Waiting(mid) = {o}
      BY <1>1, <1>7, <1>8, <2>1 DEF Flow
    <3>2. delivered'[outgoing[mid].msg] = delivered[outgoing[mid].msg] + 1
      BY <1>0, <1>1, <1>4, <1>6, <3>1, DeliveredOthers
    <3>3. Waiting(mid)' = {}
      BY <1>0, <1>1, <1>4, <2>1, <3>1, WaitingRemove
    <3>4. back' = Append(back, [type |-> "PUBCOMP", mid |-> mid]) \/ back' = back
      BY <1>3, <2>1
    <3>5. IsPubrel(pending[1], mid) /\ Waiting(mid) # {}
      BY <1>1, <1>5, <2>1
    <3>. QED  BY <1>0, <1>1, <1>2, <1>8, <3>2, <3>3, <3>4, <3>5, FlowPubrel
  <2>2. CASE mid # m
    <3>1. outgoing[mid] # Free => delivered'[outgoing[mid].msg] = delivered[outgoing[mid].msg]
      BY <1>0, <1>1, <1>4, <1>6, <2>2, DeliveredOthers
    <3>2. PendingKept(mid, 1)
      BY <1>0, <1>2, <1>5, PendingTail
    <3>3. WaitingKept(mid)
      BY <1>0, <1>1, <1>4, <2>2, WaitingRemove
    <3>4. BackKept(mid, 0)
      BY <1>0, <1>2, <1>3, <2>2, BackOther
    <3>. QED  BY <1>0, <1>1, <1>8, <3>1, <3>2, <3>3, <3>4, FlowSame
  <2>. QED  BY <2>1, <2>2
<1>9. \A d \in done' : d.mid \notin doubled' => Finished(d)'
  <2>1. m \notin doubled => x[3] = outgoing[x[1]].msg
    BY <1>2, <1>6, <1>7 DEF Sessions
  <2>. QED  BY <1>0, <1>1, <1>2, <1>4, <1>6, <2>1, FinishedOthers
<1>. QED  BY <1>1, <1>8, <1>9, SessionsFrom

LEMMA SessionsPubrelAgain ==
    ASSUME Reader, Sessions, Typed', HandlePubrelAgain
    PROVE  Sessions'
<1>0. Typed
  BY DEF Reader
<1>. DEFINE m == Arrived.mid
<1>1. /\ Whole("PUBREL") /\ Handled /\ Waiting(m) = {} /\ Answer("PUBCOMP", m)
      /\ UNCHANGED <<in_messages, delivered, outgoing, done, doubled>>
  BY DEF HandlePubrelAgain, brokerVars, countVars
<1>2. /\ pending # <<>> /\ Arrived = pending[1] /\ m \in Mids /\ pending' = Tail(pending)
      /\ Arrived.type = "PUBREL"
  BY <1>1, PubrelArrived DEF Handled
<1>3. back' = Append(back, [type |-> "PUBCOMP", mid |-> m]) \/ back' = back
  BY <1>0, <1>1, <1>2, AnswerType
<1>5. IsPubrel(pending[1], m) /\ \A mid : ~ IsPublish(pending[1], mid)
  BY <1>2 DEF IsPublish, IsPubrel
<1>. HIDE DEF m
<1>8. ASSUME NEW mid \in Mids, Flow(mid)  PROVE Flow(mid)'
  <2>1. CASE mid = m
    BY <1>0, <1>1, <1>2, <1>3, <1>5, <1>8, <2>1, FlowPubrelAgain
  <2>2. CASE mid # m
    <3>1. PendingKept(mid, 1) /\ WaitingKept(mid)
      BY <1>0, <1>1, <1>2, <1>5, PendingTail, WaitingSame
    <3>2. BackKept(mid, 0)
      BY <1>0, <1>2, <1>3, <2>2, BackOther
    <3>. QED  BY <1>0, <1>1, <1>8, <3>1, <3>2, FlowSame
  <2>. QED  BY <2>1, <2>2
<1>. QED  BY <1>1, <1>8, SessionsFrom, FinishedFrom

LEMMA SessionsHandle ==
    ASSUME Reader, Owned, Sessions, Typed', Handle
    PROVE  Sessions'
<1>1. CASE HandlePingresp \/ HandleMalformed
  <2>1. /\ Typed /\ pending # <<>> /\ pending' = Tail(pending) /\ pending[1].msg = 0
        /\ UNCHANGED <<in_messages, delivered, back, outgoing, done, doubled>>
    BY <1>1, NothingArrived DEF Reader, Handled, HandlePingresp,
       HandleMalformed, brokerVars, countVars
  <2>2. \A mid : ~ IsPublish(pending[1], mid)
    BY <2>1 DEF IsPublish
  <2>. QED  BY <2>1, <2>2, SessionsNothing
<1>. QED
  BY <1>1, SessionsPublish0, SessionsPublish1, SessionsPublish2,
     SessionsPubrel, SessionsPubrelAgain DEF Handle

LEMMA SessionsRetry ==
    ASSUME Typed, Sessions, Typed', RetryPubrec
    PROVE  Sessions'
<1>1. PICK i \in DOMAIN in_messages :
         back' = Append(back, [type |-> "PUBREC", mid |-> in_messages[i].mid])
  BY DEF RetryPubrec
<1>2. UNCHANGED <<pending, in_messages, delivered, outgoing, done, doubled>>
  BY DEF RetryPubrec, clientVars, brokerVars
<1>. DEFINE m == in_messages[i].mid
<1>3. m \in Mids
  <2>1. in_messages[i] \in Entries
    BY DEF Typed
  <2>. QED  BY <2>1 DEF Entries
<1>4. i \in Waiting(m)
  BY DEF Waiting
<1>5. back' = Append(back, [type |-> "PUBREC", mid |-> m]) \/ back' = back
  BY <1>1
<1>. HIDE DEF m
<1>6. ASSUME NEW mid \in Mids, Flow(mid)  PROVE Flow(mid)'
  <2>1. CASE mid = m
    <3>1. Waiting(mid) # {}
      BY <1>4, <2>1
    <3>2. back' = Append(back, [type |-> "PUBREC", mid |-> mid]) \/ back' = back
      BY <1>5, <2>1
    <3>. QED  BY <1>2, <1>6, <3>1, <3>2, FlowRetry
  <2>2. CASE mid # m
    <3>1. BackKept(mid, 0)
      BY <1>3, <1>5, <2>2, BackOther
    <3>. QED  BY <1>2, <1>6, <3>1, FlowSame, PendingSame, WaitingSame
  <2>. QED  BY <2>1, <2>2
<1>. QED  BY <1>2, <1>6, SessionsFrom, FinishedFrom

\* The broker sends a packet that is none of a message id's.
LEMMA SessionsSent ==
    ASSUME Typed, Typed', NEW p \in Packets, pending' = Append(pending, p), NEW mid \in Mids,
           ~ Concerns(p, mid), Flow(mid), outgoing'[mid] = outgoing[mid],
           UNCHANGED <<in_messages, delivered, back>>
    PROVE  Flow(mid)'
BY PendingAppend, FlowSame, BackSame, WaitingSame

LEMMA SessionsOther ==
    ASSUME Typed, Sessions, Typed', BrokerSendsOther
    PROVE  Sessions'
<1>1. PICK p \in Malformed \cup {Pingresp} : Send(p)
  BY DEF BrokerSendsOther
<1>2. p \in Packets /\ pending' = Append(pending, p)
  BY <1>1, SomePackets DEF Send
<1>3. p.msg = 0 /\ p.type # "PUBREL"
  BY DEF Malformed, Pingresp, Publish
<1>4. UNCHANGED <<in_messages, delivered, back, outgoing, done, doubled>>
  BY DEF BrokerSendsOther, clientVars, brokerVars, countVars
<1>5. ASSUME NEW mid \in Mids, Flow(mid)  PROVE Flow(mid)'
  <2>1. ~ Concerns(p, mid)
    BY <1>3 DEF Concerns, IsPublish, IsPubrel
  <2>. QED  BY <1>2, <1>4, <1>5, <2>1, SessionsSent
<1>. QED  BY <1>4, <1>5, SessionsFrom, FinishedFrom

LEMMA SessionsPublished ==
    ASSUME Typed, Owned, Sessions, Typed', BrokerPublishes
    PROVE  Sessions'
<1>1. PICK qos \in 0 .. 2, m \in Mids \cup {0} :
         LET p == Publish(made + 1, qos, m, qos + 1) IN
         /\ p \in Packets /\ pending' = Append(pending, p)
         /\ made + 1 \in Messages /\ made' = made + 1
         /\ UNCHANGED <<in_messages, delivered, back, done, doubled>>
         /\ qos = 0 => outgoing' = outgoing /\ m = 0
         /\ qos # 0 => /\ m \in Mids /\ outgoing[m] = Free
                       /\ outgoing' = [outgoing EXCEPT ![m] =
                             [msg |-> made + 1, qos |-> qos, stage |-> "publish"]]
  BY BrokerPublished
<1>. DEFINE p == Publish(made + 1, qos, m, qos + 1)
            o == [msg |-> made + 1, qos |-> qos, stage |-> "publish"]
<1>2. /\ p \in Packets /\ pending' = Append(pending, p) /\ made + 1 \in Messages
      /\ UNCHANGED <<in_messages, delivered, back, done, doubled>>
  BY <1>1
<1>3. /\ p.type = "PUBLISH" /\ p.mid = m /\ p.qos = qos /\ p.msg = made + 1 /\ made + 1 # 0
      /\ o.msg = made + 1 /\ o.qos = qos /\ o.stage = "publish"
  BY <1>2 DEF Publish, Messages
<1>4. delivered[made + 1] = 0
  <2>1. made + 1 > made
    BY DEF Typed
  <2>. QED  BY <1>2, <2>1 DEF Owned
<1>5. /\ \A mid \in Mids : mid # m \/ qos = 0 => outgoing'[mid] = outgoing[mid]
      /\ qos # 0 => m \in Mids /\ outgoing[m] = Free /\ outgoing'[m] = o
  <2>1. outgoing \in [Mids -> Flows \cup {Free}]
    BY DEF Typed
  <2>. QED  BY <1>1, <2>1
<1>6. qos # 0 => o # Free
  BY <1>3 DEF Free
<1>. HIDE DEF p, o
<1>7. ASSUME NEW mid \in Mids, Flow(mid)  PROVE Flow(mid)'
  <2>1. CASE mid = m /\ qos # 0
    <3>1. IsPublish(p, mid)
      BY <1>3, <2>1 DEF IsPublish
    <3>2. /\ outgoing[mid] = Free /\ outgoing'[mid] = o /\ outgoing'[mid] # Free
      BY <1>5, <1>6, <2>1
    <3>3. /\ outgoing'[mid].qos = p.qos /\ outgoing'[mid].msg = p.msg
          /\ outgoing'[mid].stage = "publish" /\ delivered[p.msg] = 0
      BY <1>3, <1>4, <3>2
    <3>. QED  BY <1>2, <1>7, <3>1, <3>2, <3>3, FlowTaken
  <2>2. CASE mid # m \/ qos = 0
    <3>1. ~ Concerns(p, mid)
      BY <1>3, <2>2 DEF Concerns, IsPublish, IsPubrel
    <3>. QED  BY <1>2, <1>5, <1>7, <2>2, <3>1, SessionsSent
  <2>. QED  BY <2>1, <2>2
<1>8. ASSUME NEW d \in done', d.mid \notin doubled'  PROVE Finished(d)'
  <2>1. d \in done /\ d.mid \notin doubled /\ Finished(d) /\ delivered' = delivered
    BY <1>2, <1>8 DEF Sessions
  <2>2. d \in [msg : Messages, qos : 1 .. 2, mid : Mids]
    BY <2>1 DEF Typed
  <2>3. d.mid \in Mids
    BY <2>2
  <2>4. d.msg # made + 1
    <3>1. <<d.mid, d.qos, d.msg>> \in Known
      BY <2>1, KnownMembers
    <3>2. <<d.mid, d.qos, d.msg>>[3] <= made
      BY <3>1 DEF Owned
    <3>3. d.msg <= made /\ made \in Nat
      BY <3>2 DEF Typed
    <3>. QED  BY <3>3
  <2>5. outgoing'[d.mid].msg # d.msg
    <3>1. CASE d.mid = m /\ qos # 0
      BY <1>3, <1>5, <2>4, <3>1
    <3>2. CASE d.mid # m \/ qos = 0
      BY <1>5, <2>1, <2>3, <3>2 DEF Finished
    <3>. QED  BY <3>1, <3>2
  <2>. QED  BY <2>1, <2>5 DEF Finished
<1>. QED  BY <1>2, <1>7, <1>8, SessionsFrom

\* The broker repeats what it has not done with: each id once.
LEMMA FlowRepeated ==
    ASSUME Typed, Typed', NEW mid \in Mids, Flow(mid),
           UNCHANGED <<outgoing, delivered, in_messages>>, back' = <<>>,
           NEW order \in Bijection(1 .. Cardinality(Open), Open),
           pending' = [i \in DOMAIN order |-> Repeated(order[i])]
    PROVE  Flow(mid)'
<1>1. /\ DOMAIN order = 1 .. Cardinality(Open)
      /\ \A i \in DOMAIN order : order[i] \in Open
      /\ \A i, j \in DOMAIN order : order[i] = order[j] => i = j
      /\ \A id \in Open : \E i \in DOMAIN order : order[i] = id
  <2>1. order \in [1 .. Cardinality(Open) -> Open] /\ IsInjective(order)
    BY DEF Bijection, Injection
  <2>2. \A id \in Open : \E i \in 1 .. Cardinality(Open) : order[i] = id
    BY DEF Bijection, Surjection
  <2>3. \A i, j \in DOMAIN order : order[i] = order[j] => i = j
    BY <2>1 DEF IsInjective
  <2>. QED  BY <2>1, <2>2, <2>3
<1>2. DOMAIN pending' = DOMAIN order /\ \A i \in DOMAIN order : pending'[i] = Repeated(order[i])
  OBVIOUS
<1>3. ASSUME NEW i \in DOMAIN pending'
      PROVE  /\ IsPublish(pending'[i], mid) =>
                   /\ order[i] = mid /\ outgoing[mid] # Free /\ outgoing[mid].stage # "release"
                   /\ pending'[i].qos = outgoing[mid].qos /\ pending'[i].msg = outgoing[mid].msg
             /\ IsPubrel(pending'[i], mid) => order[i] = mid /\ outgoing[mid].stage = "release"
  <2>1. pending'[i] = Repeated(order[i]) /\ order[i] \in Open
    BY <1>1, <1>2
  <2>2. outgoing[order[i]] # Free
    BY <2>1 DEF Open
  <2>. QED  BY <2>1, <2>2 DEF Repeated, Publish, Pubrel, IsPublish, IsPubrel
<1>4. ASSUME outgoing[mid].qos = 2, outgoing[mid].stage = "publish"
      PROVE  Published(mid)'
  <2>1. mid \in Open
    BY <1>4 DEF Open, Free
  <2>2. PICK i \in DOMAIN order : order[i] = mid
    BY <1>1, <2>1
  <2>3. outgoing[mid] \in Flows
    BY <2>1 DEF Typed, Open
  <2>4. outgoing[mid].msg # 0
    BY <2>3 DEF Flows, Messages
  <2>5. pending'[i] = Repeated(mid)
    BY <1>2, <2>2
  <2>6. IsPublish(pending'[i], mid)
    BY <1>4, <2>4, <2>5 DEF Repeated, Publish, IsPublish
  <2>. QED  BY <1>2, <2>2, <2>6 DEF Published
<1>5. /\ outgoing' = outgoing /\ delivered' = delivered /\ in_messages' = in_messages
      /\ Waiting(mid)' = Waiting(mid) /\ DOMAIN back' = {}
  BY DEF Waiting
<1>6. /\ \A type : ~ Answered(type, mid)'
      /\ outgoing[mid].stage = "release" => ~ Published(mid)'
  BY <1>3, <1>5 DEF Answered, Published
<1>7. Underway(mid)'
  <2>1. \A i, j \in DOMAIN pending' :
           IsPublish(pending'[i], mid) /\ IsPublish(pending'[j], mid) => i = j
    BY <1>1, <1>2, <1>3
  <2>. QED  BY <1>3, <1>5, <2>1 DEF Underway
<1>8. Held(mid)'
  BY <1>5 DEF Flow, Held
<1>9. Unreleased(mid)'
  BY <1>4, <1>5, <1>6 DEF Flow, Unreleased
<1>10. Released(mid)'
  BY <1>5, <1>6 DEF Flow, Released
<1>11. Acknowledged(mid)'
  BY <1>5, <1>6 DEF Acknowledged
<1>. QED  BY <1>7, <1>8, <1>9, <1>10, <1>11 DEF Flow

LEMMA SessionsReconnect ==
    ASSUME Typed, Sessions, Typed', Reconnect
    PROVE  Sessions'
<1>1. /\ back' = <<>>
      /\ clean => /\ outgoing' = [mid \in Mids |-> Free] /\ pending' = <<>>
                  /\ doubled' = doubled \cup {in_messages[i].mid : i \in DOMAIN in_messages}
      /\ ~ clean => /\ \E order \in Bijection(1 .. Cardinality(Open), Open) :
                          pending' = [i \in DOMAIN order |-> Repeated(order[i])]
                    /\ outgoing' = outgoing /\ doubled' = doubled
      /\ UNCHANGED <<in_messages, delivered, done>>
  BY Comeback
<1>2. CASE clean
  <2>1. /\ outgoing' = [mid \in Mids |-> Free] /\ DOMAIN pending' = {} /\ DOMAIN back' = {}
        /\ doubled \subseteq doubled'
        /\ \A i \in DOMAIN in_messages : in_messages[i].mid \in doubled'
    BY <1>1, <1>2
  <2>2. ASSUME NEW mid \in Mids \ doubled'  PROVE Flow(mid)'
    <3>1. Waiting(mid)' = {} /\ outgoing'[mid] = Free
      BY <1>1, <2>1, <2>2 DEF Waiting
    <3>2. ~ Published(mid)' /\ \A type : ~ Answered(type, mid)'
      BY <2>1 DEF Published, Answered
    <3>3. Free.qos = 0 /\ Free.stage = "none"
      BY DEF Free
    <3>4. Underway(mid)' /\ Held(mid)'
      BY <2>1, <3>1 DEF Underway, Held
    <3>5. Unreleased(mid)' /\ Released(mid)'
      BY <3>1, <3>3 DEF Unreleased, Released
    <3>6. Acknowledged(mid)'
      BY <2>1, <3>2 DEF Acknowledged
    <3>. QED  BY <3>4, <3>5, <3>6 DEF Flow
  <2>3. ASSUME NEW d \in done', d.mid \notin doubled'  PROVE Finished(d)'
    <3>1. d \in done /\ d.mid \notin doubled /\ Finished(d) /\ delivered' = delivered
      BY <1>1, <2>1, <2>3 DEF Sessions
    <3>2. d \in [msg : Messages, qos : 1 .. 2, mid : Mids]
      BY <3>1 DEF Typed
    <3>3. d.mid \in Mids /\ d.msg \in Messages
      BY <3>2
    <3>4. outgoing'[d.mid].msg # d.msg
      BY <2>1, <3>3 DEF Free, Messages
    <3>. QED  BY <3>1, <3>4 DEF Finished
  <2>. QED  BY <2>1, <2>2, <2>3, SessionsFrom
<1>3. CASE ~ clean
  <2>1. PICK order \in Bijection(1 .. Cardinality(Open), Open) :
           pending' = [i \in DOMAIN order |-> Repeated(order[i])]
    BY <1>1, <1>3
  <2>2. UNCHANGED <<outgoing, doubled, in_messages, delivered, done>>
    BY <1>1, <1>3
  <2>3. \A mid \in Mids : Flow(mid) => Flow(mid)'
    BY <1>1, <2>1, <2>2, FlowRepeated
  <2>. QED  BY <2>2, <2>3, SessionsFrom, FinishedFrom
<1>. QED  BY <1>2, <1>3

\* The broker is done with a message more.
LEMMA FinishedDone ==
    ASSUME Typed, Sessions, NEW m \in Mids, outgoing[m].qos \in 1 .. 2,
           Finish(m), UNCHANGED <<delivered, doubled>>,
           m \notin doubled =>
               IF outgoing[m].qos = 2 THEN delivered[outgoing[m].msg] = 1
                                      ELSE delivered[outgoing[m].msg] >= 1
    PROVE  \A d \in done' : d.mid \notin doubled' => Finished(d)'
<1>. DEFINE new == [msg |-> outgoing[m].msg, qos |-> outgoing[m].qos, mid |-> m]
<1>1. outgoing' = [outgoing EXCEPT ![m] = Free] /\ done' = done \cup {new}
  BY DEF Finish
<1>2. \A mid \in Mids : outgoing'[mid] = IF mid = m THEN Free ELSE outgoing[mid]
  BY <1>1 DEF Typed
<1>3. new.mid = m /\ new.msg = outgoing[m].msg /\ new.qos = outgoing[m].qos
  OBVIOUS
<1>4. outgoing[m].msg # 0
  <2>1. outgoing[m] \in Flows
    BY DEF Typed, Free
  <2>. QED  BY <2>1 DEF Flows, Messages
<1>. HIDE DEF new
<1>5. ASSUME NEW d \in done', d.mid \notin doubled'  PROVE Finished(d)'
  <2>1. CASE d = new
    <3>1. outgoing'[d.mid].msg # d.msg
      BY <1>2, <1>3, <1>4, <2>1 DEF Free
    <3>2. IF d.qos = 2 THEN delivered[d.msg] = 1 ELSE delivered[d.msg] >= 1
      BY <1>3, <1>5, <2>1
    <3>. QED  BY <3>1, <3>2 DEF Finished
  <2>2. CASE d # new
    <3>1. d \in done /\ Finished(d)
      BY <1>1, <1>5, <2>2 DEF Sessions
    <3>2. d \in [msg : Messages, qos : 1 .. 2, mid : Mids]
      BY <3>1 DEF Typed
    <3>3. d.mid \in Mids /\ d.msg \in Messages /\ d.msg # 0
      BY <3>2 DEF Messages
    <3>4. outgoing'[d.mid].msg # d.msg
      BY <1>2, <3>1, <3>3 DEF Finished, Free
    <3>. QED  BY <3>1, <3>4 DEF Finished
  <2>. QED  BY <2>1, <2>2
<1>. QED  BY <1>5

LEMMA SessionsGets ==
    ASSUME Typed, Sessions, Typed', BrokerGets
    PROVE  Sessions'
<1>. DEFINE a == back[1]
            m == a.mid
            o == outgoing[m]
<1>1. /\ back # <<>> /\ back' = Tail(back) /\ Head(back) = a /\ m \in Mids
      /\ UNCHANGED <<in_messages, delivered, doubled>>
  BY FirstAnswer DEF BrokerGets, clientVars, countVars
<1>2. /\ o \in Flows \cup {Free}
      /\ o.stage = "release" => o.qos = 2
  BY <1>1 DEF Typed
<1>3. \/ a.type = "PUBACK" /\ o.qos = 1 /\ Finish(m) /\ UNCHANGED <<pending, stream>>
      \/ /\ a.type = "PUBREC" /\ o.qos = 2
         /\ outgoing' = [outgoing EXCEPT ![m].stage = "release"]
         /\ Send(Pubrel(m)) /\ UNCHANGED done
      \/ a.type = "PUBCOMP" /\ o.stage = "release" /\ Finish(m) /\ UNCHANGED <<pending, stream>>
      \/ UNCHANGED <<outgoing, done, pending, stream>>
  BY <1>1 DEF BrokerGets
<1>4. outgoing \in [Mids -> Flows \cup {Free}]
  BY DEF Typed
<1>5. Finish(m) => /\ outgoing'[m] = Free
                   /\ \A mid \in Mids : mid # m => outgoing'[mid] = outgoing[mid]
  BY <1>1, <1>4 DEF Finish
<1>. HIDE DEF a
<1>6. \A mid : BackKept(mid, 1)
  BY <1>1, BackTail
<1>7. CASE a.type = "PUBACK" /\ o.qos = 1 /\ Finish(m) /\ UNCHANGED <<pending, stream>>
  <2>1. ASSUME NEW mid \in Mids, Flow(mid)  PROVE Flow(mid)'
    <3>1. CASE mid = m
      <4>1. back[1].type = "PUBACK" /\ back[1].mid = mid
        BY <1>7, <3>1 DEF a
      <4>2. /\ outgoing[mid].qos = 1 /\ outgoing'[mid] = Free
            /\ UNCHANGED <<pending, in_messages, delivered>>
        BY <1>1, <1>5, <1>7, <3>1
      <4>. QED  BY <1>1, <2>1, <4>1, <4>2, FlowPuback
    <3>2. CASE mid # m
      BY <1>1, <1>5, <1>6, <1>7, <2>1, <3>2, FlowSame, PendingSame,
         WaitingSame
    <3>. QED  BY <3>1, <3>2
  <2>2. ASSUME m \notin doubled  PROVE delivered[o.msg] >= 1
    <3>1. Flow(m)
      BY <1>1, <2>2 DEF Sessions, Flow
    <3>2. back[1].type = "PUBACK" /\ back[1].mid = m
      BY <1>7 DEF a
    <3>3. /\ outgoing[m].qos = 1 /\ outgoing'[m] = Free
          /\ UNCHANGED <<pending, in_messages, delivered>>
      BY <1>1, <1>5, <1>7
    <3>4. delivered[outgoing[m].msg] >= 1
      <4>. HIDE DEF m
      <4>. QED  BY <1>1, <3>1, <3>2, <3>3, FlowPuback
    <3>. QED  BY <3>4
  <2>3. \A d \in done' : d.mid \notin doubled' => Finished(d)'
    BY <1>1, <1>7, <2>2, FinishedDone
  <2>. QED  BY <1>1, <2>1, <2>3, SessionsFrom
<1>8. CASE /\ a.type = "PUBREC" /\ o.qos = 2
           /\ outgoing' = [outgoing EXCEPT ![m].stage = "release"]
           /\ Send(Pubrel(m)) /\ UNCHANGED done
  <2>. DEFINE p == Pubrel(m)
  <2>1. /\ p \in Packets /\ p.type = "PUBREL" /\ p.mid = m /\ pending' = Append(pending, p)
    BY <1>1, <1>8, SomePackets DEF Pubrel, Send
  <2>2. o \in Flows
    BY <1>2, <1>8 DEF Free
  <2>3. /\ outgoing'[m] = [o EXCEPT !.stage = "release"] /\ outgoing'[m].msg = o.msg
        /\ \A mid \in Mids : mid # m => outgoing'[mid] = outgoing[mid]
    BY <1>1, <1>4, <1>8, <2>2 DEF Flows
  <2>. HIDE DEF p
  <2>4. ASSUME NEW mid \in Mids, Flow(mid)  PROVE Flow(mid)'
    <3>1. CASE mid = m
      <4>1. back[1].type = "PUBREC" /\ back[1].mid = mid /\ outgoing[mid].qos = 2
        BY <1>8, <3>1 DEF a
      <4>2. outgoing'[mid] = [outgoing[mid] EXCEPT !.stage = "release"] /\ IsPubrel(p, mid)
        BY <2>1, <2>3, <3>1 DEF IsPubrel
      <4>. QED  BY <1>1, <2>1, <2>4, <4>1, <4>2, FlowPubrec
    <3>2. CASE mid # m
      <4>1. ~ Concerns(p, mid)
        BY <2>1, <3>2 DEF Concerns, IsPublish, IsPubrel
      <4>2. PendingKept(mid, 0)
        BY <2>1, <4>1, PendingAppend
      <4>. QED  BY <1>1, <1>6, <2>3, <2>4, <3>2, <4>2, FlowSame, WaitingSame
    <3>. QED  BY <3>1, <3>2
  <2>5. ASSUME NEW d \in done', d.mid \notin doubled'  PROVE Finished(d)'
    <3>1. d \in done /\ Finished(d)
      BY <1>1, <1>8, <2>5 DEF Sessions
    <3>2. d \in [msg : Messages, qos : 1 .. 2, mid : Mids]
      BY <3>1 DEF Typed
    <3>3. outgoing'[d.mid].msg = outgoing[d.mid].msg
      BY <2>3, <3>2
    <3>. QED  BY <1>1, <3>1, <3>3 DEF Finished
  <2>. QED  BY <1>1, <2>4, <2>5, SessionsFrom
<1>9. CASE a.type = "PUBCOMP" /\ o.stage = "release" /\ Finish(m) /\ UNCHANGED <<pending, stream>>
  <2>1. ASSUME NEW mid \in Mids, Flow(mid)  PROVE Flow(mid)'
    <3>1. CASE mid = m
      <4>1. back[1].type = "PUBCOMP" /\ back[1].mid = mid
        BY <1>9, <3>1 DEF a
      <4>2. /\ outgoing[mid].stage = "release" /\ outgoing'[mid] = Free
            /\ UNCHANGED <<pending, in_messages, delivered>>
        BY <1>1, <1>5, <1>9, <3>1
      <4>. QED  BY <1>1, <2>1, <4>1, <4>2, FlowPubcomp
    <3>2. CASE mid # m
      BY <1>1, <1>5, <1>6, <1>9, <2>1, <3>2, FlowSame, PendingSame,
         WaitingSame
    <3>. QED  BY <3>1, <3>2
  <2>2. ASSUME m \notin doubled  PROVE delivered[o.msg] = 1
    <3>1. Flow(m)
      BY <1>1, <2>2 DEF Sessions, Flow
    <3>2. back[1].type = "PUBCOMP" /\ back[1].mid = m
      BY <1>9 DEF a
    <3>3. /\ outgoing[m].stage = "release" /\ outgoing'[m] = Free
          /\ UNCHANGED <<pending, in_messages, delivered>>
      BY <1>1, <1>5, <1>9
    <3>4. delivered[outgoing[m].msg] = 1
      <4>. HIDE DEF m
      <4>. QED  BY <1>1, <3>1, <3>2, <3>3, FlowPubcomp
    <3>. QED  BY <3>4
  <2>3. \A d \in done' : d.mid \notin doubled' => Finished(d)'
    BY <1>1, <1>2, <1>9, <2>2, FinishedDone
  <2>. QED  BY <1>1, <2>1, <2>3, SessionsFrom
<1>10. CASE UNCHANGED <<outgoing, done, pending, stream>>
  <2>1. ASSUME NEW mid \in Mids, Flow(mid)  PROVE Flow(mid)'
    BY <1>1, <1>6, <1>10, <2>1, FlowSame, PendingSame, WaitingSame
  <2>. QED  BY <1>1, <1>10, <2>1, SessionsFrom, FinishedFrom
<1>. QED  BY <1>3, <1>7, <1>8, <1>9, <1>10

LEMMA SessionsStep ==
    ASSUME Reader, Owned, Sessions, Next
    PROVE  Sessions'
<1>1. Typed /\ Typed'
  BY ReaderStep DEF Reader
<1>2. CASE Read \/ Lose
  <2>1. UNCHANGED <<pending, in_messages, delivered, back, outgoing, done, doubled>>
    BY <1>2 DEF Read, ReadCommand, ReadLength, ReadLengthFails, ReadBody,
       Lose, clientVars, brokerVars, countVars
  <2>. QED  BY <1>1, <2>1, SessionsIdle
<1>. QED
  BY <1>1, <1>2, SessionsHandle, SessionsRetry, SessionsReconnect,
     SessionsPublished, SessionsOther, SessionsGets DEF Next

-----------------------------------------------------------------------------
(* The theorems.                                                           *)

LEMMA InitIInv ==
    ASSUME Init
    PROVE  IInv
<1>. USE DEF Init
<1>1. Typed
  BY ConstantTypes DEF Typed, Free, Messages
<1>2. ReaderTyped
  <2>1. 0 \in 0 .. MaxDigits /\ Weight[0] = 1
    BY ConstantTypes, WeightValue
  <2>. QED  BY <2>1 DEF ReaderTyped, NoPacket
<1>3. in_packet.command = <<>>
  BY DEF NoPacket
<1>4. Reading
  BY <1>3, BytesEmpty DEF Reading
<1>5. Framing
  <2>1. Gathered = <<>>
    BY <1>3 DEF Gathered
  <2>2. Gathered \o stream = <<>>
    BY <2>1
  <2>. QED  BY <2>2, BytesEmpty DEF Framing
<1>6. Owned
  <2>1. Known = {}
    BY DEF Known, Open
  <2>. QED  BY <2>1 DEF Owned
<1>7. Sessions
  <2>1. ASSUME NEW mid \in Mids  PROVE Flow(mid)
    <3>1. outgoing[mid] = Free /\ Free.qos = 0 /\ Free.stage = "none" /\ Waiting(mid) = {}
      BY DEF Free, Waiting
    <3>2. DOMAIN pending = {} /\ DOMAIN back = {}
      OBVIOUS
    <3>. HIDE DEF Init
    <3>3. Underway(mid) /\ Held(mid) /\ Unreleased(mid) /\ Released(mid)
      BY <3>1, <3>2 DEF Underway, Held, Unreleased, Released
    <3>4. Acknowledged(mid)
      BY <3>2 DEF Acknowledged, Answered
    <3>. QED  BY <3>3, <3>4 DEF Flow
  <2>. QED  BY <2>1 DEF Flow, Sessions
<1>. QED  BY <1>1, <1>2, <1>4, <1>5, <1>6, <1>7 DEF IInv

LEMMA IdleIInv ==
    ASSUME IInv, UNCHANGED vars
    PROVE  IInv'
<1>1. UNCHANGED <<conn, stream, pending, in_packet, in_messages, delivered, back, clean,
                  outgoing, made, done, doubled, reconnects, retries>>
  BY DEF vars, clientVars, brokerVars, countVars
<1>2. Reader /\ Owned /\ Sessions
  BY DEF IInv, Reader
<1>3. Typed'
  BY <1>1, <1>2 DEF Reader, Typed
<1>4. ReaderTyped' /\ Reading' /\ Framing'
  BY <1>1, <1>2, <1>3, ReaderIdle
<1>5. Owned'
  <2>1. Known' = Known
    BY <1>1 DEF Known, Open
  <2>. QED  BY <1>1, <1>2, <2>1 DEF Owned
<1>6. Sessions'
  BY <1>1, <1>2, <1>3, SessionsIdle DEF Reader
<1>. QED  BY <1>3, <1>4, <1>5, <1>6 DEF IInv

\* Every reachable state satisfies the invariant.
THEOREM Invariance == Spec => []IInv
<1>1. IInv /\ [Next]_vars => IInv'
  <2>1. ASSUME IInv, Next  PROVE IInv'
    <3>1. Reader /\ Owned /\ Sessions
      BY <2>1 DEF IInv, Reader
    <3>2. Reader' /\ Owned' /\ Sessions'
      BY <2>1, <3>1, ReaderStep, OwnedStep, SessionsStep
    <3>. QED  BY <3>2 DEF IInv, Reader
  <2>. QED  BY <2>1, IdleIInv
<1>. QED  BY <1>1, InitIInv, PTL DEF Spec

\* The fields of the packet being read agree with one another, and its remaining
\* length is one of at most MaxDigits digits, whatever the broker sends.
THEOREM IncomingTyped == Spec => []IncomingTypeOK
<1>1. ASSUME IInv  PROVE IncomingTypeOK
  <2>1. in_packet.length \in 0 .. Weight[MaxDigits] - 1
    <3>1. in_packet.length \in Nat /\ in_packet.length < Weight[MaxDigits]
      BY <1>1, LengthBounded DEF IInv, ReaderTyped
    <3>2. Weight[MaxDigits] \in Nat
      BY ConstantTypes, WeightValue
    <3>. QED  BY <3>1, <3>2
  <2>2. /\ in_packet.count \in 0 .. MaxDigits
        /\ in_packet.to_process + Len(in_packet.body) =
              (IF in_packet.complete THEN in_packet.length ELSE 0)
    BY <1>1 DEF IInv, ReaderTyped
  <2>. QED  BY <1>1, <2>1, <2>2 DEF IInv, Typed, IncomingTypeOK, Entries,
     Flows
<1>. QED  BY <1>1, Invariance, PTL

\* Wherever the reads of _mosquitto_packet_read stop, the bytes it has gathered
\* and those still to come are the packets the broker sent, in order: whatever
\* the number of digits, the lengths, the losses and the order of repetitions.
THEOREM Framed == Spec => []Framing
<1>1. IInv => Framing
  BY DEF IInv
<1>. QED  BY <1>1, Invariance, PTL

\* The broker is not done with a message before on_message has had it, and one of
\* QoS 2 is handed over once, at its PUBREL, however often it is repeated,
\* unless its id was repeated to, or forgotten for, a client that held it.
THEOREM DeliveredWhenReleased == Spec => []ReleasedOnce
<1>1. ASSUME IInv  PROVE ReleasedOnce
  <2>1. Typed /\ Sessions
    BY <1>1 DEF IInv
  <2>2. ASSUME NEW mid \in Mids \ doubled
        PROVE  /\ outgoing[mid].qos = 2 =>
                     delivered[outgoing[mid].msg] <=
                         (IF outgoing[mid].stage = "publish" THEN 0 ELSE 1)
               /\ \A i \in Waiting(mid) : delivered[in_messages[i].msg] = 0
    <3>1. Held(mid) /\ Unreleased(mid) /\ Released(mid)
      BY <2>1 DEF Sessions
    <3>2. \A i \in Waiting(mid) : delivered[in_messages[i].msg] = 0
      BY <3>1 DEF Held
    <3>3. ASSUME outgoing[mid].qos = 2
          PROVE  delivered[outgoing[mid].msg] <=
                     (IF outgoing[mid].stage = "publish" THEN 0 ELSE 1)
      <4>1. outgoing[mid] \in Flows
        BY <2>1, <3>3 DEF Typed, Free
      <4>2. outgoing[mid].stage = "publish" \/ outgoing[mid].stage = "release"
        BY <4>1 DEF Flows
      <4>3. outgoing[mid].stage = "publish" => delivered[outgoing[mid].msg] = 0
        BY <3>1, <3>3 DEF Unreleased
      <4>4. outgoing[mid].stage = "release" =>
                delivered[outgoing[mid].msg] = 0 \/ delivered[outgoing[mid].msg] = 1
        BY <3>1 DEF Released, Held
      <4>. QED  BY <4>2, <4>3, <4>4
    <3>. QED  BY <3>2, <3>3
  <2>3. \A d \in done : d.mid \notin doubled =>
            IF d.qos = 2 THEN delivered[d.msg] = 1 ELSE delivered[d.msg] >= 1
    BY <2>1 DEF Sessions, Finished
  <2>. QED  BY <2>2, <2>3 DEF ReleasedOnce
<1>. QED  BY <1>1, Invariance, PTL
=============================================================================
