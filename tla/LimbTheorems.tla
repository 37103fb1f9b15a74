------------------------------ MODULE LimbTheorems -----------------------------
(***************************************************************************)
(* Facts about the numbers that arrays of limbs stand for, for any number  *)
(* of limbs, any radix and any top limb: what the proofs about the field   *)
(* element and about the circuits have in common.                          *)
(***************************************************************************)
EXTENDS FieldLimbs, CountingTheorems

-----------------------------------------------------------------------------
(* Weights. *)

LEMMA IndexSizes ==
    /\ LimbCount \in Nat /\ LimbCount >= 2 /\ Top \in Nat /\ Top = LimbCount - 1
    /\ Top >= 1 /\ Top \in Index /\ 0 \in Index /\ Index = 0..Top
    /\ \A k \in Index : k \in Nat /\ k < LimbCount
    /\ TopRadix \in Nat /\ TopRadix >= 2 /\ Radix \in Nat /\ 2 * TopRadix <= Radix
    /\ \A x \in Limb : x \in Nat /\ x <= Radix - 1
BY LimbAssumption DEF Top, Index, Limb

LEMMA WeightDef ==
    /\ Weight \in [Index -> Nat]
    /\ Weight[0] = 1
    /\ \A k \in Index : k # 0 => Weight[k] = Radix * Weight[k - 1]
<1> DEFINE G == [p \in Nat \X Nat |-> Radix * p[2]]
<1>1. G \in [Nat \X Nat -> Nat]
  BY IndexSizes
<1>2. \A k, v \in Nat : G[<<k, v>>] = Radix * v
  OBVIOUS
<1> HIDE DEF G
<1>3. PICK f \in [0..Top -> Nat] : f[0] = 1 /\ \A k \in 1..Top : f[k] = G[<<k, f[k - 1]>>]
  <2>1. Top \in Nat /\ 1 \in Nat
    BY IndexSizes
  <2> QED BY <1>1, <2>1, Recursion
<1>4. \A k \in Index : k # 0 => k \in 1..Top /\ k - 1 \in Index /\ k \in Nat
  BY IndexSizes
<1>5. ASSUME NEW k \in Index PROVE f[k] = IF k = 0 THEN 1 ELSE Radix * f[k - 1]
  <2>1. CASE k # 0
    <3>1. k \in Nat /\ k \in 1..Top /\ f[k - 1] \in Nat
      BY <1>3, <1>4, <2>1, IndexSizes
    <3> QED BY <1>2, <1>3, <2>1, <3>1
  <2> QED BY <1>3, <2>1
<1>6. f = [k \in Index |-> IF k = 0 THEN 1 ELSE Radix * f[k - 1]]
  BY <1>3, <1>5, IndexSizes
<1>7. Weight = [k \in Index |-> IF k = 0 THEN 1 ELSE Radix * Weight[k - 1]]
  BY <1>6, Zenon DEF Weight
<1>8. \A k \in Index : Weight[k] = IF k = 0 THEN 1 ELSE Radix * Weight[k - 1]
  BY <1>7
<1>9. \A k \in Index : Weight[k] \in Nat
  <2> DEFINE S == {k \in Index : Weight[k] \in Nat}
  <2>1. 0 \in S
    BY <1>8, IndexSizes
  <2>2. ASSUME NEW k \in 0..Top, k \in S, k < Top PROVE k + 1 \in S
    <3>1. k + 1 \in Index /\ k + 1 # 0 /\ k + 1 - 1 = k
      BY <2>2, IndexSizes
    <3>2. Weight[k + 1] = Radix * Weight[k]
      BY <1>8, <3>1
    <3> QED BY <2>2, <3>1, <3>2, IndexSizes
  <2> HIDE DEF S
  <2>3. \A k \in 0..Top : k \in S
    BY <2>1, <2>2, CountingUp, IndexSizes
  <2> QED BY <2>3, IndexSizes DEF S
<1>10. Weight \in [Index -> Nat]
  BY <1>7, <1>9
<1> QED BY <1>8, <1>10, IndexSizes

\* From a limb to the next: one there is a full limb here.
LEMMA PlaceDef ==
    /\ Place(0) = 1
    /\ \A k \in 0..LimbCount : Place(k) \in Nat /\ Place(k) > 0
    /\ \A k \in Index : /\ Weight[k] = Place(k)
                        /\ Base(k) \in Nat /\ 2 <= Base(k) /\ Base(k) <= Radix
                        /\ Place(k + 1) = Base(k) * Place(k)
<1>1. \A k \in Index : Weight[k] = Place(k) /\ Place(k) \in Nat
  BY WeightDef, IndexSizes DEF Place
<1>2. \A k \in Index : Base(k) \in Nat /\ 2 <= Base(k) /\ Base(k) <= Radix
  BY IndexSizes DEF Base
<1>3. ASSUME NEW k \in Index PROVE Place(k + 1) = Base(k) * Place(k)
  <2>1. CASE k = Top
    <3>1. Place(LimbCount) = Place(Top) * TopRadix /\ k + 1 = LimbCount
      BY <1>1, <2>1, IndexSizes DEF Place
    <3> QED BY <1>1, <2>1, <3>1, IndexSizes DEF Base
  <2>2. CASE k # Top
    <3>1. k + 1 \in Index /\ k + 1 # 0 /\ k + 1 - 1 = k
      BY <2>2, IndexSizes
    <3>2. PICK j \in Index : j = k + 1 /\ j - 1 = k /\ j # 0
      BY <3>1, IndexSizes
    <3>3. Weight[j] = Radix * Weight[j - 1]
      BY <3>2, WeightDef
    <3> QED BY <1>1, <2>2, <3>2, <3>3 DEF Base, Place
  <2> QED BY <2>1, <2>2
<1>4. \A k \in 0..LimbCount : Place(k) \in Nat /\ Place(k) > 0
  <2> DEFINE S == {k \in 0..LimbCount : Place(k) \in Nat /\ Place(k) > 0}
  <2>1. 0 \in S
    BY <1>1, WeightDef, IndexSizes
  <2>2. ASSUME NEW k \in 0..LimbCount, k \in S, k < LimbCount PROVE k + 1 \in S
    <3>1. k \in Index /\ k + 1 \in 0..LimbCount
      BY <2>2, IndexSizes
    <3>2. Place(k) \in Nat /\ Place(k) > 0 /\ Base(k) \in Nat /\ Base(k) > 0
      BY <1>2, <2>2, <3>1
    <3>3. Base(k) * Place(k) \in Nat /\ Base(k) * Place(k) > 0
      BY <3>2
    <3> QED BY <1>3, <3>1, <3>3
  <2> HIDE DEF S
  <2>3. \A k \in 0..LimbCount : k \in S
    BY <2>1, <2>2, CountingUp, IndexSizes
  <2> QED BY <2>3 DEF S
<1> QED BY <1>1, <1>2, <1>3, <1>4, WeightDef, IndexSizes

-----------------------------------------------------------------------------
(* The numbers that arrays of natural numbers, limb by limb, stand for. *)

Digits == [Index -> Nat]

LEMMA PartDef ==
    ASSUME NEW x \in Digits
    PROVE  /\ Part(x, 0) = 0
           /\ \A k \in 0..LimbCount : Part(x, k) \in Nat
           /\ \A k \in Index : Part(x, k + 1) = Part(x, k) + x[k] * Place(k)
<1> DEFINE Next(i, v) == v + x[i - 1] * Weight[i - 1]
           G == [p \in Nat \X Nat |-> IF p[1] \in 1..LimbCount THEN Next(p[1], p[2]) ELSE 0]
<1>1. \A i \in 1..LimbCount : i - 1 \in Index /\ x[i - 1] \in Nat /\ Weight[i - 1] \in Nat
  BY WeightDef, IndexSizes DEF Digits
<1>2. \A i \in 1..LimbCount, v \in Nat : Next(i, v) \in Nat
  BY <1>1
<1> HIDE DEF Next
<1>3. G \in [Nat \X Nat -> Nat]
  BY <1>2
<1>4. \A i \in 1..LimbCount, v \in Nat : i \in Nat /\ G[<<i, v>>] = Next(i, v)
  BY IndexSizes
<1> HIDE DEF G
<1>5. PICK f \in [0..LimbCount -> Nat] :
        f[0] = 0 /\ \A i \in 1..LimbCount : f[i] = G[<<i, f[i - 1]>>]
  <2>1. LimbCount \in Nat /\ 0 \in Nat
    BY IndexSizes
  <2> QED BY <1>3, <2>1, Recursion
<1>6. ASSUME NEW i \in 0..LimbCount
      PROVE  f[i] = IF i = 0 THEN 0 ELSE f[i - 1] + x[i - 1] * Weight[i - 1]
  <2>1. CASE i # 0
    <3>1. i \in 1..LimbCount /\ f[i - 1] \in Nat
      BY <2>1, IndexSizes
    <3>2. f[i] = Next(i, f[i - 1])
      BY <1>4, <1>5, <3>1
    <3> QED BY <2>1, <3>2 DEF Next
  <2> QED BY <1>5, <2>1
<1>7. f = [i \in 0..LimbCount |-> IF i = 0 THEN 0 ELSE f[i - 1] + x[i - 1] * Weight[i - 1]]
  BY <1>6
<1> DEFINE part == CHOOSE p : p = [i \in 0..LimbCount |->
                      IF i = 0 THEN 0 ELSE p[i - 1] + x[i - 1] * Weight[i - 1]]
<1>8. part = [i \in 0..LimbCount |->
                IF i = 0 THEN 0 ELSE part[i - 1] + x[i - 1] * Weight[i - 1]]
  BY <1>7, Zenon
<1>9. \A k : Part(x, k) = part[k]
  BY Zenon DEF Part
<1> HIDE DEF part
<1>10. \A i \in 0..LimbCount :
         part[i] = IF i = 0 THEN 0 ELSE part[i - 1] + x[i - 1] * Weight[i - 1]
  BY <1>8
<1>11. part[0] = 0
  BY <1>10, IndexSizes
<1>12. ASSUME NEW k \in Index PROVE part[k + 1] = part[k] + x[k] * Place(k)
  <2>1. k + 1 \in 0..LimbCount /\ k + 1 # 0 /\ k + 1 - 1 = k /\ Weight[k] = Place(k)
    BY IndexSizes, PlaceDef
  <2>2. PICK i \in 0..LimbCount : i = k + 1 /\ i - 1 = k /\ i # 0
    BY <2>1, IndexSizes
  <2>3. part[i] = part[i - 1] + x[i - 1] * Weight[i - 1]
    BY <1>10, <2>2
  <2> QED BY <2>1, <2>2, <2>3
<1>13. \A k \in 0..LimbCount : part[k] \in Nat
  <2> DEFINE S == {k \in 0..LimbCount : part[k] \in Nat}
  <2>1. 0 \in S
    BY <1>11, IndexSizes
  <2>2. ASSUME NEW k \in 0..LimbCount, k \in S, k < LimbCount PROVE k + 1 \in S
    <3>1. k \in Index /\ k + 1 \in 0..LimbCount
      BY <2>2, IndexSizes
    <3>2. k \in 0..LimbCount /\ x[k] \in Nat
      BY <3>1 DEF Digits
    <3>3. Place(k) \in Nat
      BY <3>2, PlaceDef
    <3>4. x[k] * Place(k) \in Nat
      BY <3>2, <3>3
    <3> QED BY <1>12, <2>2, <3>1, <3>4
  <2> HIDE DEF S
  <2>3. \A k \in 0..LimbCount : k \in S
    BY <2>1, <2>2, CountingUp, IndexSizes
  <2> QED BY <2>3 DEF S
<1> QED BY <1>9, <1>11, <1>12, <1>13

-----------------------------------------------------------------------------
(* Products, which the provers need to be shown. *)

LEMMA TimesMonotone ==
    ASSUME NEW x \in Nat, NEW y \in Nat, NEW p \in Nat, x <= y
    PROVE  x * p <= y * p
<1>1. PICK d \in Nat : y = x + d
  <2>1. y - x \in Nat /\ y = x + (y - x)
    OBVIOUS
  <2> QED BY <2>1
<1>2. y * p = x * p + d * p /\ x * p \in Nat /\ d * p \in Nat
  BY <1>1
<1> QED BY <1>2

LEMMA OneLess ==
    ASSUME NEW x \in Int, NEW p \in Int
    PROVE  (x - 1) * p = x * p - p /\ (x + 1) * p = x * p + p
OBVIOUS

\* Limb v with the carry or borrow d out of it is x + y + c, or x - y - c.
LimbSum(base, x, y, c, v, d) == x + y + c = v + d * base
LimbDifference(base, x, y, c, v, d) == x - y - c = v - d * base

\* The same at the limb's place.
LEMMA SumAtPlace ==
    ASSUME NEW p \in Nat, NEW base \in Nat,
           NEW x \in Int, NEW y \in Int, NEW c \in Int, NEW v \in Int, NEW d \in Int,
           LimbSum(base, x, y, c, v, d)
    PROVE  LimbSum(base * p, x * p, y * p, c * p, v * p, d)
<1>1. (x + y + c) * p = x * p + y * p + c * p
  OBVIOUS
<1>2. (v + d * base) * p = v * p + d * (base * p)
  OBVIOUS
<1> QED BY <1>1, <1>2 DEF LimbSum

LEMMA DifferenceAtPlace ==
    ASSUME NEW p \in Nat, NEW base \in Nat,
           NEW x \in Int, NEW y \in Int, NEW c \in Int, NEW v \in Int, NEW d \in Int,
           LimbDifference(base, x, y, c, v, d)
    PROVE  LimbDifference(base * p, x * p, y * p, c * p, v * p, d)
<1>1. (x - y - c) * p = x * p - y * p - c * p
  OBVIOUS
<1>2. (v - d * base) * p = v * p - d * (base * p)
  OBVIOUS
<1> QED BY <1>1, <1>2 DEF LimbDifference

-----------------------------------------------------------------------------
(* Order. *)

\* Limbs that are digits of their base stand for less than one carried out.
LEMMA PartBound ==
    ASSUME NEW x \in Digits, NEW i \in 0..LimbCount,
           \A k \in Index : k < i => x[k] < Base(k)
    PROVE  Part(x, i) < Place(i)
<1> DEFINE S == {k \in 0..LimbCount : Part(x, k) < Place(k)}
<1>1. 0 \in S
  BY PartDef, PlaceDef, IndexSizes
<1>2. ASSUME NEW k \in 0..i, k \in S, k < i PROVE k + 1 \in S
  <2>1. k \in Index /\ k \in 0..LimbCount /\ k + 1 \in 0..LimbCount /\ x[k] \in Nat /\ x[k] < Base(k)
    BY <1>2, IndexSizes DEF Digits
  <2>2. /\ Part(x, k) \in Nat /\ Part(x, k) < Place(k) /\ Place(k) \in Nat /\ Base(k) \in Nat
        /\ Place(k + 1) = Base(k) * Place(k) /\ Part(x, k + 1) = Part(x, k) + x[k] * Place(k)
    BY <1>2, <2>1, PartDef, PlaceDef
  <2>3. x[k] * Place(k) <= (Base(k) - 1) * Place(k)
    <3>1. Base(k) - 1 \in Nat /\ x[k] <= Base(k) - 1
      BY <2>1, <2>2
    <3> QED BY <2>1, <2>2, <3>1, TimesMonotone
  <2>4. (Base(k) - 1) * Place(k) = Base(k) * Place(k) - Place(k)
    BY <2>2, OneLess
  <2>5. x[k] * Place(k) \in Nat /\ Base(k) * Place(k) \in Nat
    BY <2>1, <2>2
  <2>6. Part(x, k + 1) < Place(k + 1)
    BY <2>2, <2>3, <2>4, <2>5
  <2> QED BY <2>1, <2>6
<1> HIDE DEF S
<1>3. i \in Nat
  BY IndexSizes
<1>4. \A k \in 0..i : k \in S
  BY <1>1, <1>2, <1>3, CountingUp
<1> QED BY <1>3, <1>4 DEF S

\* Only the limbs below count.
LEMMA PartLocal ==
    ASSUME NEW x \in Digits, NEW y \in Digits, NEW i \in 0..LimbCount,
           \A k \in Index : k < i => x[k] = y[k]
    PROVE  Part(x, i) = Part(y, i)
<1> DEFINE S == {k \in 0..LimbCount : Part(x, k) = Part(y, k)}
<1>1. 0 \in S
  BY PartDef, IndexSizes
<1>2. ASSUME NEW k \in 0..i, k \in S, k < i PROVE k + 1 \in S
  <2>1. k \in Index /\ k + 1 \in 0..LimbCount /\ x[k] = y[k]
    BY <1>2, IndexSizes
  <2>2. /\ Part(x, k + 1) = Part(x, k) + x[k] * Place(k)
        /\ Part(y, k + 1) = Part(y, k) + y[k] * Place(k)
    BY <2>1, PartDef
  <2> QED BY <1>2, <2>1, <2>2
<1> HIDE DEF S
<1>3. i \in Nat
  BY IndexSizes
<1>4. \A k \in 0..i : k \in S
  BY <1>1, <1>2, <1>3, CountingUp
<1> QED BY <1>3, <1>4 DEF S

\* Equal limbs add the same.
LEMMA PartAbove ==
    ASSUME NEW x \in Digits, NEW y \in Digits, NEW i \in 0..LimbCount,
           \A k \in Index : k >= i => x[k] = y[k]
    PROVE  Value(x) - Part(x, i) = Value(y) - Part(y, i)
<1> DEFINE S == {k \in 0..LimbCount : k >= i => Part(x, k) - Part(x, i) = Part(y, k) - Part(y, i)}
<1>0. \A k \in 0..LimbCount : Part(x, k) \in Nat /\ Part(y, k) \in Nat
  BY PartDef
<1>1. 0 \in S
  BY <1>0, IndexSizes
<1>2. ASSUME NEW k \in 0..LimbCount, k \in S, k < LimbCount PROVE k + 1 \in S
  <2>1. k \in Index /\ k + 1 \in 0..LimbCount /\ x[k] \in Nat
    BY <1>2, IndexSizes DEF Digits
  <2>2. /\ Part(x, k + 1) = Part(x, k) + x[k] * Place(k)
        /\ Part(y, k + 1) = Part(y, k) + y[k] * Place(k)
    BY <2>1, PartDef
  <2>3. Place(k) \in Nat /\ x[k] * Place(k) \in Nat
    BY <1>2, <2>1, PlaceDef
  <2>4. CASE k >= i
    <3>1. x[k] * Place(k) = y[k] * Place(k)
      BY <2>1, <2>4
    <3> DEFINE t == x[k] * Place(k)
    <3>2. Part(x, k + 1) = Part(x, k) + t /\ Part(y, k + 1) = Part(y, k) + t /\ t \in Nat
      BY <2>2, <2>3, <3>1
    <3> HIDE DEF t
    <3> QED BY <1>0, <1>2, <2>1, <2>4, <3>2
  <2>5. CASE k + 1 = i
    BY <1>0, <2>1, <2>5
  <2> QED BY <2>1, <2>4, <2>5
<1> HIDE DEF S
<1>3. \A k \in 0..LimbCount : k \in S
  BY <1>1, <1>2, CountingUp, IndexSizes
<1> QED BY <1>3, IndexSizes DEF S, Value

LEMMA LimbsValue ==
    ASSUME NEW x \in Limbs
    PROVE  /\ x \in Digits /\ Value(x) \in Nat
           /\ \A k \in Index : x[k] \in Nat /\ x[k] < Radix
<1>1. x \in Digits /\ \A k \in Index : x[k] \in Nat /\ x[k] < Radix
  BY IndexSizes DEF Limbs, Digits
<1>2. LimbCount \in 0..LimbCount
  BY IndexSizes
<1>3. Part(x, LimbCount) \in Nat
  BY <1>1, <1>2, PartDef
<1> QED BY <1>1, <1>3 DEF Value

\* The highest limb that differs decides.
LEMMA Lexicographic ==
    ASSUME NEW x \in Limbs, NEW y \in Limbs, NEW i \in Index,
           x[i] < y[i], \A k \in Index : k > i => x[k] = y[k]
    PROVE  Value(x) < Value(y)
<1>1. x \in Digits /\ y \in Digits /\ i \in 0..LimbCount /\ i + 1 \in 0..LimbCount
  BY IndexSizes DEF Limbs, Digits
<1>2. Part(x, i) < Place(i)
  <2>1. \A k \in Index : k < i => x[k] < Base(k)
    BY IndexSizes DEF Limbs, Base
  <2> QED BY <1>1, <2>1, PartBound
<1>3. /\ Part(x, i + 1) = Part(x, i) + x[i] * Place(i) /\ Part(x, i) \in Nat
      /\ Part(y, i + 1) = Part(y, i) + y[i] * Place(i) /\ Part(y, i) \in Nat
      /\ Part(x, i + 1) \in Nat /\ Part(y, i + 1) \in Nat
      /\ Place(i) \in Nat /\ x[i] \in Nat /\ y[i] \in Nat
      /\ Value(x) \in Nat /\ Value(y) \in Nat
  <2>1. i \in Index /\ x[i] \in Nat /\ y[i] \in Nat /\ Value(x) \in Nat /\ Value(y) \in Nat
    BY LimbsValue
  <2>2. Place(i) \in Nat
    BY <1>1, PlaceDef
  <2> QED BY <1>1, <2>1, <2>2, PartDef
<1>4. (x[i] + 1) * Place(i) <= y[i] * Place(i)
  <2>1. x[i] + 1 \in Nat /\ x[i] + 1 <= y[i]
    BY <1>3
  <2> QED BY <1>3, <2>1, TimesMonotone
<1>5. (x[i] + 1) * Place(i) = x[i] * Place(i) + Place(i) /\ x[i] * Place(i) \in Nat /\ y[i] * Place(i) \in Nat
  BY <1>3, OneLess
<1>6. Part(x, i + 1) < Part(y, i + 1)
  BY <1>2, <1>3, <1>4, <1>5
<1>7. Value(x) - Part(x, i + 1) = Value(y) - Part(y, i + 1)
  <2>1. \A k \in Index : k >= i + 1 => x[k] = y[k]
    BY IndexSizes
  <2> QED BY <1>1, <2>1, PartAbove
<1> QED BY <1>3, <1>6, <1>7

LEMMA HighestDifference ==
    ASSUME NEW x \in Limbs, NEW y \in Limbs, x # y
    PROVE  \E i \in Index : x[i] # y[i] /\ \A k \in Index : k > i => x[k] = y[k]
<1> DEFINE T == {n \in 0..Top : x[Top - n] # y[Top - n]}
<1>1. PICK j \in Index : x[j] # y[j]
  BY DEF Limbs
<1>2. Top - j \in T
  <2>1. Top - j \in 0..Top /\ Top - (Top - j) = j
    BY IndexSizes
  <2> QED BY <1>1, <2>1
<1>3. T \subseteq Nat /\ T # {}
  BY <1>2, IndexSizes
<1>4. PICK n \in T : \A m \in T : n <= m
  BY <1>3, LeastNatural
<1>5. Top - n \in Index /\ x[Top - n] # y[Top - n] /\ n \in Nat
  BY IndexSizes
<1>6. ASSUME NEW k \in Index, k > Top - n PROVE x[k] = y[k]
  <2>1. Top - k \in 0..Top /\ Top - (Top - k) = k /\ ~ (n <= Top - k)
    BY <1>5, <1>6, IndexSizes
  <2>2. Top - k \notin T
    BY <1>4, <2>1
  <2> QED BY <2>1, <2>2
<1> QED BY <1>5, <1>6

LEMMA ValueInjective ==
    ASSUME NEW x \in Limbs, NEW y \in Limbs
    PROVE  Value(x) = Value(y) <=> x = y
<1> SUFFICES ASSUME x # y PROVE Value(x) # Value(y)
  OBVIOUS
<1>1. PICK i \in Index : x[i] # y[i] /\ \A k \in Index : k > i => x[k] = y[k]
  BY HighestDifference
<1>2. x[i] \in Nat /\ y[i] \in Nat
  BY IndexSizes DEF Limbs
<1>3. Value(x) \in Nat /\ Value(y) \in Nat
  BY LimbsValue
<1>4. CASE x[i] < y[i]
  BY <1>1, <1>3, <1>4, Lexicographic
<1>5. CASE y[i] < x[i]
  BY <1>1, <1>3, <1>5, Lexicographic
<1> QED BY <1>1, <1>2, <1>4, <1>5

LEMMA ValueOrder ==
    ASSUME NEW x \in Limbs, NEW y \in Limbs
    PROVE  Value(x) < Value(y) <=>
             \E i \in Index : x[i] < y[i] /\ \A k \in Index : k > i => x[k] = y[k]
<1>1. ASSUME NEW i \in Index, x[i] < y[i], \A k \in Index : k > i => x[k] = y[k]
      PROVE  Value(x) < Value(y)
  BY <1>1, Lexicographic
<1>2. ASSUME Value(x) < Value(y)
      PROVE  \E i \in Index : x[i] < y[i] /\ \A k \in Index : k > i => x[k] = y[k]
  <2>1. Value(x) \in Nat /\ Value(y) \in Nat
    BY LimbsValue
  <2>2. PICK i \in Index : x[i] # y[i] /\ \A k \in Index : k > i => x[k] = y[k]
    BY <1>2, <2>1, HighestDifference
  <2>3. x[i] \in Nat /\ y[i] \in Nat
    BY IndexSizes DEF Limbs
  <2>4. ~ (y[i] < x[i])
    BY <1>2, <2>1, <2>2, Lexicographic
  <2> QED BY <2>2, <2>3, <2>4
<1> QED BY <1>1, <1>2

-----------------------------------------------------------------------------
(* The bounds. *)

\* The limbs of a number of 521 bits.
LEMMA ShapedValue ==
    ASSUME NEW x \in Digits, \A k \in Index : x[k] < Base(k)
    PROVE  Value(x) \in Nat /\ Value(x) < Place(LimbCount)
BY PartBound, PartDef, IndexSizes DEF Value

LEMMA TopDecides ==
    ASSUME NEW x \in Limbs
    PROVE  /\ Value(x) \in Nat
           /\ Value(x) < Place(LimbCount) <=> x[Top] < TopRadix
<1>1. x \in Digits /\ \A k \in Index : x[k] \in Nat /\ (k # Top => x[k] < Base(k))
  BY IndexSizes DEF Limbs, Digits, Base
<1>2. Value(x) \in Nat
  BY <1>1, PartDef, IndexSizes DEF Value
<1>3. ASSUME x[Top] < TopRadix PROVE Value(x) < Place(LimbCount)
  <2>1. \A k \in Index : x[k] < Base(k)
    BY <1>1, <1>3 DEF Base
  <2> QED BY <1>1, <2>1, ShapedValue
<1>4. ASSUME TopRadix <= x[Top] PROVE Place(LimbCount) <= Value(x)
  <2>1. Top + 1 = LimbCount /\ Top \in Index /\ Top \in 0..LimbCount /\ Base(Top) = TopRadix
    BY IndexSizes DEF Base
  <2>2. /\ Place(LimbCount) = TopRadix * Place(Top) /\ Place(Top) \in Nat
        /\ Value(x) = Part(x, Top) + x[Top] * Place(Top) /\ Part(x, Top) \in Nat
    BY <1>1, <2>1, PlaceDef, PartDef DEF Value
  <2>3. TopRadix * Place(Top) <= x[Top] * Place(Top)
    BY <1>1, <1>4, <2>1, <2>2, IndexSizes, TimesMonotone
  <2>4. TopRadix * Place(Top) \in Nat /\ x[Top] * Place(Top) \in Nat
    BY <1>1, <2>1, <2>2, IndexSizes
  <2> QED BY <2>2, <2>3, <2>4
<1>5. x[Top] \in Nat /\ TopRadix \in Nat /\ Place(LimbCount) \in Nat
  BY <1>1, IndexSizes, PlaceDef
<1> QED BY <1>2, <1>3, <1>4, <1>5

LEMMA ZeroValue ==
    /\ Zero \in Limbs
    /\ \A i \in 0..LimbCount : Part(Zero, i) = 0
    /\ Value(Zero) = 0
<1>1. Zero \in Limbs /\ Zero \in Digits /\ \A k \in Index : Zero[k] = 0
  BY IndexSizes DEF Zero, Limbs, Digits, Limb
<1> DEFINE S == {k \in 0..LimbCount : Part(Zero, k) = 0}
<1>2. 0 \in S
  BY <1>1, PartDef, IndexSizes
<1>3. ASSUME NEW k \in 0..LimbCount, k \in S, k < LimbCount PROVE k + 1 \in S
  <2>1. k \in Index /\ k + 1 \in 0..LimbCount /\ Zero[k] = 0
    BY <1>1, <1>3, IndexSizes
  <2>2. Part(Zero, k + 1) = Part(Zero, k) + 0 * Place(k) /\ Place(k) \in Nat
    BY <1>1, <1>3, <2>1, PartDef, PlaceDef
  <2> QED BY <1>3, <2>1, <2>2
<1> HIDE DEF S
<1>4. \A k \in 0..LimbCount : k \in S
  BY <1>2, <1>3, CountingUp, IndexSizes
<1> QED BY <1>1, <1>4, IndexSizes DEF S, Value

LEMMA ModulusValue ==
    /\ Modulus \in Limbs /\ \A k \in Index : Modulus[k] = Base(k) - 1
    /\ Value(Modulus) = Prime
    /\ Prime = Place(LimbCount) - 1 /\ Prime \in Nat
<1>1. \A k \in Index : Base(k) - 1 \in Limb /\ Base(k) - 1 \in Nat
  <2> SUFFICES ASSUME NEW k \in Index PROVE Base(k) - 1 \in Limb /\ Base(k) - 1 \in Nat
    OBVIOUS
  <2>1. Base(k) \in Nat /\ 2 <= Base(k) /\ Base(k) <= Radix /\ Radix \in Nat
    BY PlaceDef, IndexSizes
  <2> QED BY <2>1 DEF Limb
<1>2. Modulus \in Limbs /\ Modulus \in Digits /\ \A k \in Index : Modulus[k] = Base(k) - 1
  BY <1>1 DEF Modulus, Limbs, Digits
<1>3. Prime = Place(LimbCount) - 1 /\ Prime \in Nat
  <2>1. Place(LimbCount) = Weight[Top] * TopRadix
    BY DEF Place
  <2>2. Place(LimbCount) \in Nat /\ Place(LimbCount) > 0
    BY PlaceDef, IndexSizes
  <2> QED BY <2>1, <2>2 DEF Prime
<1> DEFINE S == {k \in 0..LimbCount : Part(Modulus, k) = Place(k) - 1}
<1>4. 0 \in S
  BY <1>2, PartDef, PlaceDef, IndexSizes
<1>5. ASSUME NEW k \in 0..LimbCount, k \in S, k < LimbCount PROVE k + 1 \in S
  <2>1. k \in Index /\ k + 1 \in 0..LimbCount
    BY <1>5, IndexSizes
  <2>2. /\ Part(Modulus, k + 1) = Part(Modulus, k) + (Base(k) - 1) * Place(k)
        /\ Part(Modulus, k) = Place(k) - 1
        /\ Place(k) \in Nat /\ Base(k) \in Nat /\ Place(k + 1) = Base(k) * Place(k)
    BY <1>2, <1>5, <2>1, PartDef, PlaceDef
  <2>3. (Base(k) - 1) * Place(k) = Base(k) * Place(k) - Place(k) /\ Base(k) * Place(k) \in Nat
    BY <2>2, OneLess
  <2>4. Part(Modulus, k + 1) = Place(k + 1) - 1
    BY <2>2, <2>3
  <2> QED BY <2>1, <2>4
<1> HIDE DEF S
<1>6. \A k \in 0..LimbCount : k \in S
  BY <1>4, <1>5, CountingUp, IndexSizes
<1> QED BY <1>2, <1>3, <1>6, IndexSizes DEF S, Value

\* are_canonical_limbs decides whether the number is below the prime.
LEMMA CanonicalValue ==
    ASSUME NEW x \in Limbs
    PROVE  Canonical(x) <=> Value(x) < Prime
<1>1. Value(x) \in Nat /\ (Value(x) < Place(LimbCount) <=> x[Top] < TopRadix)
  BY TopDecides
<1>2. Value(x) = Prime <=> x = Modulus
  BY ValueInjective, ModulusValue
<1>3. Value(x) < Place(LimbCount) <=> Value(x) <= Prime
  <2>1. Place(LimbCount) \in Nat /\ Prime = Place(LimbCount) - 1
    BY ModulusValue, PlaceDef, IndexSizes
  <2> QED BY <1>1, <2>1
<1>4. Value(x) < Prime <=> Value(x) <= Prime /\ Value(x) # Prime
  BY <1>1, ModulusValue
<1> QED BY <1>1, <1>2, <1>3, <1>4 DEF Canonical

\* A limb is put in place.
LEMMA PartPut ==
    ASSUME NEW x \in Digits, NEW i \in Index, NEW v \in Nat, NEW y, y = [x EXCEPT ![i] = v]
    PROVE  /\ y \in Digits
           /\ Part(y, i) = Part(x, i)
           /\ Part(y, i + 1) = Part(x, i) + v * Place(i)
<1>1. y \in Digits /\ y[i] = v /\ \A k \in Index : k < i => x[k] = y[k]
  BY IndexSizes DEF Digits
<1>2. i \in 0..LimbCount
  BY IndexSizes
<1>3. Part(x, i) = Part(y, i)
  BY <1>1, <1>2, PartLocal
<1>4. Part(y, i + 1) = Part(y, i) + y[i] * Place(i)
  BY <1>1, PartDef
<1> QED BY <1>1, <1>3, <1>4

-----------------------------------------------------------------------------
(* Loops over the limbs, from the lowest up. *)

\* What holds below limb i holds, after its sum, below limb i + 1.
LEMMA SumGoesOn ==
    ASSUME NEW r \in Digits, NEW i \in Index,
           NEW v \in Nat, NEW s, s = [r EXCEPT ![i] = v],
           NEW x \in Int, NEW y \in Int, NEW c \in Int, NEW d \in Int,
           NEW X \in Int, NEW Y \in Int,
           PartSum(X, Y, r, c, i),
           LimbSum(Base(i), x, y, c, v, d)
    PROVE  PartSum(X + x * Place(i), Y + y * Place(i), s, d, i + 1)
<1>1. Part(s, i + 1) = Part(r, i) + v * Place(i)
  BY PartPut
<1> DEFINE p == Place(i)
           base == Base(i)
           R == Part(r, i)
<1>2. i \in 0..LimbCount /\ p \in Nat /\ base \in Nat /\ Place(i + 1) = base * p /\ R \in Nat
  BY PlaceDef, PartDef, IndexSizes
<1>3. X + Y = R + c * p
  BY DEF PartSum
<1>4. Part(s, i + 1) = R + v * p
  BY <1>1
<1>5. LimbSum(base, x, y, c, v, d)
  OBVIOUS
<1> HIDE DEF p, base, R
<1>6. LimbSum(base * p, x * p, y * p, c * p, v * p, d)
  <2>1. v \in Int
    OBVIOUS
  <2> QED BY <1>2, <1>5, <2>1, SumAtPlace, Zenon
<1>7. /\ x * p \in Int /\ y * p \in Int /\ c * p \in Int /\ v * p \in Int
      /\ d * (base * p) \in Int
  BY <1>2
<1>8. X + x * p + (Y + y * p) = Part(s, i + 1) + d * (base * p)
  BY <1>2, <1>3, <1>4, <1>6, <1>7 DEF LimbSum
<1> QED BY <1>2, <1>8 DEF PartSum, p

LEMMA DifferenceGoesOn ==
    ASSUME NEW r \in Digits, NEW i \in Index,
           NEW v \in Nat, NEW s, s = [r EXCEPT ![i] = v],
           NEW x \in Int, NEW y \in Int, NEW c \in Int, NEW d \in Int,
           NEW X \in Int, NEW Y \in Int,
           PartDifference(X, Y, r, c, i),
           LimbDifference(Base(i), x, y, c, v, d)
    PROVE  PartDifference(X + x * Place(i), Y + y * Place(i), s, d, i + 1)
<1>1. Part(s, i + 1) = Part(r, i) + v * Place(i)
  BY PartPut
<1> DEFINE p == Place(i)
           base == Base(i)
           R == Part(r, i)
<1>2. i \in 0..LimbCount /\ p \in Nat /\ base \in Nat /\ Place(i + 1) = base * p /\ R \in Nat
  BY PlaceDef, PartDef, IndexSizes
<1>3. X - Y = R - c * p
  BY DEF PartDifference
<1>4. Part(s, i + 1) = R + v * p
  BY <1>1
<1>5. LimbDifference(base, x, y, c, v, d)
  OBVIOUS
<1> HIDE DEF p, base, R
<1>6. LimbDifference(base * p, x * p, y * p, c * p, v * p, d)
  <2>1. v \in Int
    OBVIOUS
  <2> QED BY <1>2, <1>5, <2>1, DifferenceAtPlace, Zenon
<1>7. /\ x * p \in Int /\ y * p \in Int /\ c * p \in Int /\ v * p \in Int
      /\ d * (base * p) \in Int
  BY <1>2
<1>8. X + x * p - (Y + y * p) = Part(s, i + 1) - d * (base * p)
  BY <1>2, <1>3, <1>4, <1>6, <1>7 DEF LimbDifference
<1> QED BY <1>2, <1>8 DEF PartDifference, p

LEMMA StartOfSum ==
    ASSUME NEW x \in Digits, NEW y \in Digits
    PROVE  /\ PartSum(Part(x, 0), Part(y, 0), Zero, 0, 0)
           /\ PartDifference(Part(x, 0), Part(y, 0), Zero, 0, 0)
<1>1. Part(x, 0) = 0 /\ Part(y, 0) = 0 /\ Part(Zero, 0) = 0 /\ Place(0) = 1
  BY PartDef, PlaceDef, ZeroValue, IndexSizes
<1> QED BY <1>1 DEF PartSum, PartDifference

\* One limb is replaced.
LEMMA ValuePut ==
    ASSUME NEW x \in Digits, NEW i \in Index, NEW v \in Nat, NEW y, y = [x EXCEPT ![i] = v]
    PROVE  Value(y) = Value(x) - x[i] * Place(i) + v * Place(i)
<1>1. /\ y \in Digits /\ Part(y, i + 1) = Part(x, i) + v * Place(i)
      /\ Part(x, i + 1) = Part(x, i) + x[i] * Place(i)
  BY PartPut, PartDef
<1>2. i \in 0..LimbCount /\ i + 1 \in 0..LimbCount /\ LimbCount \in 0..LimbCount
  BY IndexSizes
<1>3. \A k \in Index : k >= i + 1 => y[k] = x[k]
  BY IndexSizes DEF Digits
<1>4. Value(y) - Part(y, i + 1) = Value(x) - Part(x, i + 1)
  BY <1>1, <1>2, <1>3, PartAbove
<1>5. /\ Value(y) \in Nat /\ Value(x) \in Nat /\ Part(x, i) \in Nat
      /\ Part(y, i + 1) \in Nat /\ Part(x, i + 1) \in Nat
  BY <1>1, <1>2, PartDef DEF Value
<1> DEFINE old == x[i] * Place(i)
           new == v * Place(i)
<1>6. old \in Int /\ new \in Int
  <2>1. x[i] \in Nat /\ Place(i) \in Nat
    BY <1>2, PlaceDef DEF Digits
  <2> QED BY <2>1
<1>7. Part(y, i + 1) = Part(x, i) + new /\ Part(x, i + 1) = Part(x, i) + old
  BY <1>1
<1> HIDE DEF old, new
<1>8. Value(y) = Value(x) - old + new
  BY <1>4, <1>5, <1>6, <1>7
<1> QED BY <1>8 DEF old, new

=============================================================================
