-------------------------- MODULE OrderCircuits_proofs -------------------------
(***************************************************************************)
(* Proofs about OrderCircuits, for any number of limbs, any radix, any     *)
(* order, any circuit field of more than four times the radix, and any     *)
(* operands, in range or not: the constraints on a limb and its carry      *)
(* leave whoever makes a witness no choice.                                *)
(***************************************************************************)
EXTENDS OrderCircuits, LimbTheorems, FiniteSetTheorems

-----------------------------------------------------------------------------
(* Arithmetic of the circuit field. *)

LEMMA Sizes ==
    /\ Q \in Nat \ {0} /\ Radix \in Nat /\ 4 * Radix < Q
    /\ \A k \in Index : /\ k \in Nat
                        /\ Base(k) \in Nat /\ 0 < Base(k) /\ Base(k) <= Radix
BY CircuitAssumption, LimbAssumption DEF Base, Index

\* Numbers the constraints of a limb may come to.
Sums == {x \in Int : - 2 * Q <= x /\ x < 3 * Q}

LEMMA Remainder ==
    ASSUME NEW x \in Int, NEW k \in Int, NEW rest \in Nat, x = Q * k + rest, rest < Q
    PROVE  x % Q = rest
BY Sizes, SMTT(30)

LEMMA InField ==
    ASSUME NEW x \in Int
    PROVE  x % Q \in Nat
BY Sizes

\* Of two numbers a limb's base apart, one is no limb in the circuit field.
LEMMA OneIsLarge ==
    ASSUME NEW x \in Sums, NEW base \in Nat, 0 < base, base <= Radix,
           x % Q < base, (x - base) % Q < base
    PROVE  FALSE
<1>1. /\ Q \in Nat /\ x \in Int /\ 4 * base < Q /\ - 2 * Q <= x /\ x < 3 * Q
      /\ x - base \in Int
  BY Sizes DEF Sums
<1>2. PICK k \in {-2, -1, 0, 1, 2} : Q * k <= x /\ x < Q * k + Q
  BY <1>1
<1>3. k \in Int /\ Q * k \in Int /\ Q * (k - 1) = Q * k - Q /\ k - 1 \in Int
  BY <1>1
<1> DEFINE rest == x - Q * k
<1>4. rest \in Nat /\ rest < Q /\ x = Q * k + rest
  BY <1>1, <1>2, <1>3
<1> HIDE DEF rest
<1>5. x % Q = rest
  BY <1>1, <1>3, <1>4, Remainder
<1>6. /\ rest - base + Q \in Nat /\ rest - base + Q < Q
      /\ x - base = Q * (k - 1) + (rest - base + Q)
  BY <1>1, <1>3, <1>4, <1>5
<1>7. (x - base) % Q = rest - base + Q
  BY <1>1, <1>3, <1>6, Remainder
<1> QED BY <1>1, <1>4, <1>7

-----------------------------------------------------------------------------
(* The components. *)

\* Splits by the residues of two numbers a base apart are limbs and bits, and
\* at most one is allowed.
LEMMA OneSplit ==
    ASSUME index \in Index, NEW none \in Sums, NEW one \in Sums,
           one = none - Base(index) \/ none = one - Base(index),
           NEW S, \A s \in S :
             /\ s.limb < Base(index)
             /\ \/ s = [limb |-> none % Q, carry |-> 0]
                \/ s = [limb |-> one % Q, carry |-> 1]
    PROVE  /\ \A s \in S : s.limb \in Limb /\ s.carry \in {0, 1}
           /\ \A s, t \in S : s = t
<1> DEFINE base == Base(index)
<1>1. base \in Nat /\ 0 < base /\ base <= Radix /\ Radix \in Nat
  BY Sizes
<1>2. none % Q \in Nat /\ one % Q \in Nat
  BY InField DEF Sums
<1>3. ~ (none % Q < base /\ one % Q < base)
  BY <1>1, OneIsLarge
<1> HIDE DEF base
<1>4. \A s \in S : s.limb < base /\ s.limb \in {none % Q, one % Q} /\ s.carry \in {0, 1}
  BY DEF base
<1>5. \A s \in S : s.limb \in Limb
  BY <1>1, <1>2, <1>4 DEF Limb
<1>6. \A s, t \in S : s = t
  BY <1>3 DEF base
<1> QED BY <1>4, <1>5, <1>6

LEMMA CarrySplitsOne ==
    ASSUME index \in Index, NEW sum \in Int, - Q <= sum, sum < 3 * Q
    PROVE  /\ \A s \in CarrySplits(sum) : s.limb \in Limb /\ s.carry \in {0, 1}
           /\ \A s, t \in CarrySplits(sum) : s = t
<1> DEFINE base == Base(index)
<1>1. base \in Nat /\ base < Q /\ Q \in Nat
  BY Sizes
<1>2. sum - 0 * base = sum /\ sum - 1 * base = sum - base
  BY <1>1
<1>3. sum \in Sums /\ sum - base \in Sums
  BY <1>1 DEF Sums
<1>4. \A s \in CarrySplits(sum) :
        /\ s.limb < base
        /\ \/ s = [limb |-> sum % Q, carry |-> 0]
           \/ s = [limb |-> (sum - base) % Q, carry |-> 1]
  BY <1>2 DEF CarrySplits, Allowed
<1> QED BY <1>3, <1>4, OneSplit

LEMMA BorrowSplitsOne ==
    ASSUME index \in Index, carry \in {0, 1}, NEW x \in 0..(Q - 1), NEW y \in 0..(Q - 1)
    PROVE  /\ \A s \in BorrowSplits(x, y) : s.limb \in Limb /\ s.carry \in {0, 1}
           /\ \A s, t \in BorrowSplits(x, y) : s = t
<1> DEFINE base == Base(index)
           none == x - (y + carry)
           one == x + base - (y + carry)
<1>1. base \in Nat /\ base < Q /\ Q \in Nat /\ x \in Int /\ y \in Int /\ carry \in Int
  BY Sizes
<1>2. /\ x + 0 * base - (y + carry) = none
      /\ x + 1 * base - (y + carry) = one
      /\ none = one - base
  BY <1>1
<1>3. none \in Sums /\ one \in Sums
  BY <1>1 DEF Sums
<1> HIDE DEF none, one
<1>4. \A s \in BorrowSplits(x, y) :
        /\ s.limb < base
        /\ \/ s = [limb |-> none % Q, carry |-> 0]
           \/ s = [limb |-> one % Q, carry |-> 1]
  BY <1>2 DEF BorrowSplits, Allowed
<1> QED BY <1>2, <1>3, <1>4, OneSplit

\* A set of which any two members are one has at most one.
LEMMA AtMostOne ==
    ASSUME NEW S, \A s, t \in S : s = t
    PROVE  Cardinality(S) \in {0, 1}
<1>1. CASE S = {}
  BY <1>1, FS_EmptySet
<1>2. CASE S # {}
  <2>1. PICK s : S = {s}
    BY <1>2
  <2> QED BY <2>1, FS_Singleton
<1> QED BY <1>1, <1>2

\* Whatever limbs it is given, the comparison with the order yields a bit.
LEMMA LessThanOrderIsBit ==
    ASSUME NEW x, \A k \in Index : x[k] \in Int
    PROVE  LessThanOrder(x) \in {0, 1}
<1> DEFINE S == {k \in Index : /\ LimbLess(x[k], Order[k])
                               /\ \A j \in Index : j > k => x[j] = Order[j]}
<1>1. \A k \in Index : Order[k] \in Int /\ k \in Int
  BY CircuitAssumption, LimbAssumption DEF Limbs, Limb, Index
<1>2. \A k \in Index : x[k] = Order[k] => ~ LimbLess(x[k], Order[k])
  <2>1. (2 * Radix) % Q = 2 * Radix
    BY CircuitAssumption, LimbAssumption
  <2> SUFFICES ASSUME NEW k \in Index, x[k] = Order[k] PROVE ~ LimbLess(x[k], Order[k])
    OBVIOUS
  <2>2. x[k] + 2 * Radix - Order[k] = 2 * Radix
    BY <1>1, LimbAssumption
  <2> QED BY <2>1, <2>2, LimbAssumption DEF LimbLess
<1>3. \A k, j \in S : k = j
  BY <1>1, <1>2
<1>4. Cardinality(S) \in {0, 1}
  BY <1>3, AtMostOne
<1> QED BY <1>4 DEF LessThanOrder

\* So does the product with the check for zero.
LEMMA InRangeIsBit ==
    ASSUME NEW x, \A k \in Index : x[k] \in Int
    PROVE  InRange(x) \in {0, 1}
<1>1. NonZero(x) \in {0, 1}
  BY DEF NonZero, Bit
<1>2. LessThanOrder(x) \in {0, 1}
  BY LessThanOrderIsBit
<1> QED BY <1>1, <1>2 DEF InRange

-----------------------------------------------------------------------------
(* The circuits. *)

LEMMA Operands ==
    ASSUME TypeOK
    PROVE  \A k \in Index :
             /\ a[k] \in 0..(Q - 1) /\ b[k] \in 0..(Q - 1)
             /\ before[k] \in Limb /\ limbs[k] \in Limb
             /\ Order[k] \in Limb /\ Complement[k] \in Limb
BY CircuitAssumption DEF TypeOK, Limbs

\* Whatever loop it is in, and whoever makes the witness, there is at most one
\* limb and one carry to go on with.
LEMMA SplitsOne ==
    ASSUME TypeOK, pc \in Loops, index < LimbCount
    PROVE  /\ index \in Index
           /\ \A s \in Splits : s.limb \in Limb /\ s.carry \in {0, 1}
           /\ \A s, t \in Splits : s = t
<1>1. index \in Index /\ carry \in {0, 1} /\ wrapped \in {0, 1} /\ needs \in {0, 1}
  BY LimbAssumption DEF TypeOK, Index
<1>2. /\ a[index] \in 0..(Q - 1) /\ b[index] \in 0..(Q - 1)
      /\ before[index] \in Limb /\ Order[index] \in Limb /\ Complement[index] \in Limb
  BY <1>1, Operands
<1>3. /\ Q \in Nat /\ Radix \in Nat /\ 4 * Radix < Q
      /\ \A l \in Limb : l \in Nat /\ l < Radix /\ l \in 0..(Q - 1)
  BY Sizes DEF Limb
<1>4. CASE pc = "add"
  <2> DEFINE sum == a[index] + b[index] + carry
  <2>1. sum \in Int /\ - Q <= sum /\ sum < 3 * Q
    BY <1>1, <1>2, <1>3
  <2>2. Splits = CarrySplits(sum)
    BY <1>4 DEF Splits
  <2> HIDE DEF sum
  <2> QED BY <1>1, <2>1, <2>2, CarrySplitsOne
<1>5. CASE pc = "fold"
  <2> DEFINE sum == before[index] + wrapped * Complement[index] + carry
  <2>1. wrapped * Complement[index] \in {0, Complement[index]}
    BY <1>1, <1>2, <1>3
  <2>2. sum \in Int /\ - Q <= sum /\ sum < 3 * Q
    BY <1>1, <1>2, <1>3, <2>1
  <2>3. Splits = CarrySplits(sum)
    BY <1>5 DEF Splits
  <2> HIDE DEF sum
  <2> QED BY <1>1, <2>2, <2>3, CarrySplitsOne
<1>6. CASE pc = "reduce"
  <2>1. needs * Order[index] \in {0, Order[index]}
    BY <1>1, <1>2, <1>3
  <2>2. needs * Order[index] \in 0..(Q - 1) /\ before[index] \in 0..(Q - 1)
    BY <1>2, <1>3, <2>1
  <2>3. Splits = BorrowSplits(before[index], needs * Order[index])
    BY <1>6 DEF Splits
  <2> QED BY <1>1, <2>2, <2>3, BorrowSplitsOne
<1>7. CASE pc = "subtract"
  <2>1. Splits = BorrowSplits(a[index], b[index])
    BY <1>7 DEF Splits
  <2> QED BY <1>1, <1>2, <2>1, BorrowSplitsOne
<1>8. CASE pc = "restore"
  <2> DEFINE sum == before[index] + needs * Order[index] + carry
  <2>1. needs * Order[index] \in {0, Order[index]}
    BY <1>1, <1>2, <1>3
  <2>2. sum \in Int /\ - Q <= sum /\ sum < 3 * Q
    BY <1>1, <1>2, <1>3, <2>1
  <2>3. Splits = CarrySplits(sum)
    BY <1>8 DEF Splits
  <2> HIDE DEF sum
  <2> QED BY <1>1, <2>2, <2>3, CarrySplitsOne
<1> QED BY <1>4, <1>5, <1>6, <1>7, <1>8 DEF Loops

LEMMA TypesInitially == Init => TypeOK
<1> SUFFICES ASSUME Init PROVE TypeOK
  OBVIOUS
<1>1. 0 \in 0..LimbCount /\ Zero \in Limbs
  BY LimbAssumption DEF Zero, Limbs, Limb
<1>2. \E pair \in Inputs : a = pair[1] /\ b = pair[2]
  BY DEF Init
<1>3. <<a, b>> \in Inputs
  BY <1>2, CircuitAssumption
<1> QED BY <1>1, <1>3 DEF Init, TypeOK, Loops

LEMMA TypesStay ==
    ASSUME TypeOK, [Next]_vars
    PROVE  TypeOK'
<1>1. 0 \in 0..LimbCount /\ Zero \in Limbs
  BY LimbAssumption DEF Zero, Limbs, Limb
<1>2. CASE LimbStep
  <2>1. pc \in Loops /\ index < LimbCount
    BY <1>2 DEF LimbStep
  <2>2. PICK s \in Splits : limbs' = [limbs EXCEPT ![index] = s.limb] /\ carry' = s.carry
    BY <1>2 DEF LimbStep
  <2>3. index \in Index /\ s.limb \in Limb /\ s.carry \in {0, 1}
    BY <2>1, SplitsOne
  <2>4. limbs' \in Limbs
    BY <2>2, <2>3 DEF TypeOK, Limbs
  <2>5. index + 1 \in 0..LimbCount
    BY <2>1, LimbAssumption DEF TypeOK
  <2> QED BY <1>2, <2>2, <2>3, <2>4, <2>5 DEF LimbStep, TypeOK, statement
<1>3. CASE AddEnd
  BY <1>1, <1>3 DEF AddEnd, Enter, TypeOK, statement, Loops
<1>4. CASE FoldEnd
  <2>1. \A k \in Index : limbs[k] \in Int
    BY Operands, LimbAssumption DEF Limb
  <2>2. 1 - LessThanOrder(limbs) \in {0, 1}
    BY <2>1, LessThanOrderIsBit
  <2> QED BY <1>1, <1>4, <2>2 DEF FoldEnd, Enter, TypeOK, statement, Loops
<1>5. CASE SubtractEnd
  BY <1>1, <1>5 DEF SubtractEnd, Enter, TypeOK, statement, Loops
<1>6. CASE ResultEnd
  BY <1>6 DEF ResultEnd, TypeOK, statement
<1>7. CASE OrderEnd
  BY <1>7 DEF OrderEnd, TypeOK, statement
<1>8. CASE RangeEnd
  <2>1. \A k \in Index : a[k] \in Int /\ b[k] \in Int
    BY Operands, CircuitAssumption
  <2>2. InRange(a) \in {0, 1} /\ InRange(b) \in {0, 1}
    BY <2>1, InRangeIsBit
  <2>3. InRange(a) * InRange(b) \in {0, 1}
    BY <2>2
  <2> QED BY <1>8, <2>3 DEF RangeEnd, TypeOK, statement
<1>9. CASE Refuse
  BY <1>9 DEF Refuse, TypeOK, statement
<1>10. CASE UNCHANGED vars
  BY <1>10 DEF vars, TypeOK
<1> QED BY <1>2, <1>3, <1>4, <1>5, <1>6, <1>7, <1>8, <1>9, <1>10 DEF Next

\* Whatever a prover takes for the carries and borrows, the limbs of every loop
\* stay limbs and every carry, and every selector, is a bit.
THEOREM CarriesAreBits == Spec => []TypeOK
BY TypesInitially, TypesStay, PTL DEF Spec

\* A prover has no choice of a limb or a carry, for operands in range or not:
\* the hints (<--) of the circuits are forced by their constraints.
THEOREM ProversHaveNoChoice == Spec => []HintsAreForced
<1>1. TypeOK => HintsAreForced
  <2> SUFFICES ASSUME TypeOK, pc \in Loops, index < LimbCount
               PROVE  Cardinality(Splits) <= 1
    BY DEF HintsAreForced
  <2>1. Cardinality(Splits) \in {0, 1}
    BY SplitsOne, AtMostOne
  <2> QED BY <2>1
<1> QED BY <1>1, CarriesAreBits, PTL

-----------------------------------------------------------------------------
(* What the comparisons decide. *)

LEMMA OrderSizes ==
    /\ Order \in Limbs /\ Complement \in Limbs
    /\ N \in Nat /\ Value(Complement) \in Nat
    /\ TwoTo521 = Place(LimbCount) /\ TwoTo521 \in Nat /\ TwoTo521 > 0
    /\ N + Value(Complement) = TwoTo521 /\ N <= TwoTo521
<1>1. TwoTo521 = Place(LimbCount)
  BY DEF TwoTo521, Place
<1>2. Order \in Limbs /\ Complement \in Limbs /\ N + Value(Complement) = TwoTo521
  BY CircuitAssumption
<1>3. N \in Nat /\ Value(Complement) \in Nat
  BY <1>2, LimbsValue DEF N
<1>4. Place(LimbCount) \in Nat /\ Place(LimbCount) > 0
  BY PlaceDef, IndexSizes
<1> QED BY <1>1, <1>2, <1>3, <1>4

LEMMA LimbLessExact ==
    ASSUME NEW x \in Limb, NEW y \in Limb
    PROVE  LimbLess(x, y) <=> x < y
<1>1. /\ Q \in Nat /\ Radix \in Nat /\ 4 * Radix < Q
      /\ x \in Nat /\ y \in Nat /\ x < Radix /\ y < Radix
  BY Sizes, IndexSizes DEF Limb
<1>2. x + 2 * Radix - y \in Nat /\ x + 2 * Radix - y < Q
  BY <1>1
<1>3. (x + 2 * Radix - y) % Q = x + 2 * Radix - y
  BY <1>1, <1>2
<1> QED BY <1>1, <1>3 DEF LimbLess

\* BigLessThanP521Order9 compares numbers.
LEMMA LessThanOrderExact ==
    ASSUME NEW x \in Limbs
    PROVE  LessThanOrder(x) = Bit(Value(x) < N)
<1> DEFINE S == {k \in Index : /\ LimbLess(x[k], Order[k])
                               /\ \A j \in Index : j > k => x[j] = Order[j]}
<1>1. \A k \in Index : x[k] \in Limb /\ Order[k] \in Limb
  BY OrderSizes DEF Limbs
<1>2. \A k \in Index : x[k] \in Int
  BY LimbsValue
<1>3. LessThanOrder(x) = Cardinality(S) /\ LessThanOrder(x) \in {0, 1}
  BY <1>2, LessThanOrderIsBit DEF LessThanOrder
<1>4. S # {} <=> Value(x) < N
  <2>1. S # {} <=> \E k \in Index : x[k] < Order[k] /\ \A j \in Index : j > k => x[j] = Order[j]
    BY <1>1, LimbLessExact
  <2> QED BY <2>1, OrderSizes, ValueOrder DEF N
<1>5. IsFiniteSet(S)
  <2>1. IsFiniteSet(Index)
    BY FS_Interval, IndexSizes
  <2> QED BY <2>1, FS_Subset
<1> HIDE DEF S
<1>6. Cardinality(S) = 0 <=> S = {}
  BY <1>5, FS_EmptySet
<1> QED BY <1>3, <1>4, <1>6 DEF Bit

\* BigNonZero9 does.
LEMMA NonZeroExact ==
    ASSUME NEW x \in Limbs
    PROVE  NonZero(x) = Bit(Value(x) > 0)
<1>1. Value(x) \in Nat
  BY LimbsValue
<1>2. x = Zero <=> Value(x) = 0
  BY ZeroValue, ValueInjective
<1>3. x = Zero <=> \A k \in Index : x[k] = 0
  BY DEF Limbs, Zero
<1> QED BY <1>1, <1>2, <1>3 DEF NonZero, Bit

LEMMA InRangeExact ==
    ASSUME NEW x \in Limbs, Shaped(x)
    PROVE  InRange(x) = Bit(IsOrderValue(x) /\ Value(x) > 0)
BY LessThanOrderExact, NonZeroExact DEF InRange, IsOrderValue, Bit

\* Operands that are shaped are limbs.
LEMMA ShapedOperands ==
    ASSUME TypeOK
    PROVE  /\ a \in Digits /\ b \in Digits
           /\ Shaped(a) => a \in Limbs /\ Value(a) < TwoTo521
           /\ Shaped(b) => b \in Limbs /\ Value(b) < TwoTo521
<1>1. a \in [Index -> 0..(Q - 1)] /\ b \in [Index -> 0..(Q - 1)]
  BY CircuitAssumption DEF TypeOK
<1>2. \A v \in 0..(Q - 1) : v \in Nat
  BY Sizes
<1>3. ASSUME NEW x \in [Index -> 0..(Q - 1)]
      PROVE  x \in Digits /\ (Shaped(x) => x \in Limbs /\ Value(x) < TwoTo521)
  <2>1. x \in Digits
    BY <1>2 DEF Digits
  <2>2. ASSUME Shaped(x) PROVE x \in Limbs
    <3> SUFFICES ASSUME NEW k \in Index PROVE x[k] \in Limb
      BY DEF Limbs
    <3>1. x[k] \in Nat /\ x[k] < Base(k) /\ Base(k) \in Nat /\ Base(k) <= Radix /\ Radix \in Nat
      BY <1>2, <2>2, PlaceDef, IndexSizes DEF Shaped
    <3> QED BY <3>1 DEF Limb
  <2>3. Shaped(x) => Value(x) < TwoTo521
    BY <2>1, ShapedValue, OrderSizes DEF Shaped
  <2> QED BY <2>1, <2>2, <2>3
<1> QED BY <1>1, <1>3

-----------------------------------------------------------------------------
(* What the constraints on a limb and its carry say. *)

LEMMA CarrySplitsExact ==
    ASSUME index \in Index, NEW sum \in Nat, sum < 4 * Radix
    PROVE  /\ \A s \in CarrySplits(sum) :
                /\ s.limb \in Nat /\ s.limb < Base(index) /\ s.carry \in {0, 1}
                /\ sum = s.limb + s.carry * Base(index)
           /\ sum < 2 * Base(index) => CarrySplits(sum) # {}
<1> DEFINE base == Base(index)
<1>1. /\ base \in Nat /\ 0 < base /\ base <= Radix /\ Radix \in Nat
      /\ Q \in Nat /\ 4 * Radix < Q
  BY Sizes
<1>2. sum % Q = sum /\ (sum < base => (sum - base) % Q = sum - base + Q)
      /\ (base <= sum => (sum - base) % Q = sum - base)
  <2>1. sum % Q = sum
    BY <1>1
  <2>2. sum < base => (sum - base) % Q = sum - base + Q
    BY <1>1
  <2>3. base <= sum => (sum - base) % Q = sum - base
    BY <1>1
  <2> QED BY <2>1, <2>2, <2>3
<1>3. sum - 0 * base = sum /\ sum - 1 * base = sum - base /\ 0 * base = 0 /\ 1 * base = base
  BY <1>1
<1>4. ASSUME NEW s \in CarrySplits(sum)
      PROVE  /\ s.limb \in Nat /\ s.limb < base /\ s.carry \in {0, 1}
             /\ sum = s.limb + s.carry * base
  <2>1. s.limb < base /\ s.carry \in {0, 1} /\ s.limb = (sum - s.carry * base) % Q
    BY DEF CarrySplits, Allowed
  <2> QED BY <1>1, <1>2, <1>3, <2>1
<1>5. ASSUME sum < 2 * base PROVE CarrySplits(sum) # {}
  <2> DEFINE hint == (sum % Q) \div base
             s == [limb |-> (sum - hint * base) % Q, carry |-> hint]
  <2>1. /\ sum < base => sum \div base = 0
        /\ base <= sum => sum \div base = 1
    BY <1>1, <1>5
  <2>2. /\ hint \in {0, 1}
        /\ hint = 0 => sum < base
        /\ hint = 1 => base <= sum
    BY <1>1, <1>2, <2>1
  <2>3. hint \in Carries(hint)
    <3>1. hint \in 0..(Q - 1)
      BY <1>1, <2>2
    <3> HIDE DEF hint
    <3> QED BY <3>1 DEF Carries
  <2>4. (sum - hint * base) % Q < base
    <3> HIDE DEF hint
    <3>1. CASE hint = 0
      BY <1>1, <1>2, <1>3, <2>2, <3>1
    <3>2. CASE hint = 1
      BY <1>1, <1>2, <1>3, <1>5, <2>2, <3>2
    <3> QED BY <2>2, <3>1, <3>2
  <2>5. s \in CarrySplits(sum)
    BY <2>2, <2>3, <2>4 DEF CarrySplits, Allowed
  <2> QED BY <2>5
<1> QED BY <1>4, <1>5

LEMMA BorrowSplitsExact ==
    ASSUME index \in Index, carry \in {0, 1}, NEW x \in Limb, NEW y \in Limb
    PROVE  /\ \A s \in BorrowSplits(x, y) :
                /\ s.limb \in Nat /\ s.limb < Base(index) /\ s.carry \in {0, 1}
                /\ x - y - carry = s.limb - s.carry * Base(index)
           /\ x < Base(index) /\ y < Base(index) => BorrowSplits(x, y) # {}
<1> DEFINE base == Base(index)
           taken == y + carry
<1>1. /\ base \in Nat /\ 0 < base /\ base <= Radix /\ Radix \in Nat
      /\ Q \in Nat /\ 4 * Radix < Q
      /\ x \in Nat /\ x < Radix /\ y \in Nat /\ y < Radix /\ carry \in Nat
  BY Sizes, IndexSizes DEF Limb
<1>2. taken \in Nat /\ taken <= Radix /\ taken = y + carry
  BY <1>1
<1> HIDE DEF taken
<1>3. /\ x + 0 * base - taken = x - taken
      /\ x + 1 * base - taken = x + base - taken
      /\ 0 * base = 0 /\ 1 * base = base
  BY <1>1, <1>2
<1>4. ASSUME NEW z \in Int, - Radix <= z, z < 2 * Radix
      PROVE  z % Q = IF z < 0 THEN z + Q ELSE z
  <2>1. z < 0 => z % Q = z + Q
    BY <1>1, <1>4
  <2>2. 0 <= z => z % Q = z
    BY <1>1, <1>4
  <2> QED BY <2>1, <2>2, <1>4
<1>5. /\ (x - taken) % Q = IF x < taken THEN x - taken + Q ELSE x - taken
      /\ (x + base - taken) % Q = IF x + base < taken THEN x + base - taken + Q ELSE x + base - taken
  <2>1. /\ x - taken \in Int /\ - Radix <= x - taken /\ x - taken < 2 * Radix
        /\ x + base - taken \in Int /\ - Radix <= x + base - taken /\ x + base - taken < 2 * Radix
        /\ x - taken < 0 <=> x < taken
        /\ x + base - taken < 0 <=> x + base < taken
    BY <1>1, <1>2
  <2> QED BY <1>4, <2>1
<1>6. ASSUME NEW s \in BorrowSplits(x, y)
      PROVE  /\ s.limb \in Nat /\ s.limb < base /\ s.carry \in {0, 1}
             /\ x - taken = s.limb - s.carry * base
  <2>1. s.limb < base /\ s.carry \in {0, 1} /\ s.limb = (x + s.carry * base - taken) % Q
    BY DEF BorrowSplits, Allowed, taken
  <2> QED BY <1>1, <1>2, <1>3, <1>5, <2>1
<1>7. ASSUME x < base, y < base PROVE BorrowSplits(x, y) # {}
  <2> DEFINE above == taken + base - 1 - x
             hint == (above % Q) \div base
             s == [limb |-> (x + hint * base - taken) % Q, carry |-> hint]
  <2>1. above \in Nat /\ above < 2 * base /\ above < Q /\ (above < base <=> taken <= x)
    BY <1>1, <1>2, <1>7
  <2> HIDE DEF above
  <2>2. above % Q = above
    BY <1>1, <2>1
  <2>3. /\ above < base => above \div base = 0
        /\ base <= above => above \div base = 1
    BY <1>1, <2>1
  <2>4. /\ hint \in {0, 1}
        /\ hint = 0 => taken <= x
        /\ hint = 1 => x < taken
    BY <1>1, <1>2, <2>1, <2>2, <2>3
  <2>5. hint \in Carries(hint)
    <3>1. hint \in 0..(Q - 1)
      BY <1>1, <2>4
    <3> HIDE DEF hint
    <3> QED BY <3>1 DEF Carries
  <2>6. (x + hint * base - taken) % Q < base
    <3> HIDE DEF hint
    <3>1. CASE hint = 0
      BY <1>1, <1>2, <1>3, <1>5, <1>7, <2>4, <3>1
    <3>2. CASE hint = 1
      BY <1>1, <1>2, <1>3, <1>5, <1>7, <2>4, <3>2
    <3> QED BY <2>4, <3>1, <3>2
  <2>7. s \in BorrowSplits(x, y)
    BY <2>4, <2>5, <2>6 DEF BorrowSplits, Allowed, above, taken
  <2> QED BY <2>7
<1>8. x - y - carry = x - taken
  BY <1>1, <1>2
<1> QED BY <1>6, <1>7, <1>8

-----------------------------------------------------------------------------
(* The loops. *)

\* A part of a number, taken once or not at all.
LEMMA TakenPart ==
    ASSUME NEW x \in Digits, NEW bit \in {0, 1}, NEW i \in Index
    PROVE  /\ bit * x[i] \in Nat /\ bit * Part(x, i) \in Nat
           /\ bit * Part(x, i + 1) = bit * Part(x, i) + (bit * x[i]) * Place(i)
<1>1. /\ x[i] \in Nat /\ Place(i) \in Nat /\ Part(x, i) \in Nat
      /\ Part(x, i + 1) = Part(x, i) + x[i] * Place(i) /\ x[i] * Place(i) \in Nat
  <2>1. i \in 0..LimbCount
    BY IndexSizes
  <2>2. x[i] \in Nat /\ Place(i) \in Nat
    BY <2>1, PlaceDef DEF Digits
  <2> QED BY <2>1, <2>2, PartDef
<1>2. CASE bit = 0
  BY <1>1, <1>2
<1>3. CASE bit = 1
  BY <1>1, <1>3
<1> QED BY <1>2, <1>3

LEMMA LimbStepSums ==
    ASSUME CircuitInv, LimbStep, Shaped(a), Shaped(b)
    PROVE  /\ op = "add" => AddInv'
           /\ op = "subtract" => SubtractInv'
<1>1. pc \in Loops /\ index < LimbCount /\ index' = index + 1
      /\ pc' = pc /\ a' = a /\ b' = b /\ op' = op /\ wrapped' = wrapped /\ needs' = needs
      /\ before' = before
  BY DEF LimbStep, statement
<1>2. PICK s \in Splits : limbs' = [limbs EXCEPT ![index] = s.limb] /\ carry' = s.carry
  BY DEF LimbStep
<1>3. TypeOK /\ index \in Index /\ carry \in {0, 1} /\ carry \in Int /\ wrapped \in {0, 1} /\ needs \in {0, 1}
  BY <1>1, SplitsOne DEF CircuitInv, TypeOK
<1>4. /\ a \in Limbs /\ b \in Limbs /\ before \in Limbs /\ limbs \in Limbs
      /\ Order \in Limbs /\ Complement \in Limbs
  BY <1>3, ShapedOperands, OrderSizes DEF TypeOK
<1>5. /\ a \in Digits /\ b \in Digits /\ before \in Digits /\ limbs \in Digits
      /\ Order \in Digits /\ Complement \in Digits
  BY <1>4, LimbsValue
<1>6. /\ \A x \in {a, b, before, Order, Complement} :
              x[index] \in Limb /\ x[index] \in Nat /\ x[index] < Radix
      /\ Radix \in Nat
  BY <1>3, <1>4, LimbsValue, IndexSizes DEF Limbs
<1>7. \A x \in {a, b, before, Order, Complement} :
         /\ Part(x, index) \in Int /\ x[index] \in Int
         /\ Part(x, index + 1) = Part(x, index) + x[index] * Place(index)
  <2>1. index \in 0..LimbCount
    BY <1>3, IndexSizes
  <2>2. ASSUME NEW x \in Digits
        PROVE  /\ Part(x, index) \in Int /\ x[index] \in Int
               /\ Part(x, index + 1) = Part(x, index) + x[index] * Place(index)
    BY <1>3, <2>1, PartDef DEF Digits
  <2> QED BY <1>5, <2>2
<1>8. CASE pc = "add"
  <2> DEFINE sum == a[index] + b[index] + carry
  <2>1. sum \in Nat /\ sum < 4 * Radix
    BY <1>3, <1>6
  <2>2. Splits = CarrySplits(sum)
    BY <1>8 DEF Splits
  <2> HIDE DEF sum
  <2>3. /\ s.limb \in Nat /\ s.carry \in Int
        /\ LimbSum(Base(index), a[index], b[index], carry, s.limb, s.carry)
    BY <1>3, <2>1, <2>2, CarrySplitsExact DEF LimbSum, sum
  <2>4. op = "add" /\ Sum(Part(a, index), Part(b, index))
    BY <1>8 DEF CircuitInv, AddInv
  <2>5. PartSum(Part(a, index) + a[index] * Place(index), Part(b, index) + b[index] * Place(index),
                limbs', s.carry, index + 1)
    BY <1>2, <1>3, <1>5, <1>7, <2>3, <2>4, SumGoesOn, Zenon DEF Sum
  <2>6. Sum(Part(a, index), Part(b, index))'
    BY <1>1, <1>2, <1>7, <2>5 DEF Sum
  <2> QED BY <1>1, <1>8, <2>4, <2>6 DEF AddInv
<1>9. CASE pc = "fold"
  <2> DEFINE y == wrapped * Complement[index]
             Y == wrapped * Part(Complement, index)
             sum == before[index] + y + carry
  <2>1. /\ y \in Nat /\ y \in Int /\ y <= Complement[index] /\ Y \in Nat /\ Y \in Int
        /\ wrapped * Part(Complement, index + 1) = Y + y * Place(index)
    <3>1. y \in {0, Complement[index]}
      BY <1>3, <1>6
    <3>2. Y \in Nat /\ wrapped * Part(Complement, index + 1) = Y + y * Place(index)
      BY <1>3, <1>5, TakenPart
    <3> HIDE DEF y
    <3> QED BY <1>6, <3>1, <3>2
  <2> HIDE DEF y, Y
  <2>2. sum \in Nat /\ sum < 4 * Radix
    BY <1>3, <1>6, <2>1
  <2>3. Splits = CarrySplits(sum)
    BY <1>9 DEF Splits, y
  <2> HIDE DEF sum
  <2>4. /\ s.limb \in Nat /\ s.carry \in Int
        /\ LimbSum(Base(index), before[index], y, carry, s.limb, s.carry)
    BY <1>3, <2>2, <2>3, CarrySplitsExact DEF LimbSum, sum
  <2>5. op = "add" /\ AddInv /\ Sum(Part(before, index), Y)
    BY <1>9 DEF CircuitInv, AddInv, Y
  <2>6. PartSum(Part(before, index) + before[index] * Place(index), Y + y * Place(index),
                limbs', s.carry, index + 1)
    BY <1>2, <1>3, <1>5, <1>7, <2>1, <2>4, <2>5, SumGoesOn, Zenon DEF Sum
  <2>7. Sum(Part(before, index), wrapped * Part(Complement, index))'
    BY <1>1, <1>2, <1>7, <2>1, <2>6 DEF Sum
  <2> QED BY <1>1, <1>9, <2>5, <2>7 DEF AddInv, RawSum, FoldedSum
<1>10. CASE pc = "reduce"
  <2> DEFINE y == needs * Order[index]
             Y == needs * Part(Order, index)
  <2>1. /\ y \in Nat /\ y \in Int /\ y \in Limb /\ Y \in Nat /\ Y \in Int
        /\ needs * Part(Order, index + 1) = Y + y * Place(index)
    <3>1. y \in {0, Order[index]} /\ 0 \in Limb
      BY <1>3, <1>6 DEF Limb
    <3>2. Y \in Nat /\ needs * Part(Order, index + 1) = Y + y * Place(index)
      BY <1>3, <1>5, TakenPart
    <3> HIDE DEF y
    <3> QED BY <1>6, <3>1, <3>2
  <2>2. Splits = BorrowSplits(before[index], y)
    BY <1>10 DEF Splits
  <2> HIDE DEF y, Y
  <2>3. /\ s.limb \in Nat /\ s.carry \in Int
        /\ LimbDifference(Base(index), before[index], y, carry, s.limb, s.carry)
    BY <1>3, <1>6, <2>1, <2>2, BorrowSplitsExact DEF LimbDifference
  <2>4. op = "add" /\ AddInv /\ Difference(Part(before, index), Y)
    BY <1>10 DEF CircuitInv, AddInv, Y
  <2>5. PartDifference(Part(before, index) + before[index] * Place(index), Y + y * Place(index),
                       limbs', s.carry, index + 1)
    BY <1>2, <1>3, <1>5, <1>7, <2>1, <2>3, <2>4, DifferenceGoesOn, Zenon DEF Difference
  <2>6. Difference(Part(before, index), needs * Part(Order, index))'
    BY <1>1, <1>2, <1>7, <2>1, <2>5 DEF Difference
  <2> QED BY <1>1, <1>10, <2>4, <2>6 DEF AddInv, RawSum, FoldedSum
<1>11. CASE pc = "subtract"
  <2>1. Splits = BorrowSplits(a[index], b[index])
    BY <1>11 DEF Splits
  <2>2. /\ s.limb \in Nat /\ s.carry \in Int
        /\ LimbDifference(Base(index), a[index], b[index], carry, s.limb, s.carry)
    BY <1>3, <1>6, <2>1, BorrowSplitsExact DEF LimbDifference
  <2>3. op = "subtract" /\ SubtractInv /\ Difference(Part(a, index), Part(b, index))
    BY <1>11 DEF CircuitInv, SubtractInv
  <2>4. PartDifference(Part(a, index) + a[index] * Place(index),
                       Part(b, index) + b[index] * Place(index), limbs', s.carry, index + 1)
    BY <1>2, <1>3, <1>5, <1>7, <2>2, <2>3, DifferenceGoesOn, Zenon DEF Difference
  <2>5. Difference(Part(a, index), Part(b, index))'
    BY <1>1, <1>2, <1>7, <2>4 DEF Difference
  <2> QED BY <1>1, <1>11, <2>3, <2>5 DEF SubtractInv
<1>12. CASE pc = "restore"
  <2> DEFINE y == needs * Order[index]
             Y == needs * Part(Order, index)
             sum == before[index] + y + carry
  <2>1. /\ y \in Nat /\ y \in Int /\ y <= Order[index] /\ Y \in Nat /\ Y \in Int
        /\ needs * Part(Order, index + 1) = Y + y * Place(index)
    <3>1. y \in {0, Order[index]}
      BY <1>3, <1>6
    <3>2. Y \in Nat /\ needs * Part(Order, index + 1) = Y + y * Place(index)
      BY <1>3, <1>5, TakenPart
    <3> HIDE DEF y
    <3> QED BY <1>6, <3>1, <3>2
  <2> HIDE DEF y, Y
  <2>2. sum \in Nat /\ sum < 4 * Radix
    BY <1>3, <1>6, <2>1
  <2>3. Splits = CarrySplits(sum)
    BY <1>12 DEF Splits, y
  <2> HIDE DEF sum
  <2>4. /\ s.limb \in Nat /\ s.carry \in Int
        /\ LimbSum(Base(index), before[index], y, carry, s.limb, s.carry)
    BY <1>3, <2>2, <2>3, CarrySplitsExact DEF LimbSum, sum
  <2>5. op = "subtract" /\ SubtractInv /\ Sum(Part(before, index), Y)
    BY <1>12 DEF CircuitInv, SubtractInv, Y
  <2>6. PartSum(Part(before, index) + before[index] * Place(index), Y + y * Place(index),
                limbs', s.carry, index + 1)
    BY <1>2, <1>3, <1>5, <1>7, <2>1, <2>4, <2>5, SumGoesOn, Zenon DEF Sum
  <2>7. Sum(Part(before, index), needs * Part(Order, index))'
    BY <1>1, <1>2, <1>7, <2>1, <2>6 DEF Sum
  <2> QED BY <1>1, <1>12, <2>5, <2>7 DEF SubtractInv
<1> QED BY <1>1, <1>8, <1>9, <1>10, <1>11, <1>12 DEF Loops

-----------------------------------------------------------------------------
(* From loop to loop. *)

LEMMA ShapesStay ==
    ASSUME CircuitInv, Next
    PROVE  Shaped(before)' /\ Shaped(limbs)'
<1>1. Shaped(before) /\ Shaped(limbs) /\ TypeOK
  BY DEF CircuitInv
<1>2. Shaped(Zero)
  BY PlaceDef DEF Shaped, Zero
<1>3. CASE LimbStep
  <2>1. index \in Index
    BY <1>1, <1>3, SplitsOne DEF LimbStep
  <2>2. PICK s \in Splits : limbs' = [limbs EXCEPT ![index] = s.limb] /\ before' = before
    BY <1>3 DEF LimbStep
  <2>3. s.limb < Base(index)
    BY <1>3 DEF LimbStep, Loops, Splits, CarrySplits, BorrowSplits, Allowed
  <2>4. limbs \in [Index -> Limb]
    BY <1>1 DEF TypeOK, Limbs
  <2>5. \A k \in Index : limbs'[k] = IF k = index THEN s.limb ELSE limbs[k]
    BY <2>2, <2>4
  <2>6. Shaped(limbs')
    BY <1>1, <2>1, <2>3, <2>5 DEF Shaped
  <2>7. Shaped(before')
    BY <1>1, <2>2
  <2> QED BY <2>6, <2>7 DEF Shaped
<1>4. CASE AddEnd \/ FoldEnd \/ SubtractEnd
  <2>1. before' = limbs /\ limbs' = Zero
    BY <1>4 DEF AddEnd, FoldEnd, SubtractEnd, Enter
  <2> QED BY <1>1, <1>2, <2>1 DEF Shaped
<1>5. CASE ResultEnd \/ OrderEnd \/ RangeEnd \/ Refuse
  <2>1. before' = before /\ limbs' = limbs
    BY <1>5 DEF ResultEnd, OrderEnd, RangeEnd, Refuse
  <2> QED BY <1>1, <2>1 DEF Shaped
<1> QED BY <1>3, <1>4, <1>5 DEF Next

\* The numbers of a loop, for shaped operands.
LEMMA Numbers ==
    ASSUME CircuitInv, Shaped(a), Shaped(b)
    PROVE  /\ \A x \in {a, b, before, limbs} :
                x \in Limbs /\ Value(x) \in Nat /\ Value(x) < TwoTo521
           /\ carry \in {0, 1} /\ wrapped \in {0, 1} /\ needs \in {0, 1}
<1>1. TypeOK /\ Shaped(before) /\ Shaped(limbs)
  BY DEF CircuitInv
<1>2. ASSUME NEW x \in Limbs, Shaped(x) PROVE Value(x) \in Nat /\ Value(x) < TwoTo521
  BY <1>2, LimbsValue, ShapedValue, OrderSizes DEF Shaped
<1>3. a \in Limbs /\ b \in Limbs /\ before \in Limbs /\ limbs \in Limbs
  BY <1>1, ShapedOperands DEF TypeOK
<1> QED BY <1>1, <1>2, <1>3 DEF TypeOK

LEMMA Once ==
    ASSUME NEW bit \in {0, 1}, NEW x \in Int
    PROVE  /\ bit * x \in Int
           /\ bit = 0 => bit * x = 0
           /\ bit = 1 => bit * x = x
OBVIOUS

\* A loop's sum or difference after the last limb.
LEMMA AtTheEnd ==
    ASSUME NEW x, NEW y, index = LimbCount
    PROVE  /\ Sum(x, y) <=> x + y = Value(limbs) + carry * TwoTo521
           /\ Difference(x, y) <=> x - y = Value(limbs) - carry * TwoTo521
           /\ \A z : Part(z, index) = Value(z)
BY OrderSizes DEF Sum, Difference, PartSum, PartDifference, Value

\* And before the first.
LEMMA AtTheStart ==
    ASSUME NEW x \in Digits, NEW y \in Digits, NEW bit \in {0, 1}
    PROVE  /\ PartSum(Part(x, 0), Part(y, 0), Zero, 0, 0)
           /\ PartSum(Part(x, 0), bit * Part(y, 0), Zero, 0, 0)
           /\ PartDifference(Part(x, 0), Part(y, 0), Zero, 0, 0)
           /\ PartDifference(Part(x, 0), bit * Part(y, 0), Zero, 0, 0)
<1>1. Part(y, 0) = 0 /\ bit * Part(y, 0) = Part(y, 0)
  BY PartDef
<1> QED BY <1>1, StartOfSum

LEMMA AddEndSums ==
    ASSUME CircuitInv, AddEnd, Shaped(a), Shaped(b)
    PROVE  AddInv'
<1>1. /\ pc = "add" /\ index = LimbCount /\ op = "add"
      /\ pc' = "fold" /\ index' = 0 /\ carry' = 0 /\ before' = limbs /\ limbs' = Zero
      /\ a' = a /\ b' = b /\ wrapped' = carry
  BY DEF AddEnd, Enter, statement, CircuitInv
<1>2. Value(a) + Value(b) = Value(limbs) + carry * TwoTo521
  <2>1. Sum(Part(a, index), Part(b, index))
    BY <1>1 DEF CircuitInv, AddInv
  <2> QED BY <1>1, <2>1, AtTheEnd
<1> DEFINE A == Value(a)
           B == Value(b)
           R == Value(limbs)
           t == TwoTo521
<1>3. /\ A \in Nat /\ A < t /\ B \in Nat /\ B < t /\ R \in Nat /\ R < t /\ carry \in {0, 1}
      /\ limbs \in Limbs
  BY Numbers
<1>4. t \in Nat
  BY OrderSizes
<1>5. Value(before') = RawSum'
  <2>1. A + B = R + carry * t
    BY <1>2
  <2> HIDE DEF A, B, R, t
  <2>2. R = A + B - carry * t
    BY <1>3, <1>4, <2>1, Once
  <2> QED BY <1>1, <2>2 DEF RawSum, TwoTo521, A, B, R, t
<1>6. wrapped' = Bit(A + B >= t)
  <2>1. A + B = R + carry * t
    BY <1>2
  <2> HIDE DEF A, B, R, t
  <2> QED BY <1>1, <1>3, <1>4, <2>1, Once DEF Bit
<1>7. Sum(Part(before, index), wrapped * Part(Complement, index))'
  <2>1. limbs \in Digits /\ Complement \in Digits
    BY <1>3, LimbsValue, OrderSizes
  <2>2. PartSum(Part(limbs, 0), carry * Part(Complement, 0), Zero, 0, 0)
    BY <1>3, <2>1, AtTheStart
  <2> QED BY <1>1, <2>2 DEF Sum
<1>8. wrapped' = Bit(Value(a) + Value(b) >= TwoTo521)'
  BY <1>1, <1>6 DEF TwoTo521
<1> QED BY <1>1, <1>5, <1>7, <1>8 DEF AddInv

LEMMA FoldEndSums ==
    ASSUME CircuitInv, FoldEnd, Shaped(a), Shaped(b)
    PROVE  AddInv'
<1>1. /\ pc = "fold" /\ index = LimbCount /\ carry = 0 /\ op = "add"
      /\ pc' = "reduce" /\ index' = 0 /\ carry' = 0 /\ before' = limbs /\ limbs' = Zero
      /\ a' = a /\ b' = b /\ wrapped' = wrapped /\ needs' = 1 - LessThanOrder(limbs)
  BY DEF FoldEnd, Enter, statement, CircuitInv
<1>2. /\ Value(before) = RawSum
      /\ Value(before) + wrapped * Value(Complement) = Value(limbs) + carry * TwoTo521
      /\ wrapped = Bit(Value(a) + Value(b) >= TwoTo521)
  <2>1. AddInv
    BY <1>1 DEF CircuitInv
  <2>2. Sum(Part(before, index), wrapped * Part(Complement, index))
    BY <1>1, <2>1 DEF AddInv
  <2> QED BY <1>1, <2>1, <2>2, AtTheEnd DEF AddInv
<1>3. /\ Value(a) \in Nat /\ Value(b) \in Nat /\ Value(limbs) \in Nat /\ Value(before) \in Nat
      /\ wrapped \in {0, 1} /\ limbs \in Limbs
  BY Numbers
<1>4. Value(limbs) = FoldedSum
  <2>1. wrapped * Value(Complement) = wrapped * TwoTo521 - wrapped * N
    BY <1>3, OrderSizes, Once
  <2>2. /\ wrapped * TwoTo521 \in Int /\ wrapped * N \in Int /\ TwoTo521 \in Int
        /\ carry * TwoTo521 = 0
    BY <1>1, <1>3, OrderSizes
  <2> QED BY <1>2, <1>3, <2>1, <2>2 DEF RawSum, FoldedSum
<1>5. Value(before') = FoldedSum'
  BY <1>1, <1>4 DEF FoldedSum, N
<1>6. needs' = Bit(FoldedSum' >= N)
  <2>1. needs' = 1 - Bit(Value(limbs) < N)
    BY <1>1, <1>3, LessThanOrderExact
  <2>2. Value(limbs) = FoldedSum' /\ Value(limbs) \in Nat
    BY <1>1, <1>3, <1>5
  <2> QED BY <2>1, <2>2, OrderSizes DEF Bit
<1>7. Difference(Part(before, index), needs * Part(Order, index))'
  <2>1. limbs \in Digits /\ Order \in Digits
    BY <1>3, LimbsValue, OrderSizes
  <2>2. needs' \in {0, 1}
    BY <1>6 DEF Bit
  <2>3. PartDifference(Part(limbs, 0), needs' * Part(Order, 0), Zero, 0, 0)
    BY <2>1, <2>2, AtTheStart
  <2> QED BY <1>1, <2>3 DEF Difference
<1>8. wrapped' = Bit(Value(a) + Value(b) >= TwoTo521)'
  BY <1>1, <1>2 DEF TwoTo521
<1>9. needs' = Bit(FoldedSum >= N)'
  BY <1>6 DEF N
<1> QED BY <1>1, <1>5, <1>7, <1>8, <1>9 DEF AddInv

LEMMA SubtractEndSums ==
    ASSUME CircuitInv, SubtractEnd, Shaped(a), Shaped(b)
    PROVE  SubtractInv'
<1>1. /\ pc = "subtract" /\ index = LimbCount /\ op = "subtract"
      /\ pc' = "restore" /\ index' = 0 /\ carry' = 0 /\ before' = limbs /\ limbs' = Zero
      /\ a' = a /\ b' = b /\ needs' = carry
  BY DEF SubtractEnd, Enter, statement, CircuitInv
<1>2. Value(a) - Value(b) = Value(limbs) - carry * TwoTo521
  <2>1. Difference(Part(a, index), Part(b, index))
    BY <1>1 DEF CircuitInv, SubtractInv
  <2> QED BY <1>1, <2>1, AtTheEnd
<1>3. /\ Value(a) \in Nat /\ Value(b) \in Nat /\ Value(limbs) \in Nat
      /\ Value(a) < TwoTo521 /\ Value(b) < TwoTo521 /\ Value(limbs) < TwoTo521
      /\ carry \in {0, 1} /\ limbs \in Limbs
  BY Numbers
<1>4. TwoTo521 \in Nat
  BY OrderSizes
<1>5. Value(limbs) = Value(a) - Value(b) + carry * TwoTo521
  BY <1>2, <1>3, <1>4, Once
<1>6. carry = Bit(Value(a) < Value(b))
  BY <1>2, <1>3, <1>4, Once DEF Bit
<1>7. Sum(Part(before, index), needs * Part(Order, index))'
  <2>1. limbs \in Digits /\ Order \in Digits
    BY <1>3, LimbsValue, OrderSizes
  <2>2. PartSum(Part(limbs, 0), carry * Part(Order, 0), Zero, 0, 0)
    BY <1>3, <2>1, AtTheStart
  <2> QED BY <1>1, <2>2 DEF Sum
<1>8. (Value(before) = Value(a) - Value(b) + needs * TwoTo521)'
  BY <1>1, <1>5 DEF TwoTo521
<1>9. needs' = Bit(Value(a) < Value(b))'
  BY <1>1, <1>6
<1> QED BY <1>1, <1>7, <1>8, <1>9 DEF SubtractInv

LEMMA ResultEndSums ==
    ASSUME CircuitInv, ResultEnd, Shaped(a), Shaped(b)
    PROVE  /\ op = "add" => AddInv'
           /\ op = "subtract" => SubtractInv'
<1>1. /\ index = LimbCount /\ pc' = "order"
      /\ a' = a /\ b' = b /\ wrapped' = wrapped /\ needs' = needs /\ limbs' = limbs
  BY DEF ResultEnd, statement
<1>2. /\ Value(a) \in Nat /\ Value(b) \in Nat /\ Value(limbs) \in Nat /\ Value(before) \in Nat
      /\ carry \in {0, 1} /\ wrapped \in {0, 1} /\ needs \in {0, 1}
  BY Numbers
<1>3. /\ TwoTo521 \in Nat /\ N \in Nat
      /\ wrapped * N \in Int /\ needs * N \in Int /\ needs * TwoTo521 \in Int
  BY <1>2, OrderSizes, Once
<1>4. CASE pc = "reduce"
  <2>1. carry = 0 /\ op = "add" /\ AddInv
    BY <1>4 DEF ResultEnd, CircuitInv
  <2>2. Difference(Part(before, index), needs * Part(Order, index)) /\ Value(before) = FoldedSum
    BY <1>4, <2>1 DEF AddInv
  <2>3. Value(before) - needs * Value(Order) = Value(limbs) - carry * TwoTo521
    BY <1>1, <2>2, AtTheEnd
  <2>4. Value(limbs) = FoldedSum - needs * N
    <3>1. carry * TwoTo521 = 0
      BY <1>3, <2>1
    <3> QED BY <1>2, <1>3, <2>2, <2>3, <3>1 DEF N
  <2>5. (Value(limbs) = FoldedSum - needs * N)'
    BY <1>1, <2>4 DEF FoldedSum, N
  <2>6. (wrapped = Bit(Value(a) + Value(b) >= TwoTo521) /\ needs = Bit(FoldedSum >= N))'
    BY <1>1, <1>4, <2>1 DEF AddInv, FoldedSum, N, TwoTo521
  <2> QED BY <1>1, <2>1, <2>5, <2>6 DEF AddInv
<1>5. CASE pc = "restore"
  <2>1. carry = needs /\ op = "subtract" /\ SubtractInv
    BY <1>5 DEF ResultEnd, CircuitInv
  <2>2. /\ Sum(Part(before, index), needs * Part(Order, index))
        /\ Value(before) = Value(a) - Value(b) + needs * TwoTo521
    BY <1>5, <2>1 DEF SubtractInv
  <2>3. Value(before) + needs * Value(Order) = Value(limbs) + carry * TwoTo521
    BY <1>1, <2>2, AtTheEnd
  <2>4. Value(limbs) = Value(a) - Value(b) + needs * N
    <3> DEFINE back == needs * N
               borrowed == needs * TwoTo521
    <3>1. carry * TwoTo521 = borrowed /\ needs * Value(Order) = back
      BY <2>1 DEF N
    <3>2. back \in Int /\ borrowed \in Int
      BY <1>3
    <3>3. Value(before) = Value(a) - Value(b) + borrowed
      BY <2>2
    <3>4. Value(before) + back = Value(limbs) + borrowed
      BY <2>3, <3>1
    <3> HIDE DEF back, borrowed
    <3>5. Value(limbs) = Value(a) - Value(b) + back
      BY <1>2, <3>2, <3>3, <3>4
    <3> QED BY <3>5 DEF back
  <2>5. (Value(limbs) = Value(a) - Value(b) + needs * N)'
    BY <1>1, <2>4 DEF N
  <2>6. (needs = Bit(Value(a) < Value(b)))'
    BY <1>1, <1>5, <2>1 DEF SubtractInv
  <2> QED BY <1>1, <2>1, <2>5, <2>6 DEF SubtractInv
<1> QED BY <1>4, <1>5 DEF ResultEnd

-----------------------------------------------------------------------------
(* A witness that is accepted. *)

LEMMA Wraps ==
    ASSUME NEW x \in Int, NEW n \in Nat, n > 0
    PROVE  /\ 0 <= x /\ x < n => x % n = x /\ x \div n = 0
           /\ n <= x /\ x < 2 * n => x % n = x - n /\ x \div n = 1
<1>1. ASSUME 0 <= x, x < n PROVE x % n = x /\ x \div n = 0
  BY <1>1
<1>2. ASSUME n <= x, x < 2 * n PROVE x % n = x - n /\ x \div n = 1
  BY <1>2
<1> QED BY <1>1, <1>2

\* The reference's sum of two numbers below the order.
LEMMA OrderAddTraceIs ==
    ASSUME Value(a) \in Nat, Value(b) \in Nat, Value(a) < N, Value(b) < N,
           wrapped = Bit(Value(a) + Value(b) >= TwoTo521), needs = Bit(FoldedSum >= N)
    PROVE  /\ OrderAddTrace(Value(a), Value(b)).result = FoldedSum - needs * N
           /\ OrderAddTrace(Value(a), Value(b)).needsSubtract = needs
           /\ (Value(a) + Value(b)) % N = FoldedSum - needs * N
           /\ FoldedSum - needs * N \in Nat /\ FoldedSum - needs * N < N
<1> DEFINE t == TwoTo521
           n == N
           x == Value(a)
           y == Value(b)
           folded == FoldedSum
           taken == needs
<1>1. /\ x \in Nat /\ y \in Nat /\ x < n /\ y < n
      /\ wrapped = Bit(x + y >= t) /\ folded = x + y - wrapped * n /\ taken = Bit(folded >= n)
  BY DEF FoldedSum
<1> HIDE DEF x, y, folded, taken
<1>2. t \in Nat /\ n \in Nat /\ n <= t /\ n > 0 /\ t > 0
  BY <1>1, OrderSizes
<1>3. /\ x + y < t => (x + y) % t = x + y /\ (x + y) \div t = 0
      /\ t <= x + y => (x + y) % t = x + y - t /\ (x + y) \div t = 1
  BY <1>1, <1>2, Wraps
<1>4. /\ x + y < n => (x + y) % n = x + y
      /\ n <= x + y => (x + y) % n = x + y - n
  BY <1>1, <1>2, Wraps
<1> DEFINE f == ((x + y) % t) + ((x + y) \div t) * (t - n)
<1>5. f = IF x + y < t THEN x + y ELSE x + y - n
  <2>1. CASE x + y < t
    <3>1. 0 * (t - n) = 0
      BY <1>1, <1>2
    <3> HIDE DEF t, n
    <3> QED BY <1>1, <1>2, <1>3, <2>1, <3>1
  <2>2. CASE t <= x + y
    <3>1. 1 * (t - n) = t - n
      BY <1>1, <1>2
    <3> HIDE DEF t, n
    <3> QED BY <1>1, <1>2, <1>3, <2>2, <3>1
  <2> QED BY <1>1, <1>2, <2>1, <2>2
<1>6. folded = IF x + y < t THEN x + y ELSE x + y - n
  BY <1>1, <1>2 DEF Bit
<1>7. f = folded
  BY <1>5, <1>6
<1>8. OrderAddTrace(x, y) = [result |-> IF f >= n THEN f - n ELSE f, needsSubtract |-> Bit(f >= n)]
  BY DEF OrderAddTrace
<1> HIDE DEF f, t, n
<1>9. folded \in Nat /\ x + y < 2 * n /\ (x + y < t => folded = x + y)
      /\ (x + y >= t => folded = x + y - n /\ folded < n)
  BY <1>1, <1>2, <1>6 DEF n
<1>10. folded - taken * N = IF folded >= n THEN folded - n ELSE folded
  <2>1. folded >= n => taken = 1 /\ taken * n = n
    BY <1>1, <1>2 DEF Bit, n
  <2>2. ~ (folded >= n) => taken = 0 /\ taken * n = 0
    BY <1>1, <1>2 DEF Bit, n
  <2> QED BY <1>1, <1>2, <1>9, <2>1, <2>2 DEF n
<1>11. (x + y) % n = IF folded >= n THEN folded - n ELSE folded
  <2> DEFINE m == (x + y) % n
  <2>1. (x + y < n => m = x + y) /\ (n <= x + y => m = x + y - n)
    BY <1>4
  <2> HIDE DEF m
  <2>2. m = IF folded >= n THEN folded - n ELSE folded
    BY <1>1, <1>2, <1>9, <2>1
  <2> QED BY <2>2 DEF m
<1>12. taken = Bit(f >= n)
  BY <1>1, <1>7
<1>13. /\ OrderAddTrace(x, y).result = folded - taken * N
       /\ OrderAddTrace(x, y).needsSubtract = taken
       /\ (x + y) % N = folded - taken * N
       /\ folded - taken * N \in Nat /\ folded - taken * N < N
  BY <1>1, <1>2, <1>7, <1>8, <1>9, <1>10, <1>11, <1>12 DEF n
<1> QED BY <1>13 DEF x, y, folded, taken

LEMMA OrderSubtractIs ==
    ASSUME NEW x \in Nat, NEW y \in Nat, x < N, y < N,
           NEW taken, taken = Bit(x < y)
    PROVE  /\ OrderSubtract(x, y) = x - y + taken * N
           /\ x - y + taken * N \in Nat /\ x - y + taken * N < N
<1>1. N \in Nat /\ N > 0
  BY OrderSizes
<1>2. x - y + N \in Int /\ 0 <= x - y + N /\ x - y + N < 2 * N
  BY <1>1
<1>3. /\ x - y + N < N => (x - y + N) % N = x - y + N
      /\ N <= x - y + N => (x - y + N) % N = x - y + N - N
  BY <1>1, <1>2, Wraps
<1>4. x < y => taken = 1 /\ taken * N = N
  BY <1>1 DEF Bit
<1>5. ~ (x < y) => taken = 0 /\ taken * N = 0
  BY <1>1 DEF Bit
<1> QED BY <1>1, <1>2, <1>3, <1>4, <1>5 DEF OrderSubtract

LEMMA AcceptedIsSound ==
    ASSUME CircuitInv, OrderEnd
    PROVE  Sound'
<1>1. /\ pc = "order" /\ Shaped(a) /\ Shaped(b)
      /\ \A x \in {a, b, limbs} : LessThanOrder(x) = 1
      /\ pc' = "accepted" /\ op' = op /\ a' = a /\ b' = b /\ needs' = needs /\ limbs' = limbs
  BY DEF OrderEnd, statement
<1>2. op \in {"add", "subtract"}
  BY <1>1 DEF CircuitInv, TypeOK
<1>3. \A x \in {a, b, limbs} : x \in Limbs /\ Value(x) \in Nat
  BY <1>1, Numbers
<1>4. \A x \in {a, b, limbs} : Value(x) < N
  BY <1>1, <1>3, LessThanOrderExact DEF Bit
<1>5. IsOrderValue(a) /\ IsOrderValue(b)
  BY <1>1, <1>4 DEF IsOrderValue
<1>6. CASE op = "add"
  <2>1. AddInv
    BY <1>1, <1>6 DEF CircuitInv
  <2>2. /\ OrderAddTrace(Value(a), Value(b)).result = FoldedSum - needs * N
        /\ OrderAddTrace(Value(a), Value(b)).needsSubtract = needs
        /\ (Value(a) + Value(b)) % N = FoldedSum - needs * N
    <3>1. /\ wrapped = Bit(Value(a) + Value(b) >= TwoTo521)
          /\ needs = Bit(FoldedSum >= N)
      BY <1>1, <2>1 DEF AddInv
    <3>2. Value(a) \in Nat /\ Value(b) \in Nat /\ Value(a) < N /\ Value(b) < N
      BY <1>3, <1>4
    <3> QED BY <3>1, <3>2, OrderAddTraceIs
  <2>3. Value(limbs) = FoldedSum - needs * N
    BY <1>1, <2>1 DEF AddInv
  <2> QED BY <1>1, <1>5, <1>6, <2>2, <2>3 DEF Sound, IsOrderValue, Shaped, OrderAddTrace, TwoTo521, N
<1>7. CASE op = "subtract"
  <2>1. SubtractInv
    BY <1>1, <1>7 DEF CircuitInv
  <2>2. needs = Bit(Value(a) < Value(b)) /\ Value(limbs) = Value(a) - Value(b) + needs * N
    BY <1>1, <2>1 DEF SubtractInv
  <2>3. OrderSubtract(Value(a), Value(b)) = Value(a) - Value(b) + needs * N
    <3>1. Value(a) \in Nat /\ Value(b) \in Nat /\ Value(a) < N /\ Value(b) < N
      BY <1>3, <1>4
    <3> QED BY <2>2, <3>1, OrderSubtractIs, Zenon
  <2> QED BY <1>1, <1>5, <1>7, <2>2, <2>3 DEF Sound, IsOrderValue, Shaped, OrderSubtract, N
<1> QED BY <1>2, <1>6, <1>7

LEMMA RangeIsSound ==
    ASSUME CircuitInv, RangeEnd
    PROVE  Sound'
<1>1. /\ pc = "range" /\ Shaped(a) /\ Shaped(b) /\ op = "range"
      /\ pc' = "accepted" /\ op' = op /\ a' = a /\ b' = b /\ needs' = InRange(a) * InRange(b)
  BY DEF RangeEnd, statement, CircuitInv
<1>2. a \in Limbs /\ b \in Limbs
  BY <1>1, Numbers
<1>3. /\ InRange(a) = Bit(IsOrderValue(a) /\ Value(a) > 0)
      /\ InRange(b) = Bit(IsOrderValue(b) /\ Value(b) > 0)
  BY <1>1, <1>2, InRangeExact
<1>4. needs' = Bit(\A x \in {a, b} : IsOrderValue(x) /\ Value(x) > 0)
  BY <1>1, <1>3 DEF Bit
<1> QED BY <1>1, <1>4 DEF Sound, IsOrderValue, Shaped, N

-----------------------------------------------------------------------------
(* A witness that is refused. *)

\* Operands in range have a limb and a carry to go on with.
LEMMA SplitsExist ==
    ASSUME CircuitInv, pc \in Loops, index < LimbCount,
           Shaped(a), Shaped(b), Value(a) < N, Value(b) < N
    PROVE  Splits # {}
<1>1. TypeOK /\ index \in Index /\ index \in 0..LimbCount
  BY SplitsOne, IndexSizes DEF CircuitInv
<1>2. /\ \A x \in {a, b, before, limbs} : x \in Limbs /\ Value(x) \in Nat /\ Value(x) < TwoTo521
      /\ carry \in {0, 1} /\ wrapped \in {0, 1} /\ needs \in {0, 1}
  BY Numbers
<1>3. /\ \A x \in {a, b, before, Order, Complement} : x[index] \in Nat /\ x[index] \in Limb
      /\ Base(index) \in Nat /\ 0 < Base(index) /\ Base(index) <= Radix /\ Radix \in Nat
  BY <1>1, <1>2, LimbsValue, OrderSizes, Sizes DEF Limbs
<1>4. a[index] < Base(index) /\ b[index] < Base(index) /\ before[index] < Base(index)
  BY <1>1 DEF CircuitInv, Shaped
<1>5. ASSUME NEW x \in Limbs, Value(x) < TwoTo521 PROVE x[index] < Base(index)
  <2>1. x[Top] < TopRadix
    BY <1>5, TopDecides, OrderSizes
  <2>2. x[index] < Radix
    BY <1>1, LimbsValue
  <2> QED BY <2>1, <2>2 DEF Base
<1>6. CASE pc = "add"
  <2> DEFINE sum == a[index] + b[index] + carry
  <2>1. sum \in Nat /\ sum < 4 * Radix /\ sum < 2 * Base(index)
    BY <1>2, <1>3, <1>4
  <2>2. Splits = CarrySplits(sum)
    BY <1>6 DEF Splits
  <2> HIDE DEF sum
  <2> QED BY <1>1, <2>1, <2>2, CarrySplitsExact
<1>7. CASE pc = "fold"
  <2> DEFINE y == wrapped * Complement[index]
             sum == before[index] + y + carry
  <2>1. Complement[index] < Base(index)
    <3>1. Value(Complement) < TwoTo521
      BY <1>2, OrderSizes
    <3> QED BY <1>5, <3>1, OrderSizes
  <2>2. y \in Nat /\ y <= Complement[index]
    <3>1. y \in {0, Complement[index]}
      BY <1>2, <1>3
    <3> HIDE DEF y
    <3> QED BY <1>3, <3>1
  <2> HIDE DEF y
  <2>3. sum \in Nat /\ sum < 4 * Radix /\ sum < 2 * Base(index)
    BY <1>2, <1>3, <1>4, <2>1, <2>2
  <2>4. Splits = CarrySplits(sum)
    BY <1>7 DEF Splits, y
  <2> HIDE DEF sum
  <2> QED BY <1>1, <2>3, <2>4, CarrySplitsExact
<1>8. CASE pc = "reduce"
  <2> DEFINE y == needs * Order[index]
  <2>1. y \in Limb /\ y < Base(index)
    <3>1. CASE needs = 0
      BY <1>3, <3>1 DEF Limb
    <3>2. CASE needs = 1
      <4>1. AddInv
        BY <1>8 DEF CircuitInv
      <4>2. Value(before) >= N
        BY <1>8, <3>2, <4>1 DEF AddInv, Bit
      <4>3. N < TwoTo521
        BY <1>2, <4>2, OrderSizes
      <4>4. Order[index] < Base(index)
        BY <1>5, <4>3, OrderSizes DEF N
      <4>5. y = Order[index]
        BY <1>3, <3>2
      <4> QED BY <1>3, <4>4, <4>5
    <3> QED BY <1>2, <3>1, <3>2
  <2>2. Splits = BorrowSplits(before[index], y)
    BY <1>8 DEF Splits
  <2> HIDE DEF y
  <2> QED BY <1>1, <1>2, <1>3, <1>4, <2>1, <2>2, BorrowSplitsExact
<1>9. CASE pc = "subtract"
  <2>1. Splits = BorrowSplits(a[index], b[index])
    BY <1>9 DEF Splits
  <2> QED BY <1>1, <1>2, <1>3, <1>4, <2>1, BorrowSplitsExact
<1>10. CASE pc = "restore"
  <2> DEFINE y == needs * Order[index]
             sum == before[index] + y + carry
  <2>1. y \in Nat /\ y <= Order[index] /\ Order[index] < Radix
    <3>1. y \in {0, Order[index]} /\ Order[index] < Radix
      BY <1>1, <1>2, <1>3, LimbsValue, OrderSizes
    <3> HIDE DEF y
    <3> QED BY <1>3, <3>1
  <2> HIDE DEF y
  <2>2. CASE Order[index] < Base(index)
    <3>1. sum \in Nat /\ sum < 4 * Radix /\ sum < 2 * Base(index)
      BY <1>2, <1>3, <1>4, <2>1, <2>2
    <3>2. Splits = CarrySplits(sum)
      BY <1>10 DEF Splits, y
    <3> HIDE DEF sum
    <3> QED BY <1>1, <3>1, <3>2, CarrySplitsExact
  <2>3. CASE Base(index) <= Order[index]
    \* The order is 2^521 itself: only its top limb is not 0.
    <3>1. index = Top /\ Base(index) = TopRadix /\ N = TwoTo521 /\ Top \in 0..LimbCount
          /\ Top + 1 = LimbCount
      <4>1. ~ (N < TwoTo521)
        BY <1>3, <1>5, <2>3, OrderSizes DEF N
      <4>2. index = Top
        BY <2>1, <2>3, <1>3 DEF Base
      <4> QED BY <4>1, <4>2, OrderSizes, IndexSizes DEF Base
    <3> DEFINE p == Place(Top)
    <3>2. /\ p \in Nat /\ p > 0 /\ TwoTo521 = TopRadix * p
          /\ N = Part(Order, Top) + Order[Top] * p /\ Part(Order, Top) \in Nat
      <4>1. Order \in Digits /\ Top \in Index
        BY LimbsValue, OrderSizes, IndexSizes
      <4> QED BY <3>1, <4>1, PlaceDef, PartDef, OrderSizes DEF N, Value
    <3>3. Order[Top] = TopRadix /\ Part(Order, Top) = 0
      <4>1. TopRadix \in Nat /\ Order[Top] \in Nat /\ TopRadix <= Order[Top]
        BY <1>3, <2>3, <3>1
      <4> HIDE DEF p
      <4>2. TopRadix * p \in Nat /\ Order[Top] * p \in Nat
        BY <3>2, <4>1
      <4>3. TopRadix * p <= Order[Top] * p
        BY <3>2, <4>1, TimesMonotone
      <4>4. Part(Order, Top) = 0 /\ Order[Top] * p = TopRadix * p
        BY <3>1, <3>2, <4>2, <4>3
      <4>5. CASE TopRadix + 1 <= Order[Top]
        <5>1. (TopRadix + 1) * p <= Order[Top] * p
          BY <3>2, <4>1, <4>5, TimesMonotone
        <5>2. (TopRadix + 1) * p = TopRadix * p + p
          BY <3>2, <4>1
        <5> QED BY <3>2, <4>2, <4>4, <5>1, <5>2
      <4> QED BY <4>1, <4>4, <4>5
    <3>4. carry = 0
      <4>1. Sum(Part(before, Top), needs * Part(Order, Top))
        BY <1>10, <3>1 DEF CircuitInv, SubtractInv
      <4>2. Part(before, Top) = Part(limbs, Top) + carry * p
        <5>1. needs * Part(Order, Top) = 0
          BY <1>2, <3>3
        <5>2. Part(before, Top) \in Nat
          BY <1>2, <3>1, LimbsValue, PartDef
        <5> QED BY <3>1, <4>1, <5>1, <5>2 DEF Sum, PartSum
      <4>3. Part(before, Top) < p /\ Part(before, Top) \in Nat /\ Part(limbs, Top) \in Nat
        <5>1. before \in Digits /\ limbs \in Digits
          BY <1>2, LimbsValue
        <5>2. \A k \in Index : k < Top => before[k] < Base(k)
          BY DEF CircuitInv, Shaped
        <5> QED BY <3>1, <5>1, <5>2, PartBound, PartDef
      <4> HIDE DEF p
      <4> QED BY <1>2, <3>2, <4>2, <4>3, Once
    <3>5. sum \in Nat /\ sum < 4 * Radix /\ sum < 2 * Base(index)
      BY <1>3, <1>4, <2>1, <3>1, <3>3, <3>4
    <3>6. Splits = CarrySplits(sum)
      BY <1>10 DEF Splits, y
    <3> HIDE DEF sum
    <3> QED BY <1>1, <3>5, <3>6, CarrySplitsExact
  <2> QED BY <1>3, <2>2, <2>3
<1> QED BY <1>6, <1>7, <1>8, <1>9, <1>10 DEF Loops

\* What a loop ends with is what the constraint after it asks for.
LEMMA EndsHold ==
    ASSUME CircuitInv, index = LimbCount, Shaped(a), Shaped(b), Value(a) < N, Value(b) < N
    PROVE  /\ pc \in {"fold", "reduce"} => carry = 0
           /\ pc = "restore" => carry = needs
<1> DEFINE A == Value(a)
           B == Value(b)
           E == Value(before)
           R == Value(limbs)
           t == TwoTo521
           n == N
           overflow == wrapped * t
           back == needs * n
           borrowed == needs * t
           out == carry * t
<1>1. /\ A \in Nat /\ B \in Nat /\ E \in Nat /\ R \in Nat /\ E < t /\ R < t
      /\ carry \in {0, 1} /\ wrapped \in {0, 1} /\ needs \in {0, 1}
  BY Numbers
<1>2. t \in Nat /\ n \in Nat /\ n <= t /\ t > 0 /\ A < n /\ B < n
  BY OrderSizes
<1>3. out = IF carry = 1 THEN t ELSE 0
  BY <1>1, <1>2, Once
<1>4. back = IF needs = 1 THEN n ELSE 0
  BY <1>1, <1>2, Once
<1>5. CASE pc = "fold"
  <2>1. AddInv
    BY <1>5 DEF CircuitInv
  <2>2. Sum(Part(before, index), wrapped * Part(Complement, index)) /\ E = A + B - overflow
    BY <1>5, <2>1 DEF AddInv, RawSum
  <2>3. E + wrapped * Value(Complement) = R + out
    BY <2>2, AtTheEnd
  <2>4. CASE wrapped = 0
    <3>1. wrapped * Value(Complement) = 0
      BY <2>4, OrderSizes
    <3> HIDE DEF A, B, E, R, t, n, overflow, back, borrowed, out
    <3>2. E = R + out
      BY <1>1, <1>2, <1>3, <2>3, <3>1
    <3> QED BY <1>1, <1>2, <1>3, <1>5, <3>2
  <2>5. CASE wrapped = 1
    <3>1. wrapped * Value(Complement) = t - n /\ overflow = t
      BY <2>5, OrderSizes, Once
    <3> HIDE DEF A, B, E, R, t, n, overflow, back, borrowed, out
    <3>2. A + B - n = R + out
      BY <1>1, <1>2, <1>3, <2>2, <2>3, <3>1
    <3> QED BY <1>1, <1>2, <1>3, <1>5, <3>2
  <2> QED BY <1>1, <2>4, <2>5
<1>6. CASE pc = "reduce"
  <2>1. AddInv
    BY <1>6 DEF CircuitInv
  <2>2. Difference(Part(before, index), needs * Part(Order, index)) /\ needs = Bit(E >= n)
    BY <1>6, <2>1 DEF AddInv
  <2>3. E - back = R - out
    BY <2>2, AtTheEnd DEF N
  <2>4. needs = 1 => E >= n
    BY <2>2 DEF Bit
  <2> HIDE DEF A, B, E, R, t, n, overflow, back, borrowed, out
  <2>5. E - back \in Nat
    BY <1>1, <1>2, <1>4, <2>4
  <2> QED BY <1>1, <1>2, <1>3, <1>6, <2>3, <2>5
<1>7. CASE pc = "restore"
  <2>1. SubtractInv
    BY <1>7 DEF CircuitInv
  <2>2. /\ Sum(Part(before, index), needs * Part(Order, index))
        /\ E = A - B + borrowed /\ needs = Bit(A < B)
    BY <1>7, <2>1 DEF SubtractInv
  <2>3. E + back = R + out
    BY <2>2, AtTheEnd DEF N
  <2>4. borrowed = IF needs = 1 THEN t ELSE 0
    BY <1>1, <1>2, Once
  <2>5. needs = 1 <=> A < B
    BY <2>2 DEF Bit
  <2> HIDE DEF A, B, E, R, t, n, overflow, back, borrowed, out
  <2> QED BY <1>1, <1>2, <1>3, <1>4, <1>7, <2>2, <2>3, <2>4, <2>5
<1> QED BY <1>5, <1>6, <1>7

LEMMA RefusedIsOutOfRange ==
    ASSUME CircuitInv, Refuse
    PROVE  Complete'
<1>1. pc' = "refused" /\ prover' = prover /\ op' = op /\ a' = a /\ b' = b
  BY DEF Refuse, statement
<1>2. CASE op = "range"
  <2>1. pc \notin Loops \cup {"fold", "reduce", "restore", "order"}
    BY <1>2 DEF CircuitInv, Loops, Refuse
  <2>2. ~ (Shaped(a) /\ Shaped(b))
    BY <2>1 DEF Refuse
  <2> QED BY <1>1, <1>2, <2>2 DEF Complete, Shaped
<1>3. CASE op # "range"
  <2>1. ASSUME IsOrderValue(a), IsOrderValue(b) PROVE FALSE
    <3>1. Shaped(a) /\ Shaped(b) /\ Value(a) < N /\ Value(b) < N
      BY <2>1 DEF IsOrderValue
    <3>2. ~ (pc \in Loops /\ index < LimbCount /\ Splits = {})
      BY <3>1, SplitsExist
    <3>3. ~ (pc \in {"fold", "reduce"} /\ index = LimbCount /\ carry # 0)
      BY <3>1, EndsHold
    <3>4. ~ (pc = "restore" /\ index = LimbCount /\ carry # needs)
      BY <3>1, EndsHold
    <3>5. pc # "range"
      BY <1>3 DEF CircuitInv
    <3>6. pc = "order" /\ \E x \in {a, b, limbs} : LessThanOrder(x) # 1
      BY <3>1, <3>2, <3>3, <3>4, <3>5 DEF Refuse
    <3>7. a \in Limbs /\ b \in Limbs /\ limbs \in Limbs /\ Value(a) \in Nat /\ Value(b) \in Nat
      BY <3>1, Numbers
    <3>8. Value(limbs) < N
      <4>1. CASE op = "add"
        <5>1. AddInv
          BY <3>1, <4>1 DEF CircuitInv
        <5>2. /\ wrapped = Bit(Value(a) + Value(b) >= TwoTo521)
              /\ needs = Bit(FoldedSum >= N) /\ Value(limbs) = FoldedSum - needs * N
          BY <3>6, <5>1 DEF AddInv
        <5> QED BY <3>1, <3>7, <5>2, OrderAddTraceIs
      <4>2. CASE op = "subtract"
        <5>1. SubtractInv
          BY <3>1, <4>2 DEF CircuitInv
        <5>2. /\ needs = Bit(Value(a) < Value(b))
              /\ Value(limbs) = Value(a) - Value(b) + needs * N
          BY <3>6, <5>1 DEF SubtractInv
        <5> QED BY <3>1, <3>7, <5>2, OrderSubtractIs, Zenon
      <4> QED BY <1>3, <4>1, <4>2 DEF CircuitInv, TypeOK
    <3>9. \A x \in {a, b, limbs} : LessThanOrder(x) = 1
      BY <3>1, <3>7, <3>8, LessThanOrderExact DEF Bit
    <3> QED BY <3>6, <3>9
  <2> QED BY <1>1, <1>3, <2>1 DEF Complete, IsOrderValue, Shaped, N
<1> QED BY <1>2, <1>3

-----------------------------------------------------------------------------

LEMMA InvInitially == Init => CircuitInv
<1> SUFFICES ASSUME Init PROVE CircuitInv
  OBVIOUS
<1>1. /\ TypeOK /\ index = 0 /\ carry = 0 /\ before = Zero /\ limbs = Zero
      /\ op \in {"add", "subtract", "range"} /\ pc = op
  BY TypesInitially DEF Init
<1>2. Shaped(Zero)
  BY PlaceDef DEF Shaped, Zero
<1>3. a \in Digits /\ b \in Digits
  BY <1>1, ShapedOperands
<1>4. Sum(Part(a, index), Part(b, index)) /\ Difference(Part(a, index), Part(b, index))
  BY <1>1, <1>3, AtTheStart DEF Sum, Difference
<1>5. (op = "add" => AddInv) /\ (op = "subtract" => SubtractInv)
  BY <1>1, <1>4 DEF AddInv, SubtractInv
<1>6. Sound /\ Complete
  BY <1>1 DEF Sound, Complete
<1> QED BY <1>1, <1>2, <1>5, <1>6 DEF CircuitInv

LEMMA InvStays ==
    ASSUME CircuitInv, [Next]_vars
    PROVE  CircuitInv'
<1>1. TypeOK'
  BY TypesStay DEF CircuitInv
<1>2. CASE UNCHANGED vars
  <2>1. /\ pc' = pc /\ prover' = prover /\ op' = op /\ a' = a /\ b' = b /\ index' = index
        /\ carry' = carry /\ wrapped' = wrapped /\ needs' = needs /\ before' = before
        /\ limbs' = limbs
    BY <1>2 DEF vars
  <2>2. /\ Shaped(a)' = Shaped(a) /\ Shaped(b)' = Shaped(b)
        /\ Shaped(before)' = Shaped(before) /\ Shaped(limbs)' = Shaped(limbs)
    BY <2>1 DEF Shaped
  <2>3. AddInv => AddInv'
    BY <2>1 DEF AddInv, Sum, Difference, RawSum, FoldedSum, N, TwoTo521, PartSum, PartDifference
  <2>4. SubtractInv => SubtractInv'
    BY <2>1 DEF SubtractInv, Sum, Difference, N, TwoTo521, PartSum, PartDifference
  <2>5. Sound => Sound'
    BY <2>1 DEF Sound, IsOrderValue, Shaped, N, TwoTo521, OrderAddTrace, OrderSubtract
  <2>6. Complete => Complete'
    BY <2>1 DEF Complete, IsOrderValue, Shaped, N
  <2> QED BY <1>1, <2>1, <2>2, <2>3, <2>4, <2>5, <2>6 DEF CircuitInv
<1>3. CASE Next
  <2>1. Shaped(before)' /\ Shaped(limbs)' /\ a' = a /\ b' = b /\ op' = op
    BY <1>3, ShapesStay DEF Next, LimbStep, AddEnd, FoldEnd, SubtractEnd, ResultEnd, OrderEnd,
                            RangeEnd, Refuse, Enter, statement
  <2>2. Shaped(a)' = Shaped(a) /\ Shaped(b)' = Shaped(b)
    BY <2>1 DEF Shaped
  <2>3. CASE LimbStep
    <3>1. pc' = pc /\ pc \in Loops
      BY <2>3 DEF LimbStep
    <3>2. Sound' /\ Complete'
      BY <3>1 DEF Loops, Sound, Complete
    <3> QED BY <1>1, <2>1, <2>2, <2>3, <3>1, <3>2, LimbStepSums DEF CircuitInv
  <2>4. CASE AddEnd
    <3>1. pc' = "fold" /\ pc = "add"
      BY <2>4 DEF AddEnd, Enter
    <3>2. Sound' /\ Complete'
      BY <3>1 DEF Sound, Complete
    <3> QED BY <1>1, <2>1, <2>2, <2>4, <3>1, <3>2, AddEndSums DEF CircuitInv
  <2>5. CASE FoldEnd
    <3>1. pc' = "reduce" /\ pc = "fold"
      BY <2>5 DEF FoldEnd, Enter
    <3>2. Sound' /\ Complete'
      BY <3>1 DEF Sound, Complete
    <3> QED BY <1>1, <2>1, <2>2, <2>5, <3>1, <3>2, FoldEndSums DEF CircuitInv
  <2>6. CASE SubtractEnd
    <3>1. pc' = "restore" /\ pc = "subtract"
      BY <2>6 DEF SubtractEnd, Enter
    <3>2. Sound' /\ Complete'
      BY <3>1 DEF Sound, Complete
    <3> QED BY <1>1, <2>1, <2>2, <2>6, <3>1, <3>2, SubtractEndSums DEF CircuitInv
  <2>7. CASE ResultEnd
    <3>1. pc' = "order" /\ pc \in {"reduce", "restore"}
      BY <2>7 DEF ResultEnd
    <3>2. Sound' /\ Complete'
      BY <3>1 DEF Sound, Complete
    <3> QED BY <1>1, <2>1, <2>2, <2>7, <3>1, <3>2, ResultEndSums DEF CircuitInv
  <2>8. CASE OrderEnd \/ RangeEnd
    <3>1. pc' = "accepted"
      BY <2>8 DEF OrderEnd, RangeEnd
    <3>2. Sound' /\ Complete'
      BY <2>8, <3>1, AcceptedIsSound, RangeIsSound DEF Complete
    <3>3. AddInv' /\ SubtractInv'
      BY <3>1 DEF AddInv, SubtractInv
    <3> QED BY <1>1, <2>1, <3>1, <3>2, <3>3 DEF CircuitInv
  <2>9. CASE Refuse
    <3>1. pc' = "refused"
      BY <2>9 DEF Refuse
    <3>2. Sound' /\ Complete'
      BY <2>9, <3>1, RefusedIsOutOfRange DEF Sound
    <3>3. AddInv' /\ SubtractInv'
      BY <3>1 DEF AddInv, SubtractInv
    <3> QED BY <1>1, <2>1, <3>1, <3>2, <3>3 DEF CircuitInv
  <2> QED BY <1>3, <2>3, <2>4, <2>5, <2>6, <2>7, <2>8, <2>9 DEF Next
<1> QED BY <1>2, <1>3

\* Between them, the limbs made and the carry are the sum or the difference
\* each loop of a circuit is to make, and nobody ends with anything else.
THEOREM CircuitsKeepTheirSums == Spec => []CircuitInv
BY InvInitially, InvStays, PTL DEF Spec

\* A witness of the addition, subtraction or range circuit, whoever makes it,
\* has outputs that are the reference's: for every order, radix and number of
\* limbs.
THEOREM AcceptedWitnessIsExact == Spec => []Sound
<1>1. CircuitInv => Sound
  BY DEF CircuitInv
<1> QED BY <1>1, CircuitsKeepTheirSums, PTL

\* The hints of the witness calculator satisfy every constraint, for all
\* operands in range.
THEOREM NoOperandsInRangeAreRefused == Spec => []Complete
<1>1. CircuitInv => Complete
  BY DEF CircuitInv
<1> QED BY <1>1, CircuitsKeepTheirSums, PTL

=============================================================================
