--------------------------- MODULE FieldProbe_proofs --------------------------
(***************************************************************************)
(* Proofs about FieldElement, FieldEncoding and FieldProbe, for any number *)
(* of limbs, any radix and any top limb that leaves a bit to carry into:   *)
(* no carry or borrow is lost, every element returned is canonical and is  *)
(* the sum, difference or opposite modulo p, and what the probe prints of  *)
(* bytes is the encoding of that.                                          *)
(***************************************************************************)
EXTENDS FieldProbe, LimbTheorems, SequenceTheorems

-----------------------------------------------------------------------------
(* One limb. *)

\* Wrapping, by no more than once.
LEMMA Wrap ==
    ASSUME NEW x \in Int, NEW n \in Nat \ {0}
    PROVE  /\ 0 <= x /\ x < n => x % n = x /\ x \div n = 0
           /\ n <= x /\ x < 2 * n => x % n = x - n /\ x \div n = 1
           /\ -n <= x /\ x < 0 => x % n = x + n
<1>1. ASSUME 0 <= x, x < n PROVE x % n = x /\ x \div n = 0
  BY <1>1
<1>2. ASSUME n <= x, x < 2 * n PROVE x % n = x - n /\ x \div n = 1
  BY <1>2
<1>3. ASSUME -n <= x, x < 0 PROVE x % n = x + n
  BY <1>3
<1> QED BY <1>1, <1>2, <1>3

\* The sum of two limbs and a carry, and the carry out.
LEMMA AddLimbExact ==
    ASSUME NEW l \in Limb, NEW r \in Limb, NEW c \in {0, 1}
    PROVE  LET sum == AddLimb(l, r, c)
           IN  /\ sum.limb \in Limb /\ sum.carry \in {0, 1}
               /\ sum.limb = l + r + c - sum.carry * Radix
               /\ sum.carry = 0 <=> l + r + c < Radix
<1> DEFINE first == (l + r) % Radix
           second == (first + c) % Radix
<1>0. Radix \in Nat \ {0} /\ Radix >= 4 /\ l \in 0..(Radix - 1) /\ r \in 0..(Radix - 1)
  BY LimbAssumption DEF Limb
<1>1. /\ l + r < Radix => first = l + r
      /\ l + r >= Radix => first = l + r - Radix
  BY <1>0
<1>2. first \in 0..(Radix - 1)
  BY <1>0, <1>1
<1> HIDE DEF first
<1>3. /\ first + c < Radix => second = first + c
      /\ first + c >= Radix => second = first + c - Radix
  BY <1>0, <1>2
<1>4. AddLimb(l, r, c) = [limb |-> second, carry |-> Either(Bit(first < l), Bit(second < first))]
  BY DEF AddLimb, first, second
<1> HIDE DEF second
<1> DEFINE carried == IF first < l \/ second < first THEN 1 ELSE 0
<1>5. AddLimb(l, r, c) = [limb |-> second, carry |-> carried]
  BY <1>4 DEF Either, Bit
<1>6. /\ carried \in {0, 1}
      /\ carried = 0 <=> l + r + c < Radix
      /\ second = l + r + c - carried * Radix
      /\ second \in 0..(Radix - 1)
  BY <1>0, <1>1, <1>2, <1>3
<1> HIDE DEF carried
<1> QED BY <1>5, <1>6 DEF Limb

\* The difference of two limbs and a borrow, and the borrow out.
LEMMA SubtractLimbExact ==
    ASSUME NEW l \in Limb, NEW r \in Limb, NEW b \in {0, 1}
    PROVE  LET difference == SubtractLimb(l, r, b)
           IN  /\ difference.limb \in Limb /\ difference.borrow \in {0, 1}
               /\ difference.limb = l - r - b + difference.borrow * Radix
               /\ difference.borrow = 0 <=> l - r - b >= 0
<1> DEFINE first == (l - r) % Radix
           second == (first - b) % Radix
<1>0. Radix \in Nat \ {0} /\ Radix >= 4 /\ l \in 0..(Radix - 1) /\ r \in 0..(Radix - 1)
  BY LimbAssumption DEF Limb
<1>1. /\ l >= r => first = l - r
      /\ l < r => first = l - r + Radix
  BY <1>0
<1>2. first \in 0..(Radix - 1)
  BY <1>0, <1>1
<1> HIDE DEF first
<1>3. /\ first >= b => second = first - b
      /\ first < b => second = first - b + Radix
  BY <1>0, <1>2
<1>4. SubtractLimb(l, r, b) =
        [limb |-> second, borrow |-> Either(Bit(l < r), Bit(first < b))]
  BY DEF SubtractLimb, first, second
<1> HIDE DEF second
<1> DEFINE borrowed == IF l < r \/ first < b THEN 1 ELSE 0
<1>5. SubtractLimb(l, r, b) = [limb |-> second, borrow |-> borrowed]
  BY <1>4 DEF Either, Bit
<1>6. /\ borrowed \in {0, 1}
      /\ borrowed = 0 <=> l - r - b >= 0
      /\ second = l - r - b + borrowed * Radix
      /\ second \in 0..(Radix - 1)
  BY <1>0, <1>1, <1>2, <1>3
<1> HIDE DEF borrowed
<1> QED BY <1>5, <1>6 DEF Limb

\* One more, and the carry out, as the fold adds it.
LEMMA RippleLimbExact ==
    ASSUME NEW l \in Limb
    PROVE  LET sum == (l + 1) % Radix
           IN  /\ sum \in Limb
               /\ l = Radix - 1 => sum = 0 /\ Bit(sum < l) = 1
               /\ l # Radix - 1 => sum = l + 1 /\ Bit(sum < l) = 0
<1>0. Radix \in Nat \ {0} /\ Radix >= 4 /\ l \in 0..(Radix - 1)
  BY LimbAssumption DEF Limb
<1>1. /\ l + 1 < Radix => (l + 1) % Radix = l + 1
      /\ l + 1 >= Radix => (l + 1) % Radix = l + 1 - Radix
  BY <1>0
<1> QED BY <1>0, <1>1 DEF Bit, Limb

-----------------------------------------------------------------------------
(* The arrays. *)

\* The sizes, and the two constant arrays.
LEMMA Sizes ==
    /\ LimbCount \in Nat /\ LimbCount >= 2 /\ Top \in Nat /\ Top = LimbCount - 1 /\ Top >= 1
    /\ Top \in Index /\ 0 \in Index
    /\ \A k : k \in Index <=> k \in Nat /\ k <= Top
    /\ TopRadix \in Nat /\ TopRadix >= 2 /\ Radix \in Nat /\ 2 * TopRadix <= Radix
    /\ \A x : x \in Limb <=> x \in Nat /\ x < Radix
    /\ Modulus \in Limbs /\ Modulus[Top] = TopRadix - 1
    /\ \A k \in Index : k # Top => Modulus[k] = Radix - 1
    /\ Zero \in FieldElements /\ Zero \in Limbs /\ \A k \in Index : Zero[k] = 0
<1>1. /\ LimbCount \in Nat /\ LimbCount >= 2 /\ TopRadix \in Nat /\ TopRadix >= 2
      /\ Radix \in Nat /\ 2 * TopRadix <= Radix
  BY LimbAssumption
<1>2. /\ Top \in Nat /\ Top = LimbCount - 1 /\ Top >= 1 /\ Top \in Index /\ 0 \in Index
      /\ \A k : k \in Index <=> k \in Nat /\ k <= Top
      /\ \A x : x \in Limb <=> x \in Nat /\ x < Radix
  BY <1>1 DEF Top, Index, Limb
<1>3. /\ Modulus \in Limbs /\ Modulus[Top] = TopRadix - 1
      /\ \A k \in Index : k # Top => Modulus[k] = Radix - 1
  BY <1>1, <1>2 DEF Modulus, Base, Limbs
<1>4. Zero \in Limbs /\ \A k \in Index : Zero[k] = 0
  BY <1>1, <1>2 DEF Zero, Limbs
<1>5. Zero \in FieldElements
  <2>1. Zero[Top] = 0 /\ Modulus[Top] # 0
    BY <1>1, <1>2, <1>3, <1>4
  <2> QED BY <1>1, <1>4, <2>1 DEF FieldElements, Canonical
<1> QED BY <1>1, <1>2, <1>3, <1>4, <1>5

\* What putting a limb at index i does to the array.
LEMMA PutLimb ==
    ASSUME NEW old \in Limbs, NEW i \in Index, NEW x \in Limb
    PROVE  LET new == [old EXCEPT ![i] = x]
           IN  /\ new \in Limbs /\ new[i] = x
               /\ \A k \in Index : k # i => new[k] = old[k]
               /\ Ones(new, i + 1) <=> Ones(old, i) /\ x = Modulus[i]
<1> DEFINE new == [old EXCEPT ![i] = x]
<1>1. /\ new \in Limbs /\ new[i] = x
      /\ \A k \in Index : k # i => new[k] = old[k]
  BY DEF Limbs
<1> HIDE DEF new
<1>2. \A k \in Index : k < i + 1 <=> k < i \/ k = i
  BY Sizes
<1>3. \A k \in Index : k < i => k # i
  BY Sizes
<1> QED BY <1>1, <1>2, <1>3 DEF Ones, new

\* An element is less than the modulus at the top, and is not the modulus.
LEMMA ElementTop ==
    ASSUME NEW e \in FieldElements
    PROVE  /\ e \in Limbs /\ e # Modulus /\ e[Top] \in Nat /\ e[Top] < TopRadix
           /\ \A k \in Index : e[k] \in Limb
BY Sizes DEF FieldElements, Canonical, Limbs

-----------------------------------------------------------------------------
(* add *)

LEMMA CallAddKeeps ==
    ASSUME LoopInv, CallAdd
    PROVE  LoopInv'
<1>1. /\ pc' = "add" /\ op' = "add" /\ index' = 0 /\ carry' = 0
      /\ result' = Zero /\ folds' = 0 /\ answer' = Zero
      /\ left' \in FieldElements /\ right' \in FieldElements
      /\ UNCHANGED <<minuend, subtrahend>>
  BY DEF CallAdd, StartLoop
<1>2. TypeOK'
  BY <1>1, Sizes DEF LoopInv, TypeOK
<1>3. AddInv'
  BY <1>1, Sizes DEF AddInv
<1> QED BY <1>1, <1>2, <1>3 DEF LoopInv, FoldInv, CompareInv, SubtractInv

LEMMA AddStepKeeps ==
    ASSUME LoopInv, AddStep
    PROVE  LoopInv'
<1> DEFINE sum == AddLimb(left[index], right[index], carry)
           l == left[index]
           r == right[index]
<1>1. /\ pc = "add" /\ pc' = "add" /\ index \in Index /\ index' = index + 1
      /\ carry' = sum.carry /\ result' = [result EXCEPT ![index] = sum.limb]
      /\ UNCHANGED <<op, left, right, minuend, subtrahend, folds, answer>>
  BY Sizes DEF AddStep, Put, operands, LoopInv, TypeOK
<1>2. /\ result \in Limbs /\ carry \in {0, 1} /\ l \in Limb /\ r \in Limb
      /\ left[Top] \in Nat /\ left[Top] < TopRadix
      /\ right[Top] \in Nat /\ right[Top] < TopRadix
  BY <1>1, ElementTop DEF LoopInv, TypeOK, AddInv
<1>3. /\ sum.limb \in Limb /\ sum.carry \in {0, 1}
      /\ sum.limb = l + r + carry - sum.carry * Radix
      /\ sum.carry = 0 <=> l + r + carry < Radix
  BY <1>2, AddLimbExact
<1> HIDE DEF sum, l, r
<1>4. /\ sum.carry = 0 => sum.limb = l + r + carry
      /\ sum.carry = 1 => sum.limb = l + r + carry - Radix
      /\ l \in 0..(Radix - 1) /\ r \in 0..(Radix - 1) /\ Radix \in Nat /\ Radix >= 4
  BY <1>2, <1>3, Sizes
<1>5. /\ result' \in Limbs /\ result'[index] = sum.limb
      /\ Ones(result', index + 1) <=> Ones(result, index) /\ sum.limb = Modulus[index]
  <2> DEFINE x == sum.limb
             new == [result EXCEPT ![index] = x]
  <2>1. x \in Limb /\ index \in Index /\ result \in Limbs
    BY <1>1, <1>2, <1>3
  <2> HIDE DEF x
  <2>2. /\ new \in Limbs /\ new[index] = x
        /\ Ones(new, index + 1) <=> Ones(result, index) /\ x = Modulus[index]
    BY <2>1, PutLimb
  <2>3. result' = new
    BY <1>1 DEF x
  <2> HIDE DEF new
  <2> QED BY <2>2, <2>3 DEF x
<1>6. TypeOK'
  BY <1>1, <1>3, <1>5, Sizes DEF LoopInv, TypeOK
<1>7. index <= Top /\ Ones(result, index) => carry = 0
  BY <1>1 DEF LoopInv, AddInv
<1>8. ASSUME index' <= Top, Ones(result', index') PROVE carry' = 0
  <2>1. carry = 0 /\ sum.limb = Radix - 1
    BY <1>1, <1>5, <1>7, <1>8, Sizes
  <2> QED BY <1>1, <1>3, <1>4, <2>1
<1>9. ASSUME index' = LimbCount PROVE carry' = 0 /\ IsSum(result')
  <2>1. index = Top /\ l < TopRadix /\ r < TopRadix
    BY <1>1, <1>2, <1>9, Sizes DEF l, r
  <2>2. sum.carry = 0 /\ sum.limb = l + r + carry
    BY <1>2, <1>3, <1>4, <2>1, Sizes
  <2>3. Ones(result', Top) => Ones(result, Top)
    BY <1>1, <1>2, <1>3, <2>1, PutLimb, Sizes DEF Ones
  <2>4. result'[Top] < 2 * TopRadix
    BY <1>2, <1>4, <1>5, <2>1, <2>2, Sizes
  <2>5. ASSUME Ones(result', Top) PROVE result'[Top] < 2 * TopRadix - 1
    BY <1>4, <1>5, <1>7, <2>1, <2>2, <2>3, <2>5, Sizes
  <2> QED BY <1>1, <2>2, <2>4, <2>5 DEF IsSum
<1>10. AddInv'
  BY <1>1, <1>3, <1>8, <1>9 DEF AddInv, IsSum, Ones
<1> QED BY <1>1, <1>6, <1>10 DEF LoopInv, FoldInv, CompareInv, SubtractInv

LEMMA AddEndKeeps ==
    ASSUME LoopInv, AddEnd
    PROVE  LoopInv'
<1>1. /\ pc = "add" /\ pc' = "fold" /\ index = LimbCount
      /\ UNCHANGED <<op, left, right, minuend, subtrahend, index, carry, result, folds, answer>>
  BY DEF AddEnd, operands
<1>2. folds = 0 /\ IsSum(result)
  BY <1>1 DEF LoopInv, AddInv, FoldInv
<1>3. IsSum(result')
  BY <1>1, <1>2
<1>4. TypeOK'
  BY <1>1 DEF LoopInv, TypeOK
<1> QED BY <1>1, <1>2, <1>3, <1>4
        DEF LoopInv, AddInv, FoldInv, CompareInv, SubtractInv, IsSum, Ones

LEMMA FoldKeeps ==
    ASSUME LoopInv, Fold
    PROVE  LoopInv'
<1> DEFINE t == result[Top]
<1>1. /\ pc = "fold" /\ pc' = "ripple" /\ index' = 0 /\ t >= TopRadix
      /\ carry' = t \div TopRadix /\ folds' = folds + 1
      /\ result' = [result EXCEPT ![Top] = t % TopRadix]
      /\ UNCHANGED <<op, left, right, minuend, subtrahend, answer>>
  BY DEF Fold, operands
<1>2. result \in Limbs /\ t \in Nat /\ t < Radix /\ folds \in {0, 1}
  BY Sizes DEF LoopInv, TypeOK, Limbs, FoldInv
<1>3. folds = 0 /\ IsSum(result)
  BY <1>1, <1>2, Sizes DEF LoopInv, FoldInv
<1>4. t < 2 * TopRadix /\ (Ones(result, Top) => t < 2 * TopRadix - 1)
  BY <1>3 DEF IsSum
<1> HIDE DEF t
<1>5. t \div TopRadix = 1 /\ t % TopRadix = t - TopRadix
  <2>1. TopRadix \in Nat \ {0} /\ t \in Int
    BY <1>2, Sizes
  <2> QED BY <1>1, <1>4, <2>1, Wrap
<1>6. t - TopRadix \in Limb /\ t - TopRadix < TopRadix
  BY <1>1, <1>2, <1>4, Sizes
<1>7. /\ result' \in Limbs /\ result'[Top] = t - TopRadix
      /\ \A k \in Index : k # Top => result'[k] = result[k]
  <2> DEFINE x == t - TopRadix
             new == [result EXCEPT ![Top] = x]
  <2>1. x \in Limb /\ Top \in Index /\ result \in Limbs /\ result' = new
    BY <1>1, <1>2, <1>5, <1>6, Sizes
  <2> HIDE DEF x
  <2>2. LET put == [result EXCEPT ![Top] = x]
        IN  /\ put \in Limbs /\ put[Top] = x
            /\ \A k \in Index : k # Top => put[k] = result[k]
            /\ Ones(put, Top + 1) <=> Ones(result, Top) /\ x = Modulus[Top]
    BY <2>1, PutLimb
  <2> QED BY <2>1, <2>2 DEF x
<1>8. TypeOK'
  BY <1>1, <1>2, <1>3, <1>5, <1>7, Sizes DEF LoopInv, TypeOK
<1>9. ASSUME \A k \in Index : 0 <= k /\ k < Top => result'[k] = Radix - 1
      PROVE  result'[Top] < TopRadix - 1
  <2>1. Ones(result, Top)
    BY <1>7, <1>9, Sizes DEF Ones
  <2> QED BY <1>2, <1>4, <1>7, <2>1, Sizes
<1>10. FoldInv'
  BY <1>1, <1>3, <1>5, <1>6, <1>7, <1>9, Sizes DEF FoldInv
<1> QED BY <1>1, <1>8, <1>10 DEF LoopInv, AddInv, CompareInv, SubtractInv

LEMMA RippleKeeps ==
    ASSUME LoopInv, Ripple
    PROVE  LoopInv'
<1> DEFINE l == result[index]
           sum == (l + carry) % Radix
           new == [result EXCEPT ![index] = sum]
<1>1. /\ pc = "ripple" /\ pc' = "ripple" /\ index \in Index /\ index' = index + 1
      /\ carry # 0 /\ carry' = Bit(sum < l) /\ result' = new
      /\ UNCHANGED <<op, left, right, minuend, subtrahend, folds, answer>>
  BY Sizes DEF Ripple, Put, operands, LoopInv, TypeOK
<1>2. /\ result \in Limbs /\ l \in Limb /\ carry = 1 /\ folds = 1
      /\ result[Top] \in Nat /\ result[Top] < TopRadix
  BY <1>1, Sizes DEF LoopInv, TypeOK, Limbs, FoldInv
<1>3. /\ sum \in Limb
      /\ l = Radix - 1 => sum = 0 /\ Bit(sum < l) = 1
      /\ l # Radix - 1 => sum = l + 1 /\ Bit(sum < l) = 0
  BY <1>2, RippleLimbExact
<1>4. (\A k \in Index : index <= k /\ k < Top => result[k] = Radix - 1) =>
        result[Top] < TopRadix - 1
  BY <1>1, <1>2 DEF LoopInv, FoldInv
<1> HIDE DEF sum
<1>5. /\ new \in Limbs /\ new[index] = sum
      /\ \A k \in Index : k # index => new[k] = result[k]
  <2>1. LET put == [result EXCEPT ![index] = sum]
        IN  /\ put \in Limbs /\ put[index] = sum
            /\ \A k \in Index : k # index => put[k] = result[k]
            /\ Ones(put, index + 1) <=> Ones(result, index) /\ sum = Modulus[index]
    BY <1>1, <1>2, <1>3, PutLimb
  <2> QED BY <2>1
<1> HIDE DEF new, l
<1>6. TypeOK'
  BY <1>1, <1>3, <1>5, Sizes DEF LoopInv, TypeOK
<1>7. CASE index = Top
  <2>1. result[Top] < TopRadix - 1 /\ l = result[Top]
    BY <1>4, <1>7, Sizes DEF l
  <2>2. sum = l + 1 /\ carry' = 0
    BY <1>1, <1>2, <1>3, <2>1, Sizes
  <2>3. result'[Top] < TopRadix
    BY <1>1, <1>2, <1>5, <1>7, <2>1, <2>2, Sizes
  <2>4. index' # 0
    BY <1>1, Sizes
  <2>5. FoldInv'
    BY <1>1, <1>2, <2>2, <2>3, <2>4 DEF FoldInv
  <2> QED BY <1>1, <1>6, <2>5 DEF LoopInv, AddInv, CompareInv, SubtractInv
<1>8. CASE index # Top
  <2>1. result'[Top] = result[Top] /\ index' # 0 /\ index' # LimbCount
    BY <1>1, <1>5, <1>8, Sizes
  <2>2. carry' \in {0, 1} /\ (carry' = 1 => l = Radix - 1)
    BY <1>1, <1>3
  <2>3. ASSUME carry' = 1,
               \A k \in Index : index' <= k /\ k < Top => result'[k] = Radix - 1
        PROVE  result'[Top] < TopRadix - 1
    <3>1. ASSUME NEW k \in Index, index <= k, k < Top PROVE result[k] = Radix - 1
      <4>1. CASE k = index
        BY <2>2, <2>3, <4>1 DEF l
      <4>2. CASE k # index
        BY <1>1, <1>5, <2>3, <3>1, <4>2, Sizes
      <4> QED BY <4>1, <4>2
    <3> QED BY <1>4, <2>1, <3>1
  <2>4. FoldInv'
    BY <1>1, <1>2, <2>1, <2>2, <2>3 DEF FoldInv
  <2> QED BY <1>1, <1>6, <2>4 DEF LoopInv, AddInv, CompareInv, SubtractInv
<1> QED BY <1>7, <1>8

LEMMA RippleEndKeeps ==
    ASSUME LoopInv, RippleEnd
    PROVE  LoopInv'
<1>1. /\ pc = "ripple" /\ pc' = "fold"
      /\ UNCHANGED <<op, left, right, minuend, subtrahend, index, carry, result, folds, answer>>
  BY DEF RippleEnd, operands
<1>2. folds = 1 /\ result[Top] < TopRadix
  BY <1>1 DEF LoopInv, FoldInv
<1>3. TypeOK'
  BY <1>1 DEF LoopInv, TypeOK
<1>4. FoldInv'
  BY <1>1, <1>2 DEF FoldInv
<1> QED BY <1>1, <1>3, <1>4 DEF LoopInv, AddInv, CompareInv, SubtractInv

LEMMA FoldEndKeeps ==
    ASSUME LoopInv, FoldEnd
    PROVE  LoopInv'
<1>1. /\ pc' = "canonical" /\ result[Top] < TopRadix
      /\ result' = IF result = Modulus THEN Zero ELSE result
      /\ UNCHANGED <<op, left, right, minuend, subtrahend, index, carry, folds, answer>>
  BY DEF FoldEnd, operands
<1>2. Canonical(result') /\ result' \in Limbs
  BY <1>1, Sizes DEF Canonical, FieldElements, LoopInv, TypeOK
<1>3. TypeOK'
  BY <1>1, <1>2 DEF LoopInv, TypeOK
<1>4. folds' \in {0, 1}
  BY <1>1 DEF LoopInv, FoldInv
<1> QED BY <1>1, <1>2, <1>3, <1>4
        DEF LoopInv, AddInv, FoldInv, CompareInv, SubtractInv, Canonical

-----------------------------------------------------------------------------
(* subtract and negate *)

LEMMA CallSubtractKeeps ==
    ASSUME LoopInv, CallSubtract
    PROVE  LoopInv'
<1>1. /\ pc' = "compare" /\ op' = "subtract" /\ index' = Top /\ carry' = 0
      /\ result' = Zero /\ folds' = 0 /\ answer' = Zero
      /\ left' \in FieldElements /\ right' \in FieldElements
      /\ UNCHANGED <<minuend, subtrahend>>
  BY DEF CallSubtract, StartLoop
<1>2. TypeOK'
  BY <1>1, Sizes DEF LoopInv, TypeOK
<1>3. CompareInv'
  BY <1>1, Sizes DEF CompareInv
<1> QED BY <1>1, <1>2, <1>3 DEF LoopInv, AddInv, FoldInv, SubtractInv

LEMMA CompareEqualKeeps ==
    ASSUME LoopInv, CompareEqual
    PROVE  LoopInv'
<1>1. /\ pc = "compare" /\ pc' = "compare" /\ left[index] = right[index] /\ index > 0
      /\ index' = index - 1
      /\ UNCHANGED <<op, left, right, minuend, subtrahend, carry, result, folds, answer>>
  BY DEF CompareEqual, operands
<1>2. /\ index \in Index
      /\ \A k \in Index : k > index => left[k] = right[k]
  BY <1>1 DEF LoopInv, CompareInv
<1>3. /\ index' \in Index
      /\ \A k \in Index : k > index' <=> k > index \/ k = index
  BY <1>1, <1>2, Sizes
<1>4. CompareInv'
  BY <1>1, <1>2, <1>3 DEF CompareInv
<1>5. TypeOK'
  BY <1>1, <1>3, Sizes DEF LoopInv, TypeOK
<1> QED BY <1>1, <1>4, <1>5 DEF LoopInv, AddInv, FoldInv, SubtractInv

\* subtract_limbs starts with no borrow and nothing written.
LEMMA SubtractStarts ==
    ASSUME NEW m, NEW s, NEW loop \in {"difference", "subtract"},
           LoopInv, StartSubtract(loop, m, s), folds' \in {0, 1},
           op' \in {"none", "add", "subtract", "negate"},
           left' \in FieldElements, right' \in FieldElements, answer' \in FieldElements,
           m \in Limbs, s \in Limbs, m[Top] < TopRadix, s[Top] < TopRadix,
           \/ Exceeds(m, s, 0)
           \/ loop = "subtract" /\ m \in {s, Modulus},
           m = Modulus => loop = "subtract" /\ s # Zero
    PROVE  LoopInv'
<1>1. /\ pc' = loop /\ index' = 0 /\ carry' = 0
      /\ minuend' = m /\ subtrahend' = s /\ result' = Zero
  BY DEF StartSubtract, StartLoop
<1>2. TypeOK'
  BY <1>1, Sizes DEF TypeOK
<1>3. \A k \in Index : ~(k < 0)
  BY Sizes
<1>4. LimbCount # 0
  BY Sizes
<1>5. \/ Exceeds(minuend', subtrahend', 0)
      \/ pc' = "subtract" /\ minuend' \in {subtrahend', Modulus}
  BY <1>1
<1>6. Ones(minuend', index')
  BY <1>1, <1>3 DEF Ones
<1>7. SubtractInv'
  BY <1>1, <1>3, <1>4, <1>5, <1>6 DEF SubtractInv, Exceeds, Ones
<1> QED BY <1>1, <1>2, <1>7 DEF LoopInv, AddInv, FoldInv, CompareInv

LEMMA CompareEndKeeps ==
    ASSUME LoopInv, CompareEnd
    PROVE  LoopInv'
<1>1. /\ pc = "compare" /\ index \in Index
      /\ \A k \in Index : k > index => left[k] = right[k]
      /\ left[index] # right[index] \/ index = 0
      /\ UNCHANGED <<op, left, right, folds, answer>>
  BY DEF CompareEnd, operands, LoopInv, CompareInv
<1>2. /\ left \in FieldElements /\ right \in FieldElements /\ answer \in FieldElements
      /\ op \in {"none", "add", "subtract", "negate"}
      /\ left \in Limbs /\ right \in Limbs
      /\ left # Modulus /\ right # Modulus
      /\ left[Top] < TopRadix /\ right[Top] < TopRadix
      /\ \A k \in Index : left[k] \in Nat /\ right[k] \in Nat
  BY ElementTop, Sizes DEF LoopInv, TypeOK
<1>3. folds' \in {0, 1}
  BY <1>1 DEF LoopInv, FoldInv
<1>4. CASE left[index] < right[index]
  <2>1. StartSubtract("difference", right, left)
    BY <1>4 DEF CompareEnd
  <2>2. Exceeds(right, left, 0)
    BY <1>1, <1>2, <1>4, Sizes DEF Exceeds
  <2> QED BY <1>1, <1>2, <1>3, <2>1, <2>2, SubtractStarts
<1>5. CASE ~(left[index] < right[index])
  <2>1. StartSubtract("subtract", left, right)
    BY <1>5 DEF CompareEnd
  <2>2. CASE left[index] # right[index]
    <3>1. Exceeds(left, right, 0)
      BY <1>1, <1>2, <1>5, <2>2, Sizes DEF Exceeds
    <3> QED BY <1>1, <1>2, <1>3, <2>1, <3>1, SubtractStarts
  <2>3. CASE left[index] = right[index]
    <3>1. \A k \in Index : left[k] = right[k]
      BY <1>1, <2>3, Sizes
    <3>2. left = right
      BY <1>2, <3>1 DEF Limbs
    <3> QED BY <1>1, <1>2, <1>3, <2>1, <3>2, SubtractStarts
  <2> QED BY <2>2, <2>3
<1> QED BY <1>4, <1>5

LEMMA SubtractStepKeeps ==
    ASSUME LoopInv, SubtractStep
    PROVE  LoopInv'
<1> DEFINE m == minuend[index]
           s == subtrahend[index]
           difference == SubtractLimb(m, s, carry)
           x == difference.limb
           b == difference.borrow
<1>1. /\ pc \in {"difference", "subtract"} /\ pc' = pc /\ index \in Index /\ index' = index + 1
      /\ carry' = b /\ result' = [result EXCEPT ![index] = x]
      /\ UNCHANGED <<op, left, right, minuend, subtrahend, folds, answer>>
  BY Sizes DEF SubtractStep, Put, operands, LoopInv, TypeOK
<1>2. /\ result \in Limbs /\ carry \in {0, 1} /\ m \in Limb /\ s \in Limb
      /\ minuend[Top] < TopRadix /\ subtrahend[Top] < TopRadix
      /\ \A k \in Index : result[k] \in Limb /\ minuend[k] \in Limb /\ subtrahend[k] \in Limb
  BY <1>1, Sizes DEF LoopInv, TypeOK, SubtractInv, Limbs
<1>3. /\ x \in Limb /\ b \in {0, 1}
      /\ x = m - s - carry + b * Radix
      /\ b = 0 <=> m - s - carry >= 0
  BY <1>2, SubtractLimbExact
<1>4. /\ \/ Exceeds(minuend, subtrahend, 0)
         \/ pc = "subtract" /\ minuend \in {subtrahend, Modulus}
      /\ carry = 1 => Exceeds(minuend, subtrahend, index)
      /\ Ones(result, index) => carry = 1 \/ Ones(minuend, index)
      /\ minuend = Modulus =>
           /\ pc = "subtract" /\ subtrahend # Zero /\ carry = 0
           /\ \A k \in Index : k < index => result[k] = Modulus[k] - subtrahend[k]
      /\ pc = "difference" /\ (\A k \in Index : k < index => result[k] = 0) =>
           carry = 0 /\ \A k \in Index : k < index => minuend[k] = subtrahend[k]
  BY <1>1 DEF LoopInv, SubtractInv
<1> HIDE DEF x, b, difference
<1>5. /\ b = 0 => x = m - s - carry
      /\ b = 1 => x = m - s - carry + Radix
      /\ m \in 0..(Radix - 1) /\ s \in 0..(Radix - 1) /\ Radix \in Nat /\ Radix >= 4
  BY <1>2, <1>3, Sizes
<1>6. /\ result' \in Limbs /\ result'[index] = x
      /\ \A k \in Index : k # index => result'[k] = result[k]
      /\ Ones(result', index + 1) <=> Ones(result, index) /\ x = Modulus[index]
  <2>1. x \in Limb /\ index \in Index /\ result \in Limbs
    BY <1>1, <1>2, <1>3
  <2>2. LET new == [result EXCEPT ![index] = x]
        IN  /\ new \in Limbs /\ new[index] = x
            /\ \A k \in Index : k # index => new[k] = result[k]
            /\ Ones(new, index + 1) <=> Ones(result, index) /\ x = Modulus[index]
    BY <2>1, PutLimb
  <2> QED BY <1>1, <2>2
<1>7. TypeOK'
  BY <1>1, <1>3, <1>6, Sizes DEF LoopInv, TypeOK
<1>8. index = Top => m < TopRadix /\ s < TopRadix /\ Modulus[index] = TopRadix - 1
  BY <1>1, <1>2, Sizes
<1>9. index # Top => Modulus[index] = Radix - 1
  BY <1>1, Sizes
<1>10. \A k \in Index : k < index + 1 <=> k < index \/ k = index
  BY <1>1, Sizes
\* A borrow is paid back by a limb further up.
<1>11. ASSUME b = 1 PROVE Exceeds(minuend, subtrahend, index + 1)
  <2>1. m < s + carry
    BY <1>2, <1>3, <1>5, <1>11
  <2>2. CASE carry = 1
    <3>1. PICK j \in Index : /\ j >= index /\ minuend[j] > subtrahend[j]
                             /\ \A k \in Index : k > j => minuend[k] = subtrahend[k]
      BY <1>4, <2>2 DEF Exceeds
    <3>2. j # index
      BY <1>5, <2>1, <2>2, <3>1
    <3> QED BY <1>1, <3>1, <3>2, Sizes DEF Exceeds
  <2>3. CASE carry = 0
    <3>1. m < s
      BY <1>5, <2>1, <2>3
    <3>2. minuend # subtrahend
      BY <1>5, <3>1
    <3>3. minuend # Modulus
      BY <1>5, <1>8, <1>9, <3>1, Sizes
    <3>4. PICK j \in Index : /\ minuend[j] > subtrahend[j]
                             /\ \A k \in Index : k > j => minuend[k] = subtrahend[k]
      BY <1>4, <3>2, <3>3 DEF Exceeds
    <3>5. j # index /\ ~(j < index)
      BY <1>1, <1>5, <3>1, <3>4, Sizes
    <3> QED BY <1>1, <3>4, <3>5, Sizes DEF Exceeds
  <2> QED BY <1>2, <2>2, <2>3
\* A full limb without a borrow comes from a full limb.
<1>12. ASSUME Ones(result', index + 1) PROVE b = 1 \/ Ones(minuend, index + 1)
  <2>1. Ones(result, index) /\ x = Modulus[index]
    BY <1>6, <1>12
  <2>2. ASSUME b = 0 PROVE carry = 0 /\ m = Modulus[index]
    <3>1. x = m - s - carry
      BY <1>5, <2>2
    <3>2. CASE index = Top
      BY <1>2, <1>5, <1>8, <2>1, <3>1, <3>2, Sizes
    <3>3. CASE index # Top
      BY <1>2, <1>5, <1>9, <2>1, <3>1, <3>3, Sizes
    <3> QED BY <3>2, <3>3
  <2>3. ASSUME b = 0 PROVE Ones(minuend, index + 1)
    <3>1. Ones(minuend, index)
      BY <1>4, <2>1, <2>2, <2>3
    <3> QED BY <1>10, <2>2, <2>3, <3>1 DEF Ones
  <2> QED BY <1>3, <2>3
\* From the modulus nothing is borrowed.
<1>13. ASSUME minuend = Modulus
       PROVE  /\ pc = "subtract" /\ subtrahend # Zero /\ b = 0
              /\ \A k \in Index : k < index + 1 => result'[k] = Modulus[k] - subtrahend[k]
  <2>1. /\ pc = "subtract" /\ subtrahend # Zero /\ carry = 0
        /\ \A k \in Index : k < index => result[k] = Modulus[k] - subtrahend[k]
    BY <1>4, <1>13
  <2>2. m >= s
    BY <1>5, <1>8, <1>9, <1>13, Sizes
  <2>3. b = 0 /\ x = m - s
    BY <1>3, <1>5, <2>1, <2>2
  <2>4. ASSUME NEW k \in Index, k < index + 1
        PROVE  result'[k] = Modulus[k] - subtrahend[k]
    <3>1. CASE k = index
      BY <1>6, <1>13, <2>3, <3>1
    <3>2. CASE k # index
      BY <1>6, <1>10, <2>1, <2>4, <3>2
    <3> QED BY <3>1, <3>2
  <2> QED BY <2>1, <2>3, <2>4
\* Limbs of which the difference is zero are equal.
<1>14. ASSUME pc = "difference", \A k \in Index : k < index + 1 => result'[k] = 0
       PROVE  b = 0 /\ \A k \in Index : k < index + 1 => minuend[k] = subtrahend[k]
  <2>1. \A k \in Index : k < index => k < index + 1 /\ k # index
    BY <1>1, Sizes
  <2>2. \A k \in Index : k < index => result[k] = 0
    BY <1>6, <1>14, <2>1
  <2>3. carry = 0 /\ \A k \in Index : k < index => minuend[k] = subtrahend[k]
    BY <1>4, <1>14, <2>2
  <2>4. x = 0
    BY <1>1, <1>6, <1>10, <1>14
  <2>5. b \in {0, 1} /\ carry = 0
    BY <1>3, <2>3
  <2>6. b = 0 /\ m = s
    BY <1>5, <2>4, <2>5
  <2> QED BY <1>10, <2>3, <2>6
<1>15. ASSUME index + 1 = LimbCount PROVE result'[Top] < TopRadix
  <2>1. index = Top
    BY <1>1, <1>15, Sizes
  <2>2. ~ Exceeds(minuend, subtrahend, index + 1)
    BY <2>1, Sizes DEF Exceeds
  <2>3. b = 0
    BY <1>3, <1>11, <2>2
  <2> QED BY <1>2, <1>5, <1>6, <1>8, <2>1, <2>3, Sizes
<1>16. SubtractInv'
  <2>1. \/ Exceeds(minuend', subtrahend', 0)
        \/ pc' = "subtract" /\ minuend' \in {subtrahend', Modulus}
    BY <1>1, <1>4
  <2>2. /\ carry' \in {0, 1} /\ minuend'[Top] < TopRadix /\ subtrahend'[Top] < TopRadix
        /\ carry' = 1 => Exceeds(minuend', subtrahend', index')
    BY <1>1, <1>2, <1>3, <1>11
  <2>3. Ones(result', index') => carry' = 1 \/ Ones(minuend', index')
    BY <1>1, <1>12
  <2>4. minuend' = Modulus =>
           /\ pc' = "subtract" /\ subtrahend' # Zero /\ carry' = 0
           /\ \A k \in Index : k < index' => result'[k] = Modulus[k] - subtrahend'[k]
    BY <1>1, <1>13
  <2>5. pc' = "difference" /\ (\A k \in Index : k < index' => result'[k] = 0) =>
           carry' = 0 /\ \A k \in Index : k < index' => minuend'[k] = subtrahend'[k]
    BY <1>1, <1>14
  <2>6. index' = LimbCount => result'[Top] < TopRadix
    BY <1>1, <1>15
  <2> QED BY <2>1, <2>2, <2>3, <2>4, <2>5, <2>6 DEF SubtractInv, Exceeds, Ones
<1>17. folds' \in {0, 1}
  BY <1>1 DEF LoopInv, FoldInv
<1> QED BY <1>1, <1>7, <1>16, <1>17 DEF LoopInv, AddInv, FoldInv, CompareInv

LEMMA ComplementKeeps ==
    ASSUME LoopInv, Complement
    PROVE  LoopInv'
<1>1. /\ pc = "difference" /\ index = LimbCount
      /\ StartSubtract("subtract", Modulus, result)
      /\ UNCHANGED <<op, left, right, folds, answer>>
  BY DEF Complement, operands
<1>2. /\ result[Top] < TopRadix /\ result \in Limbs
      /\ minuend \in Limbs /\ subtrahend \in Limbs
      /\ Exceeds(minuend, subtrahend, 0)
      /\ (\A k \in Index : k < LimbCount => result[k] = 0) =>
           \A k \in Index : k < LimbCount => minuend[k] = subtrahend[k]
  BY <1>1 DEF LoopInv, SubtractInv, TypeOK
<1>3. result # Zero
  <2>1. PICK j \in Index : minuend[j] > subtrahend[j]
    BY <1>2 DEF Exceeds
  <2>2. minuend[j] # subtrahend[j] /\ j < LimbCount
    BY <1>2, <2>1, Sizes DEF Limbs
  <2> QED BY <1>2, <2>2, Sizes
<1>4. Modulus \in Limbs /\ Modulus[Top] < TopRadix
  BY Sizes
<1>5. /\ folds' \in {0, 1} /\ op' \in {"none", "add", "subtract", "negate"}
      /\ left' \in FieldElements /\ right' \in FieldElements /\ answer' \in FieldElements
  BY <1>1 DEF LoopInv, FoldInv, TypeOK
<1> QED BY <1>1, <1>2, <1>3, <1>4, <1>5, SubtractStarts

LEMMA SubtractEndKeeps ==
    ASSUME LoopInv, SubtractEnd
    PROVE  LoopInv'
<1>1. /\ pc = "subtract" /\ pc' = "canonical" /\ index = LimbCount
      /\ UNCHANGED <<op, left, right, minuend, subtrahend, index, carry, result, folds, answer>>
  BY DEF SubtractEnd, operands
<1>2. /\ result[Top] < TopRadix /\ result \in Limbs
      /\ minuend \in Limbs /\ subtrahend \in Limbs /\ carry \in {0, 1}
      /\ carry = 1 => Exceeds(minuend, subtrahend, LimbCount)
      /\ Ones(result, LimbCount) => carry = 1 \/ Ones(minuend, LimbCount)
      /\ minuend = Modulus =>
           /\ subtrahend # Zero
           /\ \A k \in Index : k < LimbCount => result[k] = Modulus[k] - subtrahend[k]
  BY <1>1 DEF LoopInv, SubtractInv, TypeOK
<1>3. \A k \in Index : k < LimbCount
  BY Sizes
<1>4. carry = 0
  BY <1>2, Sizes DEF Exceeds
<1>5. result # Modulus
  <2> SUFFICES ASSUME result = Modulus PROVE FALSE
    OBVIOUS
  <2>1. Ones(minuend, LimbCount)
    BY <1>2, <1>4 DEF Ones
  <2>2. minuend = Modulus
    BY <1>2, <1>3, <2>1, Sizes DEF Ones, Limbs
  <2>3. \A k \in Index : Modulus[k] = Modulus[k] - subtrahend[k]
    BY <1>2, <1>3, <2>2
  <2>4. \A k \in Index : subtrahend[k] = 0
    BY <1>2, <2>3, Sizes DEF Limbs
  <2>5. subtrahend = Zero
    BY <1>2, <2>4, Sizes DEF Limbs
  <2> QED BY <1>2, <2>2, <2>5
<1>6. TypeOK'
  BY <1>1 DEF LoopInv, TypeOK
<1>7. Canonical(result') /\ folds' \in {0, 1}
  BY <1>1, <1>2, <1>5 DEF Canonical, LoopInv, FoldInv
<1> QED BY <1>1, <1>6, <1>7
        DEF LoopInv, AddInv, FoldInv, CompareInv, SubtractInv, Canonical

LEMMA CallNegateKeeps ==
    ASSUME LoopInv, CallNegate
    PROVE  LoopInv'
<1>1. /\ op' = "negate" /\ left' \in FieldElements /\ right' = Zero /\ folds' = 0
      /\ answer' = Zero
  BY DEF CallNegate
<1>2. CASE left' = Zero
  <2>1. /\ pc' = "canonical" /\ index' = 0 /\ carry' = 0 /\ result' = Zero
        /\ UNCHANGED <<minuend, subtrahend>>
    BY <1>2 DEF CallNegate
  <2>2. TypeOK'
    BY <1>1, <2>1, Sizes DEF LoopInv, TypeOK
  <2>3. Canonical(result')
    BY <2>1, Sizes DEF FieldElements
  <2> QED BY <1>1, <2>1, <2>2, <2>3
          DEF LoopInv, AddInv, FoldInv, CompareInv, SubtractInv, Canonical
<1>3. CASE left' # Zero
  <2>1. StartSubtract("subtract", Modulus, left')
    BY <1>3 DEF CallNegate
  <2>2. Modulus \in Limbs /\ Modulus[Top] < TopRadix
    BY Sizes
  <2>3. left' \in Limbs /\ left'[Top] < TopRadix
    BY <1>1, ElementTop
  <2> QED BY <1>1, <1>3, <2>1, <2>2, <2>3, Sizes, SubtractStarts
<1> QED BY <1>2, <1>3

LEMMA ReturnKeeps ==
    ASSUME LoopInv, Return
    PROVE  LoopInv'
<1>1. /\ pc' = "idle" /\ op' = "none" /\ answer' = result /\ index' = 0 /\ carry' = 0
      /\ left' = Zero /\ right' = Zero /\ minuend' = Zero /\ subtrahend' = Zero
      /\ result' = Zero /\ folds' = 0
  BY DEF Return
<1>2. result \in FieldElements
  BY DEF Return, LoopInv, TypeOK, FieldElements
<1>3. TypeOK'
  BY <1>1, <1>2, Sizes DEF TypeOK
<1> QED BY <1>1, <1>3 DEF LoopInv, AddInv, FoldInv, CompareInv, SubtractInv

-----------------------------------------------------------------------------
(* The theorems. *)

LEMMA InitLoopInv == Init => LoopInv
<1> SUFFICES ASSUME Init PROVE LoopInv
  OBVIOUS
<1>1. TypeOK
  BY Sizes DEF Init, TypeOK
<1> QED BY <1>1 DEF Init, LoopInv, AddInv, FoldInv, CompareInv, SubtractInv

LEMMA NextLoopInv == LoopInv /\ [Next]_vars => LoopInv'
<1> SUFFICES ASSUME LoopInv, [Next]_vars PROVE LoopInv'
  OBVIOUS
<1>1. CASE UNCHANGED vars
  BY <1>1 DEF vars, LoopInv, TypeOK, AddInv, FoldInv, CompareInv, SubtractInv,
              Ones, IsSum, Exceeds, Canonical
<1>2. CASE Next
  BY <1>2, CallAddKeeps, CallSubtractKeeps, CallNegateKeeps, AddStepKeeps, AddEndKeeps,
     FoldKeeps, RippleKeeps, RippleEndKeeps, FoldEndKeeps, CompareEqualKeeps,
     CompareEndKeeps, SubtractStepKeeps, ComplementKeeps, SubtractEndKeeps, ReturnKeeps
     DEF Next, Work
<1> QED BY <1>1, <1>2

\* The limbs, carries and operands of a call are at each loop what the code
\* counts on, whatever the number of limbs and their width.
THEOREM LoopsKeepTheirInvariants == Spec => []LoopInv
BY InitLoopInv, NextLoopInv, PTL DEF Spec

\* No call dereferences an empty optional: what add, subtract and negate hand to
\* from_canonical_limbs is canonical.
THEOREM ElementsStayCanonical == Spec => []CanonicalOnReturn
<1>1. LoopInv => CanonicalOnReturn
  BY DEF LoopInv, CanonicalOnReturn
<1> QED BY <1>1, LoopsKeepTheirInvariants, PTL

\* The carry or borrow out of the last limb, which the code never reads, is 0.
THEOREM LastCarryIsZero == Spec => []NoCarryIsLost
<1>1. LoopInv => NoCarryIsLost
  <2> SUFFICES ASSUME LoopInv, index = LimbCount,
                      pc \in {"add", "ripple", "difference", "subtract"}
               PROVE  carry = 0
    BY DEF NoCarryIsLost
  <2>1. CASE pc = "add"
    BY <2>1 DEF LoopInv, AddInv
  <2>2. CASE pc = "ripple"
    BY <2>2 DEF LoopInv, FoldInv
  <2>3. CASE pc \in {"difference", "subtract"}
    <3>1. carry \in {0, 1} /\ (carry = 1 => Exceeds(minuend, subtrahend, index))
      BY <2>3 DEF LoopInv, SubtractInv
    <3> QED BY <3>1, Sizes DEF Exceeds
  <2> QED BY <2>1, <2>2, <2>3
<1> QED BY <1>1, LoopsKeepTheirInvariants, PTL

\* fold_mersenne_carry folds at most once, and then a carry of one.
THEOREM OneFoldIsEnough == Spec => []FoldsOnce
<1>1. LoopInv => FoldsOnce
  BY DEF LoopInv, FoldInv, FoldsOnce
<1> QED BY <1>1, LoopsKeepTheirInvariants, PTL

-----------------------------------------------------------------------------
(* What the limbs stand for. *)

\* The numbers of a call.
LEMMA CallNumbers ==
    ASSUME LoopInv
    PROVE  /\ Prime \in Nat
           /\ left \in Limbs /\ Value(left) \in Nat /\ Value(left) < Prime
           /\ right \in Limbs /\ Value(right) \in Nat /\ Value(right) < Prime
           /\ minuend \in Limbs /\ subtrahend \in Limbs
           /\ Value(minuend) \in Nat /\ Value(subtrahend) \in Nat
           /\ result \in Limbs /\ result \in Digits /\ Value(result) \in Nat
           /\ index \in 0..LimbCount /\ folds \in {0, 1}
<1>1. TypeOK /\ folds \in {0, 1}
  BY DEF LoopInv, FoldInv
<1>2. ASSUME NEW e \in FieldElements PROVE e \in Limbs /\ Value(e) \in Nat /\ Value(e) < Prime
  BY CanonicalValue, LimbsValue DEF FieldElements
<1>3. Prime \in Nat
  BY ModulusValue
<1> QED BY <1>1, <1>2, <1>3, LimbsValue DEF TypeOK

LEMMA Outcomes ==
    ASSUME NEW o, NEW l, NEW r
    PROVE  LET c == [op |-> o, left |-> l, right |-> r]
           IN  /\ o = "add" => Exact!Exact(c) = (l + r) % Prime
               /\ o = "subtract" => Exact!Exact(c) = (l - r) % Prime
               /\ o = "negate" => Exact!Exact(c) = (- l) % Prime
BY DEF Exact!Exact

\* Of a call that goes on, they stay.
LEMMA SameCall ==
    ASSUME op' = op, left' = left, right' = right
    PROVE  call' = call /\ Exact!Exact(call)' = Exact!Exact(call)
BY DEF call

\* What is shown of each step, besides LoopInv'.
NumberInv ==
    /\ FunctionInv
    /\ SumInv
    /\ DifferenceInv
    /\ pc = "canonical" => Value(result) = Exact!Exact(call)

LEMMA CallAddExact ==
    ASSUME FieldInv, LoopInv', CallAdd
    PROVE  NumberInv'
<1>1. /\ pc' = "add" /\ op' = "add" /\ index' = 0 /\ carry' = 0 /\ result' = Zero /\ answer' = Zero
  BY DEF CallAdd, StartLoop
<1>2. left' \in Digits /\ right' \in Digits
  <2>1. left' \in FieldElements /\ right' \in FieldElements
    BY DEF CallAdd
  <2> QED BY <2>1, LimbsValue DEF FieldElements
<1>3. PartSum(Part(left', 0), Part(right', 0), Zero, 0, 0)
  BY <1>2, StartOfSum
<1> QED BY <1>1, <1>3 DEF NumberInv, FunctionInv, SumInv, DifferenceInv

LEMMA AddStepExact ==
    ASSUME FieldInv, LoopInv', AddStep
    PROVE  NumberInv'
<1> DEFINE sum == AddLimb(left[index], right[index], carry)
           l == left[index]
           r == right[index]
<1>1. /\ pc = "add" /\ pc' = "add" /\ index \in Index /\ index' = index + 1
      /\ carry' = sum.carry /\ result' = [result EXCEPT ![index] = sum.limb]
      /\ op' = op /\ left' = left /\ right' = right /\ answer' = answer
  BY Sizes DEF AddStep, Put, operands, FieldInv, LoopInv, TypeOK
<1>2. LoopInv /\ FunctionInv /\ PartSum(Part(left, index), Part(right, index), result, carry, index)
  BY <1>1 DEF FieldInv, SumInv
<1>3. /\ left \in Digits /\ right \in Digits /\ result \in Digits
      /\ l \in Limb /\ r \in Limb /\ carry \in {0, 1}
  BY <1>1, <1>2, CallNumbers, LimbsValue DEF Limbs, LoopInv, AddInv
<1>4. /\ sum.limb \in Limb /\ sum.carry \in {0, 1}
      /\ sum.limb = l + r + carry - sum.carry * Radix
  BY <1>3, AddLimbExact
<1>5. index = Top => sum.carry = 0
  BY <1>1, Sizes DEF LoopInv, AddInv
<1> HIDE DEF sum, l, r
<1>6. /\ sum.limb \in Nat /\ sum.carry \in Int /\ l \in Int /\ r \in Int /\ carry \in Int
      /\ Radix \in Nat /\ TopRadix \in Nat
  BY <1>3, <1>4, Sizes
<1>7. LimbSum(Base(index), l, r, carry, sum.limb, sum.carry)
  <2>1. CASE index = Top
    BY <1>4, <1>5, <1>6, <2>1 DEF LimbSum, Base
  <2>2. CASE index # Top
    BY <1>4, <1>6, <2>2 DEF LimbSum, Base
  <2> QED BY <2>1, <2>2
<1>8. /\ Part(left, index) \in Int /\ Part(left, index + 1) = Part(left, index) + l * Place(index)
      /\ Part(right, index) \in Int /\ Part(right, index + 1) = Part(right, index) + r * Place(index)
  BY <1>1, <1>3, PartDef, Sizes DEF Index, l, r
<1>9. PartSum(Part(left, index) + l * Place(index), Part(right, index) + r * Place(index),
              result', sum.carry, index + 1)
  BY <1>1, <1>2, <1>3, <1>6, <1>7, <1>8, SumGoesOn, Zenon
<1>10. PartSum(Part(left', index'), Part(right', index'), result', carry', index')
  BY <1>1, <1>8, <1>9
<1> QED BY <1>1, <1>2, <1>10 DEF NumberInv, FunctionInv, SumInv, DifferenceInv

LEMMA AddEndExact ==
    ASSUME FieldInv, LoopInv', AddEnd
    PROVE  NumberInv'
<1>1. /\ pc = "add" /\ pc' = "fold" /\ index = LimbCount /\ result' = result /\ folds' = folds
      /\ op' = op /\ left' = left /\ right' = right /\ answer' = answer
  BY DEF AddEnd, operands
<1>2. LoopInv /\ FunctionInv /\ carry = 0 /\ folds = 0
  BY <1>1, Sizes DEF FieldInv, LoopInv, AddInv, FoldInv
<1>3. Value(left) + Value(right) = Value(result) + carry * Place(index)
  BY <1>1 DEF FieldInv, SumInv, PartSum, Value
<1>4. Value(result) = Value(left) + Value(right) - folds * Prime
  <2>1. Place(index) \in Int
    BY <1>1, PlaceDef, Sizes
  <2>2. carry * Place(index) = 0 /\ folds * Prime = 0
    BY <1>2, <2>1, CallNumbers
  <2> QED BY <1>2, <1>3, <2>2, CallNumbers
<1> QED BY <1>1, <1>2, <1>4 DEF NumberInv, FunctionInv, SumInv, DifferenceInv

LEMMA FoldExact ==
    ASSUME FieldInv, LoopInv', Fold
    PROVE  NumberInv'
<1> DEFINE t == result[Top]
           new == t % TopRadix
<1>1. /\ pc = "fold" /\ pc' = "ripple" /\ index' = 0 /\ t >= TopRadix
      /\ carry' = t \div TopRadix /\ result' = [result EXCEPT ![Top] = new]
      /\ op' = op /\ left' = left /\ right' = right /\ answer' = answer
  BY DEF Fold, operands
<1>2. LoopInv /\ FunctionInv /\ Value(result) = Value(left) + Value(right) - folds * Prime
  BY <1>1 DEF FieldInv, SumInv
<1>3. t \in Nat /\ t < 2 * TopRadix /\ folds = 0 /\ TopRadix \in Nat \ {0}
  <2>1. t \in Nat /\ folds \in {0, 1} /\ TopRadix \in Nat \ {0}
    BY <1>2, CallNumbers, LimbsValue, Sizes
  <2> QED BY <1>1, <1>2, <2>1, Sizes DEF LoopInv, FoldInv, IsSum
<1> HIDE DEF t
<1>4. new = t - TopRadix /\ t \div TopRadix = 1
  BY <1>1, <1>3, Wrap
<1> HIDE DEF new
<1> DEFINE p == Place(Top)
<1>5. /\ p \in Nat /\ Prime = TopRadix * p - 1 /\ Place(0) = 1
      /\ new \in Nat /\ Top \in Index /\ result \in Digits
  <2>1. p \in Nat /\ Place(LimbCount) = TopRadix * p /\ Place(0) = 1
    BY PlaceDef, Sizes DEF Index, Base
  <2> QED BY <1>1, <1>2, <1>3, <1>4, <2>1, ModulusValue, CallNumbers, Sizes
<1>6. Value(result') = Value(result) - t * p + new * p
  BY <1>1, <1>5, ValuePut DEF t
<1> HIDE DEF p
<1>7. new * p = t * p - TopRadix * p /\ t * p \in Int /\ TopRadix * p \in Int
  BY <1>3, <1>4, <1>5
<1>8. Value(result') + carry' * Place(index') = Value(left) + Value(right) - Prime
  <2>1. carry' * Place(index') = 1
    BY <1>1, <1>4, <1>5
  <2>2. Value(result) = Value(left) + Value(right)
    BY <1>2, <1>3, CallNumbers
  <2> QED BY <1>2, <1>5, <1>6, <1>7, <2>1, <2>2, CallNumbers
<1> QED BY <1>1, <1>2, <1>8 DEF NumberInv, FunctionInv, SumInv, DifferenceInv

LEMMA RippleExact ==
    ASSUME FieldInv, LoopInv', Ripple
    PROVE  NumberInv'
<1> DEFINE l == result[index]
           new == (l + carry) % Radix
           c == Bit(new < l)
<1>1. /\ pc = "ripple" /\ pc' = "ripple" /\ index \in Index /\ index' = index + 1 /\ carry # 0
      /\ carry' = c /\ result' = [result EXCEPT ![index] = new]
      /\ op' = op /\ left' = left /\ right' = right /\ answer' = answer
  BY Sizes DEF Ripple, Put, operands, FieldInv, LoopInv, TypeOK
<1>2. /\ LoopInv /\ FunctionInv
      /\ Value(result) + carry * Place(index) = Value(left) + Value(right) - Prime
  BY <1>1 DEF FieldInv, SumInv
<1>3. carry = 1 /\ l \in Limb /\ l \in Nat
  BY <1>1, <1>2, CallNumbers, LimbsValue DEF LoopInv, FoldInv, Limbs
<1>4. index = Top => c = 0
  BY <1>1, Sizes DEF LoopInv, FoldInv
<1>5. new = l + 1 - c * Radix /\ c \in {0, 1} /\ new \in Nat /\ Radix \in Nat
  <2>1. /\ new \in Limb
        /\ l = Radix - 1 => new = 0 /\ c = 1
        /\ l # Radix - 1 => new = l + 1 /\ c = 0
    BY <1>3, RippleLimbExact
  <2> HIDE DEF new, c
  <2> QED BY <1>3, <2>1, Sizes
<1> HIDE DEF new, c, l
<1> DEFINE p == Place(index)
           q == Place(index + 1)
<1>6. p \in Nat /\ q \in Nat /\ q = Base(index) * p /\ result \in Digits
  <2>1. index \in 0..LimbCount /\ index + 1 \in 0..LimbCount
    BY <1>1, Sizes DEF Index
  <2> QED BY <1>1, <1>2, <2>1, PlaceDef, CallNumbers
<1>7. Value(result') = Value(result) - l * p + new * p
  BY <1>1, <1>5, <1>6, ValuePut DEF l
<1>8. new * p + c * q = l * p + p /\ l * p \in Int /\ new * p \in Int /\ c * q \in Int
  <2> HIDE DEF p, q
  <2>1. l * p \in Int /\ new * p \in Int /\ c * q \in Int /\ (l + 1) * p = l * p + p
    BY <1>3, <1>5, <1>6
  <2>2. CASE c = 0
    BY <1>3, <1>5, <1>6, <2>1, <2>2
  <2>3. CASE c = 1
    <3>1. q = Radix * p /\ new = l + 1 - Radix
      BY <1>3, <1>4, <1>5, <1>6, <2>3 DEF Base
    <3>2. (l + 1 - Radix) * p = l * p + p - Radix * p
      BY <1>3, <1>5, <1>6
    <3> QED BY <1>6, <2>1, <2>3, <3>1, <3>2
  <2> QED BY <1>5, <2>2, <2>3
<1>9. Value(result') + carry' * Place(index') = Value(left) + Value(right) - Prime
  <2>1. carry' * Place(index') = c * q /\ carry * Place(index) = p
    BY <1>1, <1>3, <1>6
  <2> HIDE DEF p, q
  <2> QED BY <1>2, <1>6, <1>7, <1>8, <2>1, CallNumbers
<1> QED BY <1>1, <1>2, <1>9 DEF NumberInv, FunctionInv, SumInv, DifferenceInv

LEMMA RippleEndExact ==
    ASSUME FieldInv, LoopInv', RippleEnd
    PROVE  NumberInv'
<1>1. /\ pc = "ripple" /\ pc' = "fold" /\ (index = LimbCount \/ carry = 0)
      /\ result' = result /\ folds' = folds
      /\ op' = op /\ left' = left /\ right' = right /\ answer' = answer
  BY DEF RippleEnd, operands
<1>2. /\ LoopInv /\ FunctionInv /\ carry = 0 /\ folds = 1
      /\ Value(result) + carry * Place(index) = Value(left) + Value(right) - Prime
  BY <1>1 DEF FieldInv, SumInv, LoopInv, FoldInv
<1>3. Value(result) = Value(left) + Value(right) - folds * Prime
  <2>1. Place(index) \in Int
    BY <1>2, CallNumbers, PlaceDef
  <2>2. carry * Place(index) = 0 /\ folds * Prime = Prime
    BY <1>2, <2>1, CallNumbers
  <2> QED BY <1>2, <2>2, CallNumbers
<1> QED BY <1>1, <1>2, <1>3 DEF NumberInv, FunctionInv, SumInv, DifferenceInv

LEMMA FoldEndExact ==
    ASSUME FieldInv, LoopInv', FoldEnd
    PROVE  NumberInv'
<1>1. /\ pc = "fold" /\ pc' = "canonical" /\ result[Top] < TopRadix
      /\ result' = IF result = Modulus THEN Zero ELSE result
      /\ op' = op /\ left' = left /\ right' = right /\ answer' = answer
  BY DEF FoldEnd, operands
<1>2. LoopInv /\ FunctionInv /\ Value(result) = Value(left) + Value(right) - folds * Prime
  BY <1>1 DEF FieldInv, SumInv
<1> DEFINE L == Value(left)
           R == Value(right)
           V == Value(result)
           P == Prime
<1>3. /\ L \in Nat /\ R \in Nat /\ L < P /\ R < P /\ V \in Nat /\ P \in Nat
      /\ folds \in {0, 1} /\ result \in Limbs
  BY <1>2, CallNumbers
<1>4. V = IF folds = 1 THEN L + R - P ELSE L + R
  <2>1. V = L + R - folds * P
    BY <1>2
  <2> HIDE DEF L, R, V, P
  <2> QED BY <1>3, <2>1
<1>5. V <= P /\ (V = P <=> result = Modulus)
  <2>1. V < Place(LimbCount)
    BY <1>1, <1>3, TopDecides
  <2>2. Place(LimbCount) = P + 1
    <3>1. Place(LimbCount) \in Nat
      BY PlaceDef, Sizes
    <3> QED BY <3>1, ModulusValue
  <2>3. V = P <=> result = Modulus
    BY <1>3, ModulusValue, ValueInjective
  <2> HIDE DEF V, P
  <2> QED BY <1>3, <2>1, <2>2, <2>3
<1>6. Value(result') = (L + R) % P
  <2>1. Value(result') = IF V = P THEN 0 ELSE V
    BY <1>1, <1>5, ZeroValue
  <2> HIDE DEF L, R, V, P
  <2>2. P > 0 /\ P \in Nat \ {0} /\ L + R \in Int
    BY <1>3
  <2>3. /\ L + R < P => (L + R) % P = L + R
        /\ P <= L + R /\ L + R < 2 * P => (L + R) % P = L + R - P
    BY <1>3, <2>2, Wrap
  <2> DEFINE m == (L + R) % P
  <2>4. (L + R < P => m = L + R) /\ (P <= L + R /\ L + R < 2 * P => m = L + R - P)
    BY <2>3
  <2> HIDE DEF m
  <2>5. Value(result') = m
    BY <1>3, <1>4, <1>5, <2>1, <2>4
  <2> QED BY <2>5 DEF m
<1>7. op = "add"
  BY <1>1, <1>2 DEF FunctionInv
<1>8. Exact!Exact(call)' = (L + R) % P
  BY <1>1, <1>7, Outcomes DEF call
<1> QED BY <1>1, <1>2, <1>6, <1>7, <1>8 DEF NumberInv, FunctionInv, SumInv, DifferenceInv

LEMMA CallSubtractExact ==
    ASSUME FieldInv, LoopInv', CallSubtract
    PROVE  NumberInv'
BY DEF CallSubtract, StartLoop, NumberInv, FunctionInv, SumInv, DifferenceInv

LEMMA CompareEqualExact ==
    ASSUME FieldInv, LoopInv', CompareEqual
    PROVE  NumberInv'
<1>1. /\ pc = "compare" /\ pc' = "compare"
      /\ op' = op /\ left' = left /\ right' = right /\ answer' = answer
  BY DEF CompareEqual, operands
<1> QED BY <1>1 DEF FieldInv, NumberInv, FunctionInv, SumInv, DifferenceInv

\* Which of the operands of a subtraction is the larger, as the comparison of
\* their limbs finds it.
LEMMA CompareExact ==
    ASSUME FieldInv, CompareEnd
    PROVE  /\ left[index] < right[index] => Value(left) < Value(right)
           /\ ~ (left[index] < right[index]) => Value(right) <= Value(left)
<1>1. /\ LoopInv /\ index \in Index /\ (left[index] # right[index] \/ index = 0)
      /\ \A k \in Index : k > index => left[k] = right[k]
  BY DEF FieldInv, LoopInv, CompareInv, CompareEnd
<1>2. /\ left \in Limbs /\ right \in Limbs /\ left[index] \in Nat /\ right[index] \in Nat
      /\ Value(left) \in Nat /\ Value(right) \in Nat
  BY <1>1, CallNumbers, LimbsValue
<1>3. CASE left[index] < right[index]
  BY <1>1, <1>2, <1>3, Lexicographic
<1>4. CASE right[index] < left[index]
  <2>1. Value(right) < Value(left)
    BY <1>1, <1>2, <1>4, Lexicographic
  <2> QED BY <1>2, <1>4, <2>1
<1>5. CASE left[index] = right[index]
  <2>1. \A k \in Index : left[k] = right[k]
    BY <1>1, <1>5, Sizes
  <2>2. left = right
    BY <1>2, <2>1 DEF Limbs
  <2> QED BY <1>2, <1>5, <2>2
<1> QED BY <1>2, <1>3, <1>4, <1>5

LEMMA CompareEndExact ==
    ASSUME FieldInv, LoopInv', CompareEnd
    PROVE  NumberInv'
<1>1. /\ pc = "compare" /\ index' = 0 /\ carry' = 0 /\ result' = Zero
      /\ op' = op /\ left' = left /\ right' = right /\ answer' = answer
      /\ IF left[index] < right[index]
         THEN pc' = "difference" /\ minuend' = right /\ subtrahend' = left
         ELSE pc' = "subtract" /\ minuend' = left /\ subtrahend' = right
  BY DEF CompareEnd, StartSubtract, StartLoop, operands
<1>2. LoopInv /\ op = "subtract" /\ FunctionInv
  BY <1>1 DEF FieldInv, FunctionInv
<1>3. left \in Digits /\ right \in Digits
  BY <1>2, CallNumbers, LimbsValue
<1>4. PartDifference(Part(minuend', 0), Part(subtrahend', 0), Zero, 0, 0)
  BY <1>1, <1>3, StartOfSum
<1>5. CASE left[index] < right[index]
  BY <1>1, <1>2, <1>4, <1>5 DEF NumberInv, FunctionInv, SumInv, DifferenceInv
<1>6. CASE ~ (left[index] < right[index])
  <2> DEFINE L == Value(left)
             R == Value(right)
             P == Prime
  <2>1. L \in Nat /\ R \in Nat /\ P \in Nat /\ L < P /\ R <= L
    BY <1>2, <1>6, CallNumbers, CompareExact
  <2>2. Exact!Exact(call)' = (L - R) % P
    BY <1>1, <1>2, Outcomes DEF call
  <2>3. Value(minuend') - Value(subtrahend') = L - R
    BY <1>1, <1>6
  <2>4. L - R = (L - R) % P
    <3> HIDE DEF L, R, P
    <3>1. L - R \in Int /\ 0 <= L - R /\ L - R < P /\ P \in Nat \ {0}
      BY <2>1
    <3> QED BY <3>1, Wrap
  <2> QED BY <1>1, <1>2, <1>4, <1>6, <2>2, <2>3, <2>4
          DEF NumberInv, FunctionInv, SumInv, DifferenceInv
<1> QED BY <1>5, <1>6

LEMMA SubtractStepExact ==
    ASSUME FieldInv, LoopInv', SubtractStep
    PROVE  NumberInv'
<1> DEFINE difference == SubtractLimb(minuend[index], subtrahend[index], carry)
           m == minuend[index]
           s == subtrahend[index]
           d == difference.limb
           c == difference.borrow
<1>1. /\ pc \in {"difference", "subtract"} /\ pc' = pc /\ index \in Index /\ index' = index + 1
      /\ carry' = c /\ result' = [result EXCEPT ![index] = d]
      /\ op' = op /\ left' = left /\ right' = right /\ answer' = answer
      /\ minuend' = minuend /\ subtrahend' = subtrahend
  BY Sizes DEF SubtractStep, Put, operands, FieldInv, LoopInv, TypeOK
<1>2. /\ LoopInv /\ FunctionInv
      /\ PartDifference(Part(minuend, index), Part(subtrahend, index), result, carry, index)
  BY <1>1 DEF FieldInv, DifferenceInv
<1>3. /\ minuend \in Digits /\ subtrahend \in Digits /\ result \in Digits
      /\ m \in Limb /\ s \in Limb /\ carry \in {0, 1}
  BY <1>1, <1>2, CallNumbers, LimbsValue DEF Limbs, LoopInv, SubtractInv
<1>4. d \in Limb /\ c \in {0, 1} /\ d = m - s - carry + c * Radix
  BY <1>3, SubtractLimbExact
<1>5. index = Top => c = 0
  <2>1. carry' \in {0, 1} /\ (carry' = 1 => Exceeds(minuend', subtrahend', index'))
    BY <1>1 DEF LoopInv, SubtractInv
  <2> QED BY <1>1, <1>4, <2>1, Sizes DEF Exceeds
<1> HIDE DEF d, c, m, s
<1>6. /\ d \in Nat /\ c \in Int /\ m \in Int /\ s \in Int /\ carry \in Int
      /\ Radix \in Nat /\ TopRadix \in Nat
  BY <1>3, <1>4, Sizes
<1>7. LimbDifference(Base(index), m, s, carry, d, c)
  <2>1. CASE index = Top
    BY <1>4, <1>5, <1>6, <2>1 DEF LimbDifference, Base
  <2>2. CASE index # Top
    BY <1>4, <1>6, <2>2 DEF LimbDifference, Base
  <2> QED BY <2>1, <2>2
<1>8. /\ Part(minuend, index) \in Int
      /\ Part(minuend, index + 1) = Part(minuend, index) + m * Place(index)
      /\ Part(subtrahend, index) \in Int
      /\ Part(subtrahend, index + 1) = Part(subtrahend, index) + s * Place(index)
  BY <1>1, <1>3, PartDef, Sizes DEF Index, m, s
<1>9. PartDifference(Part(minuend, index) + m * Place(index),
                     Part(subtrahend, index) + s * Place(index), result', c, index + 1)
  BY <1>1, <1>2, <1>3, <1>6, <1>7, <1>8, DifferenceGoesOn, Zenon
<1>10. PartDifference(Part(minuend', index'), Part(subtrahend', index'), result', carry', index')
  BY <1>1, <1>8, <1>9
<1>11. Exact!Exact(call)' = Exact!Exact(call)
  BY <1>1, SameCall
<1> QED BY <1>1, <1>2, <1>10, <1>11 DEF FieldInv, NumberInv, FunctionInv, SumInv, DifferenceInv

\* The difference, when subtract_limbs is through.
LEMMA DifferenceMade ==
    ASSUME FieldInv, pc \in {"difference", "subtract"}, index = LimbCount
    PROVE  Value(minuend) - Value(subtrahend) = Value(result)
<1>1. LoopInv /\ carry \in {0, 1} /\ (carry = 1 => Exceeds(minuend, subtrahend, index))
  BY DEF FieldInv, LoopInv, SubtractInv
<1>2. carry = 0
  BY <1>1, Sizes DEF Exceeds
<1>3. Value(minuend) - Value(subtrahend) = Value(result) - carry * Place(index)
  BY DEF FieldInv, DifferenceInv, PartDifference, Value
<1>4. carry * Place(index) = 0
  BY <1>1, <1>2, CallNumbers, PlaceDef
<1> QED BY <1>1, <1>3, <1>4, CallNumbers

LEMMA ComplementExact ==
    ASSUME FieldInv, LoopInv', Complement
    PROVE  NumberInv'
<1>1. /\ pc = "difference" /\ index = LimbCount /\ pc' = "subtract"
      /\ index' = 0 /\ carry' = 0 /\ result' = Zero /\ minuend' = Modulus /\ subtrahend' = result
      /\ op' = op /\ left' = left /\ right' = right /\ answer' = answer
  BY DEF Complement, StartSubtract, StartLoop, operands
<1>2. /\ LoopInv /\ op = "subtract" /\ FunctionInv
      /\ Value(minuend) - Value(subtrahend) = Value(right) - Value(left)
  BY <1>1 DEF FieldInv, FunctionInv, DifferenceInv
<1>3. Value(subtrahend) < Value(minuend)
  <2>1. Exceeds(minuend, subtrahend, 0)
    BY <1>1, <1>2 DEF LoopInv, SubtractInv
  <2>2. PICK j \in Index : minuend[j] > subtrahend[j] /\ \A k \in Index : k > j => minuend[k] = subtrahend[k]
    BY <2>1 DEF Exceeds
  <2>3. subtrahend[j] < minuend[j]
    BY <1>2, <2>2, CallNumbers, LimbsValue
  <2> QED BY <1>2, <2>2, <2>3, CallNumbers, Lexicographic
<1> DEFINE L == Value(left)
           R == Value(right)
           P == Prime
<1>4. L \in Nat /\ R \in Nat /\ P \in Nat /\ L < P /\ R < P /\ L < R /\ Value(result) = R - L
  BY <1>1, <1>2, <1>3, DifferenceMade, CallNumbers
<1>5. Modulus \in Digits /\ result \in Digits /\ Value(Modulus) = P
  BY <1>2, CallNumbers, ModulusValue, LimbsValue
<1>6. PartDifference(Part(Modulus, 0), Part(result, 0), Zero, 0, 0)
  BY <1>5, StartOfSum
<1>7. Exact!Exact(call)' = (L - R) % P
  BY <1>1, <1>2, Outcomes DEF call
<1>8. Value(minuend') - Value(subtrahend') = P - (R - L)
  BY <1>1, <1>4, <1>5
<1>9. P - (R - L) = (L - R) % P
  <2> HIDE DEF L, R, P
  <2>1. L - R \in Int /\ - P <= L - R /\ L - R < 0 /\ P \in Nat \ {0}
    BY <1>4
  <2>2. (L - R) % P = L - R + P
    BY <2>1, Wrap
  <2> QED BY <1>4, <2>2
<1> QED BY <1>1, <1>2, <1>6, <1>7, <1>8, <1>9 DEF NumberInv, FunctionInv, SumInv, DifferenceInv

LEMMA SubtractEndExact ==
    ASSUME FieldInv, LoopInv', SubtractEnd
    PROVE  NumberInv'
<1>1. /\ pc = "subtract" /\ index = LimbCount /\ pc' = "canonical" /\ result' = result
      /\ op' = op /\ left' = left /\ right' = right /\ answer' = answer
  BY DEF SubtractEnd, operands
<1>2. /\ FunctionInv /\ op \in {"subtract", "negate"}
      /\ Value(minuend) - Value(subtrahend) = Exact!Exact(call)
  BY <1>1 DEF FieldInv, FunctionInv, DifferenceInv
<1>3. Value(result) = Exact!Exact(call)
  BY <1>1, <1>2, DifferenceMade
<1>4. Exact!Exact(call)' = Exact!Exact(call)
  BY <1>1, SameCall
<1> QED BY <1>1, <1>2, <1>3, <1>4 DEF NumberInv, FunctionInv, SumInv, DifferenceInv

LEMMA CallNegateExact ==
    ASSUME FieldInv, LoopInv', CallNegate
    PROVE  NumberInv'
<1> DEFINE L == Value(left')
           P == Prime
<1>1. /\ op' = "negate" /\ answer' = Zero /\ index' = 0 /\ carry' = 0 /\ result' = Zero
      /\ left' \in FieldElements
      /\ IF left' = Zero THEN pc' = "canonical"
                         ELSE pc' = "subtract" /\ minuend' = Modulus /\ subtrahend' = left'
  BY DEF CallNegate, StartSubtract, StartLoop
<1>2. /\ L \in Nat /\ L < P /\ P \in Nat /\ (L = 0 <=> left' = Zero)
      /\ left' \in Digits /\ Modulus \in Digits /\ Value(Modulus) = P
  <2>1. left' \in Limbs /\ Canonical(left')
    BY <1>1 DEF FieldElements
  <2> QED BY <2>1, CanonicalValue, LimbsValue, ModulusValue, ValueInjective, ZeroValue
<1>3. Exact!Exact(call)' = (- L) % P
  BY <1>1, Outcomes DEF call
<1> HIDE DEF L, P
<1>4. CASE left' = Zero
  <2>1. L = 0 /\ P \in Nat \ {0}
    BY <1>2, <1>4
  <2>2. (- L) % P = 0
    <3>1. - L = 0
      <4>1. L \in Int /\ - L = 0 - L
        BY <1>2
      <4> QED BY <2>1, <4>1
    <3>2. 0 % P = 0
      BY <2>1
    <3> QED BY <3>1, <3>2
  <2> QED BY <1>1, <1>3, <1>4, <2>2, ZeroValue DEF NumberInv, FunctionInv, SumInv, DifferenceInv
<1>5. CASE left' # Zero
  <2>1. - L \in Int /\ - P <= - L /\ - L < 0 /\ P \in Nat \ {0}
    BY <1>2, <1>5
  <2>2. (- L) % P = - L + P
    BY <2>1, Wrap
  <2>3. - L + P = P - L
    BY <1>2
  <2>4. Value(minuend') - Value(subtrahend') = P - L
    BY <1>1, <1>2, <1>5 DEF L
  <2>5. PartDifference(Part(Modulus, 0), Part(left', 0), Zero, 0, 0)
    BY <1>2, StartOfSum
  <2> QED BY <1>1, <1>3, <1>5, <2>2, <2>3, <2>4, <2>5
          DEF NumberInv, FunctionInv, SumInv, DifferenceInv
<1> QED BY <1>4, <1>5

LEMMA ReturnExact ==
    ASSUME FieldInv, LoopInv', Return
    PROVE  NumberInv'
BY DEF Return, NumberInv, FunctionInv, SumInv, DifferenceInv

LEMMA InitFieldInv == Init => FieldInv
<1> SUFFICES ASSUME Init PROVE FieldInv
  OBVIOUS
<1>1. LoopInv
  BY InitLoopInv
<1> QED BY <1>1 DEF Init, FieldInv, FunctionInv, SumInv, DifferenceInv

LEMMA NextFieldInv == FieldInv /\ [Next]_vars => FieldInv'
<1> SUFFICES ASSUME FieldInv, [Next]_vars PROVE FieldInv'
  OBVIOUS
<1>1. LoopInv'
  BY NextLoopInv DEF FieldInv
<1>2. NumberInv'
  <2>1. CASE UNCHANGED vars
    <3>1. /\ pc' = pc /\ op' = op /\ left' = left /\ right' = right /\ minuend' = minuend
          /\ subtrahend' = subtrahend /\ index' = index /\ carry' = carry /\ result' = result
          /\ folds' = folds /\ answer' = answer
      BY <2>1 DEF vars
    <3>2. Exact!Exact(call)' = Exact!Exact(call)
      BY <3>1, SameCall
    <3> QED BY <3>1, <3>2
            DEF FieldInv, NumberInv, FunctionInv, SumInv, DifferenceInv, PartSum, PartDifference
  <2>2. CASE Next
    BY <1>1, <2>2, CallAddExact, CallSubtractExact, CallNegateExact, AddStepExact, AddEndExact,
       FoldExact, RippleExact, RippleEndExact, FoldEndExact, CompareEqualExact,
       CompareEndExact, SubtractStepExact, ComplementExact, SubtractEndExact, ReturnExact
       DEF Next, Work
  <2> QED BY <2>1, <2>2
<1> QED BY <1>1, <1>2 DEF FieldInv, NumberInv

\* With what the limbs of each loop stand for.
THEOREM LoopsComputeNumbers == Spec => []FieldInv
BY InitFieldInv, NextFieldInv, PTL DEF Spec

\* add, subtract and negate return the sum, the difference and the opposite
\* modulo p: limb by limb, they implement ModularArithmetic, for any number of
\* limbs and any radix.
THEOREM ElementImplementsArithmetic == Spec => IsExact
<1>1. Init => Exact!Init
  BY ZeroValue DEF Init, Exact!Init, Exact!Idle, call
<1>2. FieldInv /\ [Next]_vars => [Exact!Call \/ Exact!Return]_<<call, Value(answer)>>
  <2> SUFFICES ASSUME FieldInv, [Next]_vars
               PROVE  [Exact!Call \/ Exact!Return]_<<call, Value(answer)>>
    OBVIOUS
  <2>1. CASE CallAdd \/ CallSubtract \/ CallNegate
    <3>1. /\ pc = "idle" /\ op' \in {"add", "subtract", "negate"}
          /\ left' \in FieldElements /\ right' \in FieldElements /\ answer' = Zero
      BY <2>1, Sizes DEF CallAdd, CallSubtract, CallNegate
    <3>2. call = Exact!Idle
      BY <3>1, ZeroValue DEF FieldInv, FunctionInv, call, Exact!Idle
    <3>3. \A e \in FieldElements : Value(e) \in Exact!Elements
      <4> SUFFICES ASSUME NEW e \in FieldElements PROVE Value(e) \in Exact!Elements
        OBVIOUS
      <4>1. Value(e) \in Nat /\ Value(e) < Prime /\ Prime \in Nat
        BY CanonicalValue, LimbsValue, ModulusValue DEF FieldElements
      <4> QED BY <4>1 DEF Exact!Elements
    <3>4. Exact!Call
      BY <3>1, <3>2, <3>3, ZeroValue DEF Exact!Call, call
    <3> QED BY <3>4
  <2>2. CASE Return
    <3>1. /\ pc = "canonical" /\ op # "none" /\ answer' = result /\ op' = "none"
          /\ left' = Zero /\ right' = Zero
      BY <2>2 DEF Return, FieldInv, FunctionInv
    <3>2. call # Exact!Idle /\ call' = Exact!Idle
      BY <3>1, ZeroValue DEF call, Exact!Idle
    <3>3. Value(answer') = Exact!Exact(call)
      BY <3>1 DEF FieldInv
    <3>4. Exact!Return
      BY <3>2, <3>3 DEF Exact!Return
    <3> QED BY <3>4
  <2>3. ASSUME op' = op, left' = left, right' = right, answer' = answer
        PROVE  UNCHANGED <<call, Value(answer)>>
    BY <2>3 DEF call
  <2>4. CASE UNCHANGED vars
    BY <2>3, <2>4 DEF vars
  <2>5. CASE Work /\ ~ Return
    <3>1. op' = op /\ left' = left /\ right' = right /\ answer' = answer
      BY <2>5 DEF Work, AddStep, AddEnd, Fold, Ripple, RippleEnd, FoldEnd, CompareEqual,
                  CompareEnd, SubtractStep, Complement, SubtractEnd, operands
    <3> QED BY <2>3, <3>1
  <2> QED BY <2>1, <2>2, <2>4, <2>5 DEF Next
<1> QED BY <1>1, <1>2, LoopsComputeNumbers, PTL DEF Spec, IsExact, Exact!Spec

-----------------------------------------------------------------------------
(* The probe. *)

\* Every step of the probe is a step of a call to add, subtract or negate, the
\* start of one, or none of the field element's.
THEOREM ProbeCallsTheElement == ProbeSpec => Spec
<1>1. ProbeInit => Init
  BY DEF ProbeInit
<1>2. [ProbeNext]_probeVars => [Next]_vars
  <2> SUFFICES ASSUME [ProbeNext]_probeVars PROVE [Next]_vars
    OBVIOUS
  <2>1. CASE ParseOperand
    BY <2>1 DEF ParseOperand
  <2>2. CASE OperandParsed
    BY <2>2 DEF OperandParsed
  <2>3. CASE PrintRejected
    BY <2>3 DEF PrintRejected
  <2>4. CASE Compute
    BY <2>4 DEF Compute, Next
  <2>5. CASE ElementWork
    BY <2>5 DEF ElementWork, Next
  <2>6. CASE Encode
    BY <2>6 DEF Encode
  <2>7. CASE CodecWork
    BY <2>7 DEF CodecWork
  <2>8. CASE PrintResult
    BY <2>8 DEF PrintResult
  <2>9. CASE UNCHANGED probeVars
    BY <2>9 DEF probeVars
  <2> QED
    BY <2>1, <2>2, <2>3, <2>4, <2>5, <2>6, <2>7, <2>8, <2>9 DEF ProbeNext, ProbeWork
<1> QED BY <1>1, <1>2, PTL DEF ProbeSpec, Spec

\* So the calls the probe makes compute what ModularArithmetic does.
THEOREM ProbeImplementsArithmetic == ProbeSpec => IsExact
BY ProbeCallsTheElement, ElementImplementsArithmetic, PTL

-----------------------------------------------------------------------------
(* Bytes. *)

LEMMA ByteSizes ==
    /\ ByteRadix \in Nat /\ ByteRadix >= 2
    /\ BytesPerLimb \in Nat /\ BytesPerLimb >= 1
    /\ TopBytes \in Nat /\ 1 <= TopBytes /\ TopBytes <= BytesPerLimb
    /\ EncodedSize \in Nat /\ EncodedSize >= 1 /\ EncodedSize = Top * BytesPerLimb + TopBytes
    /\ Top * BytesPerLimb \in Nat
    /\ \A o \in Offset : o \in Nat /\ o + 1 \in 0..EncodedSize /\ o \in 0..EncodedSize
    /\ \A x \in Byte : x \in Nat /\ x <= ByteRadix - 1
<1>1. /\ ByteRadix \in Nat /\ ByteRadix >= 2 /\ BytesPerLimb \in Nat /\ BytesPerLimb >= 1
      /\ TopBytes \in Nat /\ 1 <= TopBytes /\ TopBytes <= BytesPerLimb /\ EncodedSize \in Nat
  BY EncodingAssumption
<1>2. Top * BytesPerLimb \in Nat
  BY <1>1, IndexSizes
<1>3. EncodedSize = Top * BytesPerLimb + TopBytes
  <2> DEFINE below == Top * BytesPerLimb
  <2> HIDE DEF below
  <2> QED BY <1>1, <1>2 DEF TopBytes, below
<1>4. EncodedSize >= 1
  <2> DEFINE below == Top * BytesPerLimb
  <2> HIDE DEF below
  <2> QED BY <1>1, <1>2, <1>3 DEF below
<1> QED BY <1>1, <1>2, <1>3, <1>4 DEF Offset, Byte

LEMMA ByteWeightDef ==
    /\ ByteWeight[0] = 1 /\ ByteWeight[BytesPerLimb] = Radix
    /\ \A k \in 0..BytesPerLimb : ByteWeight[k] \in Nat \ {0} /\ ByteWeight[k] <= Radix
    /\ \A k \in 0..(BytesPerLimb - 1) : ByteWeight[k + 1] = ByteRadix * ByteWeight[k]
<1> DEFINE G == [p \in Nat \X Nat |-> ByteRadix * p[2]]
<1>1. G \in [Nat \X Nat -> Nat]
  BY ByteSizes
<1>2. \A k, v \in Nat : G[<<k, v>>] = ByteRadix * v
  OBVIOUS
<1> HIDE DEF G
<1>3. PICK f \in [0..BytesPerLimb -> Nat] :
        f[0] = 1 /\ \A k \in 1..BytesPerLimb : f[k] = G[<<k, f[k - 1]>>]
  <2>1. BytesPerLimb \in Nat /\ 1 \in Nat
    BY ByteSizes
  <2> QED BY <1>1, <2>1, Recursion
<1>4. ASSUME NEW k \in 0..BytesPerLimb
      PROVE  f[k] = IF k = 0 THEN 1 ELSE ByteRadix * f[k - 1]
  <2>1. CASE k # 0
    <3>1. k \in Nat /\ k \in 1..BytesPerLimb /\ f[k - 1] \in Nat
      BY <2>1, ByteSizes
    <3> QED BY <1>2, <1>3, <2>1, <3>1
  <2> QED BY <1>3, <2>1
<1>5. f = [k \in 0..BytesPerLimb |-> IF k = 0 THEN 1 ELSE ByteRadix * f[k - 1]]
  BY <1>3, <1>4
<1>6. ByteWeight = [k \in 0..BytesPerLimb |-> IF k = 0 THEN 1 ELSE ByteRadix * ByteWeight[k - 1]]
  BY <1>5, Zenon DEF ByteWeight
<1>7. \A k \in 0..BytesPerLimb : ByteWeight[k] = IF k = 0 THEN 1 ELSE ByteRadix * ByteWeight[k - 1]
  BY <1>6
<1>8. ByteWeight[0] = 1
  BY <1>7, ByteSizes
<1>9. ASSUME NEW k \in 0..(BytesPerLimb - 1) PROVE ByteWeight[k + 1] = ByteRadix * ByteWeight[k]
  <2>1. PICK i \in 0..BytesPerLimb : i = k + 1 /\ i - 1 = k /\ i # 0
    BY ByteSizes
  <2> QED BY <1>7, <2>1
<1>10. \A k \in 0..BytesPerLimb : ByteWeight[k] \in Nat \ {0}
  <2> DEFINE S == {k \in 0..BytesPerLimb : ByteWeight[k] \in Nat \ {0}}
  <2>1. 0 \in S
    BY <1>8, ByteSizes
  <2>2. ASSUME NEW k \in 0..BytesPerLimb, k \in S, k < BytesPerLimb PROVE k + 1 \in S
    <3>1. k + 1 \in 0..BytesPerLimb /\ ByteWeight[k + 1] = ByteRadix * ByteWeight[k]
      BY <1>9, <2>2, ByteSizes
    <3>2. ByteRadix * ByteWeight[k] \in Nat \ {0}
      <4> DEFINE w == ByteWeight[k]
      <4>1. w \in Nat \ {0} /\ ByteRadix \in Nat \ {0}
        BY <2>2, ByteSizes
      <4> HIDE DEF w
      <4> QED BY <4>1 DEF w
    <3> QED BY <3>1, <3>2
  <2> HIDE DEF S
  <2>3. \A k \in 0..BytesPerLimb : k \in S
    BY <2>1, <2>2, CountingUp, ByteSizes
  <2> QED BY <2>3 DEF S
<1>11. \A k \in 0..BytesPerLimb : ByteWeight[k] <= Radix
  <2> DEFINE S == {k \in 0..BytesPerLimb : \A i \in 0..k : ByteWeight[i] <= ByteWeight[k]}
  <2>1. 0 \in S
    BY <1>8, ByteSizes
  <2>2. ASSUME NEW k \in 0..BytesPerLimb, k \in S, k < BytesPerLimb PROVE k + 1 \in S
    <3>1. k + 1 \in 0..BytesPerLimb /\ ByteWeight[k + 1] = ByteRadix * ByteWeight[k]
      BY <1>9, <2>2, ByteSizes
    <3>2. ByteWeight[k] \in Nat
      BY <1>10
    <3>3. 1 * ByteWeight[k] <= ByteRadix * ByteWeight[k]
      <4>1. 1 \in Nat /\ ByteRadix \in Nat /\ 1 <= ByteRadix
        BY ByteSizes
      <4> QED BY <3>2, <4>1, TimesMonotone
    <3>4. ByteWeight[k] <= ByteWeight[k + 1] /\ ByteWeight[k + 1] \in Nat
      BY <1>10, <3>1, <3>2, <3>3
    <3>5. ASSUME NEW i \in 0..(k + 1) PROVE ByteWeight[i] <= ByteWeight[k + 1]
      <4>1. i \in 0..BytesPerLimb /\ (i \in 0..k \/ i = k + 1)
        BY <3>1, ByteSizes
      <4>3. ByteWeight[i] \in Nat
        BY <1>10, <4>1
      <4>2. CASE i \in 0..k
        <5>1. ByteWeight[i] <= ByteWeight[k]
          BY <2>2, <4>2
        <5> QED BY <3>2, <3>4, <4>3, <5>1
      <4> QED BY <3>4, <4>1, <4>2
    <3> QED BY <3>1, <3>5
  <2> HIDE DEF S
  <2>3. \A k \in 0..BytesPerLimb : k \in S
    BY <2>1, <2>2, CountingUp, ByteSizes
  <2>4. BytesPerLimb \in S
    BY <2>3, ByteSizes
  <2> QED BY <2>4, EncodingAssumption DEF S
<1> QED BY <1>8, <1>9, <1>10, <1>11, EncodingAssumption

\* Division, and that nothing else divides so.
LEMMA Divide ==
    ASSUME NEW x \in Nat, NEW n \in Nat \ {0}
    PROVE  /\ x \div n \in Nat /\ x % n \in 0..(n - 1)
           /\ x = (x \div n) * n + (x % n)
OBVIOUS

LEMMA Quotient ==
    ASSUME NEW n \in Nat \ {0}, NEW q \in Nat, NEW r \in 0..(n - 1),
           NEW s \in Nat, NEW t \in 0..(n - 1), q * n + r = s * n + t
    PROVE  q = s /\ r = t
<1>1. ASSUME NEW x \in Nat, NEW y \in Nat, x < y PROVE x * n + n <= y * n
  <2>1. (x + 1) * n <= y * n
    BY <1>1, TimesMonotone
  <2> QED BY <2>1, OneLess
<1>2. q * n \in Nat /\ s * n \in Nat
  OBVIOUS
<1>3. ~ (q < s)
  BY <1>1, <1>2
<1>4. ~ (s < q)
  BY <1>1, <1>2
<1>5. q = s
  BY <1>3, <1>4
<1> QED BY <1>2, <1>5

LEMMA DivideOnly ==
    ASSUME NEW x \in Nat, NEW n \in Nat \ {0}, NEW q \in Nat, NEW r \in 0..(n - 1),
           x = q * n + r
    PROVE  x \div n = q /\ x % n = r
<1> DEFINE s == x \div n
           t == x % n
<1>1. s \in Nat /\ t \in 0..(n - 1) /\ q * n + r = s * n + t
  BY Divide
<1> HIDE DEF s, t
<1>2. q = s /\ r = t
  BY <1>1, Quotient
<1> QED BY <1>2 DEF s, t

\* The limb of a byte, and the place in it; after a byte the next, or the first
\* of the next limb.
LEMMA OffsetSteps ==
    ASSUME NEW o \in Offset
    PROVE  LET j == o \div BytesPerLimb
               i == o % BytesPerLimb
           IN  /\ j \in Index /\ i \in 0..(BytesPerLimb - 1) /\ At(o) \in 1..EncodedSize
               /\ \/ /\ i + 1 < BytesPerLimb
                     /\ (o + 1) \div BytesPerLimb = j /\ (o + 1) % BytesPerLimb = i + 1
                  \/ /\ i + 1 = BytesPerLimb
                     /\ (o + 1) \div BytesPerLimb = j + 1 /\ (o + 1) % BytesPerLimb = 0
<1> DEFINE n == BytesPerLimb
           j == o \div n
           i == o % n
<1>1. o \in Nat /\ o + 1 \in Nat /\ n \in Nat \ {0} /\ At(o) \in 1..EncodedSize
  BY ByteSizes DEF At, Offset
<1>2. j \in Nat /\ i \in 0..(n - 1) /\ o = j * n + i
  BY <1>1, Divide
<1>3. o < (Top + 1) * n
  <2>1. (Top + 1) * n = Top * n + n
    BY <1>1, IndexSizes, OneLess
  <2>2. o < Top * n + TopBytes /\ TopBytes <= n /\ Top * n \in Nat /\ TopBytes \in Nat
    BY ByteSizes DEF Offset
  <2> QED BY <1>1, <2>1, <2>2
<1> HIDE DEF j, i, n
<1>4. j \in Index
  <2>1. ASSUME Top + 1 <= j PROVE FALSE
    <3>1. Top + 1 \in Nat /\ n \in Nat
      BY <1>1, IndexSizes
    <3>2. (Top + 1) * n <= j * n
      BY <1>2, <2>1, <3>1, TimesMonotone
    <3>3. (Top + 1) * n \in Nat /\ j * n \in Nat
      BY <1>2, <3>1
    <3> QED BY <1>1, <1>2, <1>3, <3>2, <3>3
  <2> QED BY <1>2, <2>1, IndexSizes
<1>5. CASE i + 1 < n
  <2>1. o + 1 = j * n + (i + 1) /\ i + 1 \in 0..(n - 1)
    <3>1. j * n \in Nat
      BY <1>1, <1>2
    <3> QED BY <1>1, <1>2, <1>5, <3>1
  <2>2. (o + 1) \div n = j /\ (o + 1) % n = i + 1
    BY <1>1, <1>2, <2>1, DivideOnly
  <2> QED BY <1>1, <1>2, <1>4, <1>5, <2>2 DEF n, j, i
<1>6. CASE i + 1 = n
  <2>1. o + 1 = (j + 1) * n + 0 /\ 0 \in 0..(n - 1) /\ j + 1 \in Nat
    <3>1. j * n \in Nat /\ (j + 1) * n = j * n + n
      BY <1>1, <1>2, OneLess
    <3> QED BY <1>1, <1>2, <1>6, <3>1
  <2>2. (o + 1) \div n = j + 1 /\ (o + 1) % n = 0
    BY <1>1, <1>2, <2>1, DivideOnly
  <2> QED BY <1>1, <1>2, <1>4, <1>6, <2>2 DEF n, j, i
<1> QED BY <1>1, <1>2, <1>5, <1>6

LEMMA AtTheFirstByte == 0 \in Offset /\ 0 \div BytesPerLimb = 0 /\ 0 % BytesPerLimb = 0
<1>1. BytesPerLimb \in Nat \ {0} /\ 0 \in 0..(BytesPerLimb - 1) /\ 0 \in Offset
  BY ByteSizes DEF Offset
<1>2. 0 = 0 * BytesPerLimb + 0
  BY <1>1
<1> QED BY <1>1, <1>2, DivideOnly

LEMMA BytePlaceDef ==
    /\ BytePlace(0) = 1
    /\ \A o \in Offset : /\ BytePlace(o) \in Nat
                         /\ BytePlace(o) = Place(o \div BytesPerLimb) * ByteWeight[o % BytesPerLimb]
                         /\ o + 1 \in Offset => BytePlace(o + 1) = ByteRadix * BytePlace(o)
<1>1. BytePlace(0) = 1
  BY AtTheFirstByte, WeightDef, ByteWeightDef DEF BytePlace
<1>2. ASSUME NEW o \in Offset
      PROVE  /\ BytePlace(o) \in Nat
             /\ BytePlace(o) = Place(o \div BytesPerLimb) * ByteWeight[o % BytesPerLimb]
             /\ o + 1 \in Offset => BytePlace(o + 1) = ByteRadix * BytePlace(o)
  <2> DEFINE j == o \div BytesPerLimb
             i == o % BytesPerLimb
             w == Weight[j]
             u == ByteWeight[i]
  <2>1. j \in Index /\ i \in 0..(BytesPerLimb - 1) /\ i \in 0..BytesPerLimb
    BY OffsetSteps, ByteSizes
  <2>2. BytePlace(o) = w * u /\ w = Place(j) /\ w \in Nat /\ u \in Nat /\ ByteRadix \in Nat
    BY <2>1, WeightDef, PlaceDef, ByteWeightDef, ByteSizes DEF BytePlace
  <2>3. ASSUME o + 1 \in Offset PROVE BytePlace(o + 1) = ByteRadix * (w * u)
    <3>1. ByteWeight[i + 1] = ByteRadix * u
      BY <2>1, ByteWeightDef
    <3>2. CASE /\ i + 1 < BytesPerLimb
               /\ (o + 1) \div BytesPerLimb = j /\ (o + 1) % BytesPerLimb = i + 1
      <4>1. BytePlace(o + 1) = w * (ByteRadix * u)
        BY <3>1, <3>2 DEF BytePlace
      <4> HIDE DEF w, u
      <4> QED BY <2>2, <4>1
    <3>3. CASE /\ i + 1 = BytesPerLimb
               /\ (o + 1) \div BytesPerLimb = j + 1 /\ (o + 1) % BytesPerLimb = 0
      <4>1. j + 1 \in Index
        BY <2>3, <3>3, OffsetSteps
      <4>2. PICK m \in Index : m = j + 1 /\ m # 0 /\ m - 1 = j
        BY <2>1, <4>1, IndexSizes
      <4>3. Weight[j + 1] = Radix * w
        BY <4>2, WeightDef
      <4>4. ByteRadix * u = Radix
        BY <3>1, <3>3, ByteWeightDef
      <4>5. BytePlace(o + 1) = (Radix * w) * 1
        BY <3>3, <4>3, ByteWeightDef DEF BytePlace
      <4> HIDE DEF w, u
      <4>6. BytePlace(o + 1) = (ByteRadix * u) * w
        BY <2>2, <4>4, <4>5, IndexSizes
      <4> QED BY <2>2, <4>6
    <3> QED BY <3>2, <3>3, OffsetSteps
  <2>4. w * u \in Nat
    <3> HIDE DEF w, u
    <3> QED BY <2>2
  <2> QED BY <2>2, <2>3, <2>4
<1> QED BY <1>1, <1>2

\* Strings of kEncodedSize numbers.
Words == [1..EncodedSize -> Nat]

LEMMA LowBytesDef ==
    ASSUME NEW b \in Words
    PROVE  /\ LowBytes(b, 0) = 0
           /\ \A o \in 0..EncodedSize : LowBytes(b, o) \in Nat
           /\ \A o \in Offset : /\ b[At(o)] \in Nat
                                /\ LowBytes(b, o + 1) = LowBytes(b, o) + b[At(o)] * BytePlace(o)
<1> DEFINE More(i, v) == v + b[At(i - 1)] * BytePlace(i - 1)
           G == [p \in Nat \X Nat |-> IF p[1] \in 1..EncodedSize THEN More(p[1], p[2]) ELSE 0]
<1>1. \A i \in 1..EncodedSize :
         i - 1 \in Offset /\ At(i - 1) \in 1..EncodedSize /\ b[At(i - 1)] \in Nat
         /\ BytePlace(i - 1) \in Nat
  <2> SUFFICES ASSUME NEW i \in 1..EncodedSize
               PROVE  i - 1 \in Offset /\ At(i - 1) \in 1..EncodedSize /\ b[At(i - 1)] \in Nat
                      /\ BytePlace(i - 1) \in Nat
    OBVIOUS
  <2>1. i - 1 \in Offset
    BY ByteSizes DEF Offset
  <2>2. At(i - 1) \in 1..EncodedSize /\ BytePlace(i - 1) \in Nat
    BY <2>1, OffsetSteps, BytePlaceDef
  <2> QED BY <2>1, <2>2 DEF Words
<1>2. \A i \in 1..EncodedSize, v \in Nat : More(i, v) \in Nat
  BY <1>1
<1> HIDE DEF More
<1>3. G \in [Nat \X Nat -> Nat]
  BY <1>2
<1>4. \A i \in 1..EncodedSize, v \in Nat : i \in Nat /\ G[<<i, v>>] = More(i, v)
  BY ByteSizes
<1> HIDE DEF G
<1>5. PICK f \in [0..EncodedSize -> Nat] :
        f[0] = 0 /\ \A i \in 1..EncodedSize : f[i] = G[<<i, f[i - 1]>>]
  <2>1. EncodedSize \in Nat /\ 0 \in Nat
    BY ByteSizes
  <2> QED BY <1>3, <2>1, Recursion
<1>6. ASSUME NEW i \in 0..EncodedSize
      PROVE  f[i] = IF i = 0 THEN 0 ELSE f[i - 1] + b[At(i - 1)] * BytePlace(i - 1)
  <2>1. CASE i # 0
    <3>1. i \in 1..EncodedSize /\ f[i - 1] \in Nat
      BY <2>1, ByteSizes
    <3>2. f[i] = More(i, f[i - 1])
      BY <1>4, <1>5, <3>1
    <3> QED BY <2>1, <3>2 DEF More
  <2> QED BY <1>5, <2>1
<1>7. f = [i \in 0..EncodedSize |->
             IF i = 0 THEN 0 ELSE f[i - 1] + b[At(i - 1)] * BytePlace(i - 1)]
  BY <1>6
<1> DEFINE low == CHOOSE p : p = [i \in 0..EncodedSize |->
                      IF i = 0 THEN 0 ELSE p[i - 1] + b[At(i - 1)] * BytePlace(i - 1)]
<1>8. low = [i \in 0..EncodedSize |->
               IF i = 0 THEN 0 ELSE low[i - 1] + b[At(i - 1)] * BytePlace(i - 1)]
  BY <1>7, Zenon
<1>9. \A k : LowBytes(b, k) = low[k]
  BY Zenon DEF LowBytes
<1> HIDE DEF low
<1>10. \A i \in 0..EncodedSize :
         low[i] = IF i = 0 THEN 0 ELSE low[i - 1] + b[At(i - 1)] * BytePlace(i - 1)
  BY <1>8
<1>11. low[0] = 0
  BY <1>10, ByteSizes
<1>12. ASSUME NEW o \in Offset
       PROVE  b[At(o)] \in Nat /\ low[o + 1] = low[o] + b[At(o)] * BytePlace(o)
  <2>1. PICK i \in 1..EncodedSize : i = o + 1 /\ i - 1 = o /\ i # 0 /\ i \in 0..EncodedSize
    BY ByteSizes
  <2>2. low[i] = low[i - 1] + b[At(i - 1)] * BytePlace(i - 1)
    BY <1>10, <2>1
  <2> QED BY <1>1, <2>1, <2>2
<1>13. \A k \in 0..EncodedSize : low[k] \in Nat
  <2> DEFINE S == {k \in 0..EncodedSize : low[k] \in Nat}
  <2>1. 0 \in S
    BY <1>11, ByteSizes
  <2>2. ASSUME NEW k \in 0..EncodedSize, k \in S, k < EncodedSize PROVE k + 1 \in S
    <3>1. k \in Offset /\ k + 1 \in 0..EncodedSize
      BY <2>2, ByteSizes DEF Offset
    <3>2. BytePlace(k) \in Nat /\ b[At(k)] \in Nat /\ low[k + 1] = low[k] + b[At(k)] * BytePlace(k)
      BY <1>12, <3>1, BytePlaceDef
    <3>3. b[At(k)] * BytePlace(k) \in Nat
      BY <3>2
    <3> QED BY <2>2, <3>1, <3>2, <3>3
  <2> HIDE DEF S
  <2>3. \A k \in 0..EncodedSize : k \in S
    BY <2>1, <2>2, CountingUp, ByteSizes
  <2> QED BY <2>3 DEF S
<1> QED BY <1>9, <1>11, <1>12, <1>13

\* Only the bytes written count.
LEMMA LowBytesLocal ==
    ASSUME NEW b \in Words, NEW c \in Words, NEW o \in 0..EncodedSize,
           \A k \in Offset : k < o => b[At(k)] = c[At(k)]
    PROVE  LowBytes(b, o) = LowBytes(c, o)
<1> DEFINE S == {k \in 0..EncodedSize : LowBytes(b, k) = LowBytes(c, k)}
<1>1. 0 \in S
  BY LowBytesDef, ByteSizes
<1>2. ASSUME NEW k \in 0..o, k \in S, k < o PROVE k + 1 \in S
  <2>1. k \in Offset /\ k + 1 \in 0..EncodedSize /\ b[At(k)] = c[At(k)]
    BY <1>2, ByteSizes DEF Offset
  <2>2. /\ LowBytes(b, k + 1) = LowBytes(b, k) + b[At(k)] * BytePlace(k)
        /\ LowBytes(c, k + 1) = LowBytes(c, k) + c[At(k)] * BytePlace(k)
    BY <2>1, LowBytesDef
  <2> QED BY <1>2, <2>1, <2>2
<1> HIDE DEF S
<1>3. \A k \in 0..o : k \in S
  BY <1>1, <1>2, CountingUp, ByteSizes
<1> QED BY <1>3, ByteSizes DEF S

\* The big-endian reading of all bytes and the sum of their places agree.
LEMMA BytesValueIsSum ==
    ASSUME NEW b \in Words
    PROVE  BytesValue(b) = LowBytes(b, EncodedSize) /\ BytesValue(b) \in Nat
<1> DEFINE More(i, v) == ByteRadix * v + b[i]
           G == [p \in Nat \X Nat |-> IF p[1] \in 1..EncodedSize THEN More(p[1], p[2]) ELSE 0]
<1>1. \A i \in 1..EncodedSize : i \in Nat /\ b[i] \in Nat
  BY DEF Words
<1>2. \A i \in 1..EncodedSize, v \in Nat : More(i, v) \in Nat
  BY <1>1, ByteSizes
<1> HIDE DEF More
<1>3. G \in [Nat \X Nat -> Nat]
  BY <1>2
<1>4. \A i \in 1..EncodedSize, v \in Nat : i \in Nat /\ G[<<i, v>>] = More(i, v)
  BY ByteSizes
<1> HIDE DEF G
<1>5. PICK f \in [0..EncodedSize -> Nat] :
        f[0] = 0 /\ \A i \in 1..EncodedSize : f[i] = G[<<i, f[i - 1]>>]
  <2>1. EncodedSize \in Nat /\ 0 \in Nat
    BY ByteSizes
  <2> QED BY <1>3, <2>1, Recursion
<1>6. ASSUME NEW i \in 0..EncodedSize
      PROVE  f[i] = IF i = 0 THEN 0 ELSE ByteRadix * f[i - 1] + b[i]
  <2>1. CASE i # 0
    <3>1. i \in 1..EncodedSize /\ f[i - 1] \in Nat
      BY <2>1, ByteSizes
    <3>2. f[i] = More(i, f[i - 1])
      BY <1>4, <1>5, <3>1
    <3> QED BY <2>1, <3>2 DEF More
  <2> QED BY <1>5, <2>1
<1>7. f = [i \in 0..EncodedSize |-> IF i = 0 THEN 0 ELSE ByteRadix * f[i - 1] + b[i]]
  BY <1>6
<1> DEFINE upTo == CHOOSE p : p = [k \in 0..EncodedSize |->
                      IF k = 0 THEN 0 ELSE ByteRadix * p[k - 1] + b[k]]
<1>8. upTo = [k \in 0..EncodedSize |-> IF k = 0 THEN 0 ELSE ByteRadix * upTo[k - 1] + b[k]]
  BY <1>7, Zenon
<1>9. BytesValue(b) = upTo[EncodedSize]
  BY Zenon DEF BytesValue
<1> HIDE DEF upTo
<1>10. \A i \in 0..EncodedSize : upTo[i] = IF i = 0 THEN 0 ELSE ByteRadix * upTo[i - 1] + b[i]
  BY <1>8
<1>11. upTo[0] = 0
  BY <1>10, ByteSizes
<1>12. \A k \in 0..EncodedSize : upTo[k] \in Nat
  <2> DEFINE S == {k \in 0..EncodedSize : upTo[k] \in Nat}
  <2>1. 0 \in S
    BY <1>11, ByteSizes
  <2>2. ASSUME NEW k \in 0..EncodedSize, k \in S, k < EncodedSize PROVE k + 1 \in S
    <3>1. PICK i \in 1..EncodedSize : i = k + 1 /\ i - 1 = k /\ i # 0 /\ i \in 0..EncodedSize
      BY <2>2, ByteSizes
    <3>2. upTo[i] = ByteRadix * upTo[k] + b[i] /\ b[i] \in Nat
      BY <1>1, <1>10, <3>1
    <3>3. ByteRadix * upTo[k] \in Nat
      BY <2>2, ByteSizes
    <3> QED BY <3>1, <3>2, <3>3
  <2> HIDE DEF S
  <2>3. \A k \in 0..EncodedSize : k \in S
    BY <2>1, <2>2, CountingUp, ByteSizes
  <2> QED BY <2>3 DEF S
<1> DEFINE Left(o) == EncodedSize - o
           S == {o \in Offset : LowBytes(b, o) + BytePlace(o) * upTo[Left(o)] = upTo[EncodedSize]}
<1>13. ASSUME NEW o \in Offset
       PROVE  LowBytes(b, o) + BytePlace(o) * upTo[Left(o)] =
                LowBytes(b, o + 1) + (ByteRadix * BytePlace(o)) * upTo[Left(o + 1)]
  <2> DEFINE p == BytePlace(o)
             u == upTo[Left(o + 1)]
             v == b[At(o)]
  <2>1. PICK i \in 1..EncodedSize : /\ i = At(o) /\ i = Left(o) /\ i - 1 = Left(o + 1)
                                    /\ i # 0 /\ i \in 0..EncodedSize /\ i - 1 \in 0..EncodedSize
    <3>1. o \in Nat /\ EncodedSize \in Nat /\ o < EncodedSize
      BY ByteSizes DEF Offset
    <3>2. At(o) = EncodedSize - o /\ Left(o) = EncodedSize - o /\ Left(o + 1) = EncodedSize - (o + 1)
      BY DEF At
    <3>3. EncodedSize - o \in 1..EncodedSize /\ EncodedSize - (o + 1) = EncodedSize - o - 1
      BY <3>1
    <3> QED BY <3>1, <3>2, <3>3
  <2>2. upTo[Left(o)] = ByteRadix * u + v /\ u \in Nat /\ v \in Nat
    BY <1>1, <1>10, <1>12, <2>1
  <2>3. LowBytes(b, o + 1) = LowBytes(b, o) + v * p /\ LowBytes(b, o) \in Nat /\ p \in Nat
    BY LowBytesDef, BytePlaceDef, ByteSizes
  <2>4. ByteRadix \in Nat
    BY ByteSizes
  <2> HIDE DEF p, u, v
  <2>5. p * (ByteRadix * u + v) = (ByteRadix * p) * u + v * p
    BY <2>2, <2>3, <2>4
  <2>6. p * upTo[Left(o)] = (ByteRadix * p) * u + v * p
    BY <2>2, <2>5
  <2>7. (ByteRadix * p) * u \in Nat /\ v * p \in Nat
    <3>1. ByteRadix * p \in Nat
      BY <2>3, <2>4
    <3> QED BY <2>2, <2>3, <3>1
  <2> QED BY <2>3, <2>6, <2>7 DEF p, u
<1>14. 0 \in S
  <2>1. BytePlace(0) = 1 /\ LowBytes(b, 0) = 0 /\ Left(0) = EncodedSize /\ 0 \in Offset
        /\ upTo[EncodedSize] \in Nat
    BY <1>12, BytePlaceDef, LowBytesDef, AtTheFirstByte, ByteSizes
  <2> QED BY <2>1
<1>15. ASSUME NEW k \in 0..(EncodedSize - 1), k \in S, k < EncodedSize - 1 PROVE k + 1 \in S
  <2>1. k \in Offset /\ k + 1 \in Offset
    BY <1>15, ByteSizes DEF Offset
  <2>2. BytePlace(k + 1) = ByteRadix * BytePlace(k)
    BY <2>1, BytePlaceDef
  <2> HIDE DEF Left
  <2> QED BY <1>13, <1>15, <2>1, <2>2
<1> HIDE DEF S
<1>16. \A k \in 0..(EncodedSize - 1) : k \in S
  <2>1. EncodedSize - 1 \in Nat
    BY ByteSizes
  <2> QED BY <1>14, <1>15, <2>1, CountingUp
<1>17. PICK o \in Offset : o \in S /\ o + 1 = EncodedSize /\ Left(o + 1) = 0
  <2>1. EncodedSize - 1 \in Offset /\ EncodedSize - 1 \in 0..(EncodedSize - 1)
    BY ByteSizes DEF Offset
  <2> QED BY <1>16, <2>1, ByteSizes
<1>18. LowBytes(b, o + 1) + (ByteRadix * BytePlace(o)) * upTo[Left(o + 1)] = upTo[EncodedSize]
  BY <1>13, <1>17 DEF S
<1>19. (ByteRadix * BytePlace(o)) * 0 = 0 /\ LowBytes(b, EncodedSize) \in Nat
  BY BytePlaceDef, ByteSizes, LowBytesDef
<1>20. LowBytes(b, EncodedSize) = upTo[EncodedSize]
  BY <1>11, <1>17, <1>18, <1>19
<1> QED BY <1>9, <1>12, <1>20, ByteSizes

-----------------------------------------------------------------------------
(* As far as the last bytes reach. *)

LEMMA NoBytesLow ==
    ASSUME NEW x \in Limbs
    PROVE  LowLimbs(x, 0) = Zero
<1>1. x[0] \in Nat /\ ByteWeight[0] = 1
  BY LimbsValue, IndexSizes, ByteWeightDef
<1>2. x[0] % 1 = 0
  BY <1>1
<1>3. \A k \in Index : k \in Nat
  BY IndexSizes
<1> QED BY <1>1, <1>2, <1>3, AtTheFirstByte DEF LowLimbs, Zero

\* Up to a byte: the last limb is cut off above it.
LEMMA LowLimbsNext ==
    ASSUME NEW x \in Limbs, NEW o \in Offset
    PROVE  LET j == o \div BytesPerLimb
               u == ByteWeight[(o % BytesPerLimb) + 1]
           IN  LowLimbs(x, o + 1) =
                 [k \in Index |-> IF k < j THEN x[k] ELSE IF k = j THEN x[k] % u ELSE 0]
<1> DEFINE j == o \div BytesPerLimb
           i == o % BytesPerLimb
           u == ByteWeight[i + 1]
           F == [k \in Index |-> IF k < j THEN x[k] ELSE IF k = j THEN x[k] % u ELSE 0]
<1>1. j \in Index /\ i \in 0..(BytesPerLimb - 1) /\ j \in Nat
  BY OffsetSteps, IndexSizes
<1>2. CASE /\ i + 1 < BytesPerLimb
           /\ (o + 1) \div BytesPerLimb = j /\ (o + 1) % BytesPerLimb = i + 1
  BY <1>2 DEF LowLimbs
<1>3. CASE /\ i + 1 = BytesPerLimb
           /\ (o + 1) \div BytesPerLimb = j + 1 /\ (o + 1) % BytesPerLimb = 0
  <2>1. u = Radix /\ ByteWeight[0] = 1
    BY <1>3, ByteWeightDef
  <2>2. \A k \in Index : k \in Nat /\ x[k] \in Nat /\ x[k] < Radix
    BY LimbsValue, IndexSizes
  <2>3. \A k \in Index : x[k] % 1 = 0
    BY <2>2
  <2>4. \A k \in Index : x[k] % Radix = x[k]
    <3> SUFFICES ASSUME NEW k \in Index PROVE x[k] % Radix = x[k]
      OBVIOUS
    <3>1. x[k] \in Int /\ 0 <= x[k] /\ x[k] < Radix /\ Radix \in Nat \ {0}
      BY <2>2, IndexSizes
    <3> QED BY <3>1, Wrap
  <2>5. LowLimbs(x, o + 1) =
          [k \in Index |-> IF k < j + 1 THEN x[k] ELSE IF k = j + 1 THEN x[k] % 1 ELSE 0]
    BY <1>3, <2>1 DEF LowLimbs
  <2>6. F = [k \in Index |-> IF k < j THEN x[k] ELSE IF k = j THEN x[k] % Radix ELSE 0]
    BY <2>1
  <2> HIDE DEF F, j
  <2>7. ASSUME NEW k \in Index
        PROVE  (IF k < j + 1 THEN x[k] ELSE IF k = j + 1 THEN x[k] % 1 ELSE 0) =
                 (IF k < j THEN x[k] ELSE IF k = j THEN x[k] % Radix ELSE 0)
    <3>1. x[k] % 1 = 0 /\ x[k] % Radix = x[k] /\ k \in Nat
      BY <2>2, <2>3, <2>4
    <3>2. CASE k < j
      BY <1>1, <3>1, <3>2
    <3>3. CASE k = j
      BY <1>1, <3>1, <3>3
    <3>4. CASE k > j
      BY <1>1, <3>1, <3>4
    <3> QED BY <1>1, <3>1, <3>2, <3>3, <3>4
  <2> QED BY <2>5, <2>6, <2>7 DEF F, j
<1> QED BY <1>2, <1>3, OffsetSteps

\* The limbs with byte v at offset o.
WithByte(x, o, v) ==
    [x EXCEPT ![o \div BytesPerLimb] = @ + v * ByteWeight[o % BytesPerLimb]]

\* A byte is set in limbs that are clear from there on.
LEMMA ByteAdded ==
    ASSUME NEW x \in Limbs, NEW o \in Offset, NEW v \in Byte, x = LowLimbs(x, o)
    PROVE  /\ WithByte(x, o, v) \in Limbs
           /\ WithByte(x, o, v) = LowLimbs(WithByte(x, o, v), o + 1)
           /\ Value(WithByte(x, o, v)) = Value(x) + v * BytePlace(o)
<1> DEFINE j == o \div BytesPerLimb
           i == o % BytesPerLimb
           u == ByteWeight[i]
           w == ByteWeight[i + 1]
           p == Place(j)
           a == x[j]
           y == WithByte(x, o, v)
<1>1. /\ j \in Index /\ i \in 0..(BytesPerLimb - 1) /\ i \in 0..BytesPerLimb
      /\ i + 1 \in 0..BytesPerLimb /\ j \in Nat
  BY OffsetSteps, IndexSizes, ByteSizes
<1>2. /\ u \in Nat \ {0} /\ w \in Nat \ {0} /\ w <= Radix /\ w = ByteRadix * u
      /\ p \in Nat /\ a \in Nat /\ v \in Nat /\ v <= ByteRadix - 1 /\ ByteRadix \in Nat
      /\ BytePlace(o) = p * u
  <2>1. u \in Nat \ {0} /\ w \in Nat \ {0} /\ w <= Radix /\ w = ByteRadix * u
    BY <1>1, ByteWeightDef
  <2>2. p \in Nat /\ a \in Nat /\ BytePlace(o) = p * u
    <3>1. j \in 0..LimbCount
      BY <1>1, IndexSizes
    <3>2. p \in Nat
      BY <3>1, PlaceDef
    <3>3. a \in Nat
      BY <1>1, LimbsValue
    <3> QED BY <3>2, <3>3, BytePlaceDef
  <2>3. v \in Nat /\ v <= ByteRadix - 1 /\ ByteRadix \in Nat
    BY ByteSizes
  <2> QED BY <2>1, <2>2, <2>3
<1>3. /\ a = a % u
      /\ \A k \in Index : k > j => x[k] = 0
  <2>1. \A k \in Index : x[k] = IF k < j THEN x[k] ELSE IF k = j THEN x[k] % u ELSE 0
    BY DEF LowLimbs
  <2>2. \A k \in Index : k \in Nat
    BY IndexSizes
  <2> QED BY <1>1, <2>1, <2>2
<1>4. a < u
  <2> HIDE DEF a, u
  <2>1. a % u \in 0..(u - 1)
    BY <1>2, Divide
  <2> QED BY <1>2, <1>3, <2>1
<1>5. y = [x EXCEPT ![j] = a + v * u]
  BY DEF WithByte
<1> HIDE DEF j, i, u, w, p, a, y
<1>6. v * u \in Nat /\ a + v * u \in Nat /\ a + v * u < w /\ a + v * u < Radix
  <2>1. v * u <= (ByteRadix - 1) * u
    <3>1. ByteRadix - 1 \in Nat
      BY ByteSizes
    <3> QED BY <1>2, <3>1, TimesMonotone
  <2>2. (ByteRadix - 1) * u = w - u
    BY <1>2, OneLess
  <2>3. v * u \in Nat
    BY <1>2
  <2> QED BY <1>2, <1>4, <2>1, <2>2, <2>3, IndexSizes
<1>7. y \in Limbs /\ x \in Digits
  <2>1. a + v * u \in Limb
    BY <1>6, IndexSizes DEF Limb
  <2> QED BY <1>1, <1>5, <2>1, LimbsValue DEF Limbs
<1>8. y[j] = a + v * u /\ \A k \in Index : k # j => y[k] = x[k]
  BY <1>1, <1>5 DEF Limbs
<1>9. y = LowLimbs(y, o + 1)
  <2>1. LowLimbs(y, o + 1) =
          [k \in Index |-> IF k < j THEN y[k] ELSE IF k = j THEN y[k] % w ELSE 0]
    BY <1>7, LowLimbsNext DEF j, i, w
  <2>2. y[j] % w = y[j]
    BY <1>2, <1>6, <1>8, Wrap
  <2>3. ASSUME NEW k \in Index
        PROVE  y[k] = IF k < j THEN y[k] ELSE IF k = j THEN y[k] % w ELSE 0
    BY <1>1, <1>3, <1>8, <2>2, IndexSizes
  <2>4. y = [k \in Index |-> y[k]]
    BY <1>7 DEF Limbs
  <2> QED BY <2>1, <2>3, <2>4
<1>10. Value(y) = Value(x) + v * (p * u)
  <2>1. Value(y) = Value(x) - a * p + (a + v * u) * p
    BY <1>1, <1>5, <1>6, <1>7, ValuePut DEF a, p
  <2>2. (a + v * u) * p = a * p + v * (p * u)
    BY <1>2
  <2>3. a * p \in Nat /\ v * (p * u) \in Nat /\ Value(x) \in Nat
    <3>1. a * p \in Nat /\ p * u \in Nat
      BY <1>2
    <3>2. v * (p * u) \in Nat
      BY <1>2, <3>1
    <3> QED BY <3>1, <3>2, LimbsValue
  <2> QED BY <2>1, <2>2, <2>3
<1> QED BY <1>2, <1>7, <1>9, <1>10 DEF y

\* A byte is taken out of a limb.
LEMMA ByteOfLimb ==
    ASSUME NEW a \in Nat, NEW u \in Nat \ {0}
    PROVE  /\ (a \div u) % ByteRadix \in Byte
           /\ a % (ByteRadix * u) = (a % u) + ((a \div u) % ByteRadix) * u
<1> DEFINE q == a \div u
           r == a % u
           s == q \div ByteRadix
           v == q % ByteRadix
           w == ByteRadix * u
<1>1. ByteRadix \in Nat \ {0} /\ ByteRadix - 1 \in Nat
  BY ByteSizes
<1>2. q \in Nat /\ r \in 0..(u - 1) /\ a = q * u + r
  BY Divide
<1>3. s \in Nat /\ v \in 0..(ByteRadix - 1) /\ q = s * ByteRadix + v
  <2> HIDE DEF q
  <2> QED BY <1>1, <1>2, Divide
<1> HIDE DEF q, r, s, v
<1>4. v \in Nat /\ r \in Nat /\ v * u \in Nat /\ w \in Nat \ {0} /\ s * w \in Nat
  <2>1. v \in Nat /\ r \in Nat /\ w \in Nat \ {0}
    BY <1>1, <1>2, <1>3
  <2> HIDE DEF w
  <2> QED BY <1>3, <2>1
<1>5. v * u + r \in 0..(w - 1)
  <2>1. v * u <= (ByteRadix - 1) * u
    BY <1>1, <1>3, <1>4, TimesMonotone
  <2>2. (ByteRadix - 1) * u = w - u
    BY <1>1, OneLess
  <2> HIDE DEF w
  <2> QED BY <1>2, <1>4, <2>1, <2>2
<1>6. a = s * w + (v * u + r)
  <2>1. q * u = s * w + v * u
    BY <1>1, <1>3, <1>4
  <2> HIDE DEF w
  <2> QED BY <1>2, <1>4, <2>1
<1> HIDE DEF w
<1>7. a % w = v * u + r
  BY <1>3, <1>4, <1>5, <1>6, DivideOnly
<1>8. v * u + r = r + v * u /\ v \in Byte
  BY <1>3, <1>4 DEF Byte
<1> QED BY <1>7, <1>8 DEF q, r, v, w

LEMMA ByteTaken ==
    ASSUME NEW x \in Limbs, NEW o \in Offset,
           NEW v, v = (x[o \div BytesPerLimb] \div ByteWeight[o % BytesPerLimb]) % ByteRadix
    PROVE  /\ v \in Byte
           /\ Value(LowLimbs(x, o + 1)) = Value(LowLimbs(x, o)) + v * BytePlace(o)
<1> DEFINE j == o \div BytesPerLimb
           i == o % BytesPerLimb
           u == ByteWeight[i]
           w == ByteWeight[i + 1]
           a == x[j]
           L == LowLimbs(x, o)
<1>1. /\ j \in Index /\ i \in 0..(BytesPerLimb - 1) /\ i \in 0..BytesPerLimb /\ j \in Nat
  BY OffsetSteps, IndexSizes, ByteSizes
<1>2. /\ u \in Nat \ {0} /\ w = ByteRadix * u /\ u <= Radix
      /\ \A k \in Index : k \in Nat /\ x[k] \in Nat /\ x[k] < Radix
  BY <1>1, ByteWeightDef, LimbsValue, IndexSizes
<1>3. v \in Byte /\ a % w = (a % u) + v * u /\ a % u \in 0..(u - 1)
  <2>1. a \in Nat
    BY <1>1, <1>2
  <2> HIDE DEF a, u, w
  <2> QED BY <1>2, <2>1, ByteOfLimb, Divide DEF a, u
<1>4. L = [k \in Index |-> IF k < j THEN x[k] ELSE IF k = j THEN x[k] % u ELSE 0]
  BY DEF LowLimbs
<1>5. LowLimbs(x, o + 1) =
        [k \in Index |-> IF k < j THEN x[k] ELSE IF k = j THEN x[k] % w ELSE 0]
  BY LowLimbsNext
<1>6. (a % u) % u = a % u
  <2>1. a % u \in Int /\ 0 <= a % u /\ a % u < u
    BY <1>2, <1>3
  <2> DEFINE r == a % u
  <2> HIDE DEF r, u
  <2> QED BY <1>2, <2>1, Wrap DEF r
<1>7. L \in Limbs
  <2>1. 0 \in Limb /\ \A k \in Index : x[k] \in Limb
    BY IndexSizes DEF Limb, Limbs
  <2>2. a % u \in Limb
    <3> DEFINE r == a % u
    <3>1. r \in Int /\ 0 <= r /\ r < u
      BY <1>2, <1>3
    <3> HIDE DEF r, u
    <3>2. r \in Limb
      BY <1>2, <3>1, IndexSizes DEF Limb
    <3> QED BY <3>2 DEF r
  <2> QED BY <1>4, <2>1, <2>2 DEF Limbs
<1> DEFINE R == a % u
           W == a % w
<1>8. /\ L[j] = R /\ R % u = R /\ W = R + v * u
      /\ L = [k \in Index |-> IF k < j THEN x[k] ELSE IF k = j THEN R ELSE 0]
      /\ LowLimbs(x, o + 1) = [k \in Index |-> IF k < j THEN x[k] ELSE IF k = j THEN W ELSE 0]
      /\ LowLimbs(L, o) = [k \in Index |-> IF k < j THEN L[k] ELSE IF k = j THEN L[k] % u ELSE 0]
  <2>1. L[j] = R
    BY <1>1, <1>4
  <2>2. LowLimbs(L, o) = [k \in Index |-> IF k < j THEN L[k] ELSE IF k = j THEN L[k] % u ELSE 0]
    BY Zenon DEF LowLimbs
  <2> HIDE DEF L, u, w, j
  <2>3. /\ L = [k \in Index |-> IF k < j THEN x[k] ELSE IF k = j THEN R ELSE 0]
        /\ LowLimbs(x, o + 1) = [k \in Index |-> IF k < j THEN x[k] ELSE IF k = j THEN W ELSE 0]
    BY <1>4, <1>5
  <2> QED BY <1>3, <1>6, <2>1, <2>2, <2>3
<1> HIDE DEF R, W, a, u, w, L, j
<1>9. LowLimbs(L, o) = L
  BY <1>1, <1>2, <1>8
<1> DEFINE d == v * u
<1>10. LowLimbs(x, o + 1) = WithByte(L, o, v)
  <2>1. W = R + d /\ L[j] = R
    BY <1>8
  <2>2. WithByte(L, o, v) = [L EXCEPT ![j] = @ + d]
    BY DEF WithByte, j, u, i
  <2> HIDE DEF d
  <2>3. [L EXCEPT ![j] = @ + d] = [k \in Index |-> IF k = j THEN W ELSE L[k]]
    BY <1>1, <1>8, <2>1
  <2>4. ASSUME NEW k \in Index
        PROVE  (IF k = j THEN W ELSE L[k]) = IF k < j THEN x[k] ELSE IF k = j THEN W ELSE 0
    BY <1>1, <1>2, <1>8
  <2> QED BY <1>8, <2>2, <2>3, <2>4
<1>11. Value(LowLimbs(x, o + 1)) = Value(L) + v * BytePlace(o)
  BY <1>3, <1>7, <1>9, <1>10, ByteAdded
<1> QED BY <1>3, <1>11 DEF L

\* All bytes reach all limbs.
LEMMA AllBytesLow ==
    ASSUME NEW x \in Limbs, x[Top] < TopRadix
    PROVE  LowLimbs(x, EncodedSize) = x
<1>1. PICK o \in Offset : o + 1 = EncodedSize
  <2>1. EncodedSize - 1 \in Offset
    BY ByteSizes DEF Offset
  <2> QED BY <2>1, ByteSizes
<1>2. o \div BytesPerLimb = Top /\ o % BytesPerLimb = TopBytes - 1
  <2>1. TopBytes - 1 \in 0..(BytesPerLimb - 1) /\ BytesPerLimb \in Nat \ {0} /\ Top \in Nat
    BY ByteSizes, IndexSizes
  <2>2. o = Top * BytesPerLimb + (TopBytes - 1) /\ o \in Nat
    <3> DEFINE below == Top * BytesPerLimb
    <3>1. below \in Nat /\ EncodedSize = below + TopBytes
      BY ByteSizes
    <3> HIDE DEF below
    <3>2. o = below + (TopBytes - 1) /\ o \in Nat
      BY <1>1, <3>1, ByteSizes
    <3> QED BY <3>2 DEF below
  <2> HIDE DEF TopBytes
  <2> QED BY <2>1, <2>2, DivideOnly
<1>3. (o % BytesPerLimb) + 1 = TopBytes
  BY <1>2, ByteSizes
<1>4. LowLimbs(x, EncodedSize) =
        [k \in Index |-> IF k < Top THEN x[k] ELSE IF k = Top THEN x[k] % ByteWeight[TopBytes] ELSE 0]
  BY <1>1, <1>2, <1>3, LowLimbsNext
<1>5. x[Top] % ByteWeight[TopBytes] = x[Top]
  <2>1. TopBytes \in 0..BytesPerLimb /\ x[Top] \in Nat
    BY ByteSizes, IndexSizes, LimbsValue
  <2>2. ByteWeight[TopBytes] \in Nat \ {0} /\ TopRadix <= ByteWeight[TopBytes]
    BY <2>1, ByteWeightDef, EncodingAssumption
  <2>3. x[Top] < ByteWeight[TopBytes]
    BY <2>1, <2>2, IndexSizes
  <2> DEFINE u == ByteWeight[TopBytes]
  <2> HIDE DEF u
  <2>4. x[Top] % u = x[Top]
    BY <2>1, <2>2, <2>3, Wrap DEF u
  <2> QED BY <2>4 DEF u
<1>6. \A k \in Index : k < Top \/ k = Top
  BY IndexSizes
<1>7. x = [k \in Index |-> x[k]]
  BY DEF Limbs
<1> QED BY <1>4, <1>5, <1>6, <1>7

-----------------------------------------------------------------------------
(* The parser and the encoder, byte by byte. *)

LEMMA BytesAreWords ==
    ASSUME NEW b, \/ b \in Seq(Byte) /\ Len(b) = EncodedSize
                  \/ b \in [1..EncodedSize -> Byte]
    PROVE  b \in Words /\ \A o \in Offset : b[At(o)] \in Byte
<1>1. b \in [1..EncodedSize -> Byte]
  OBVIOUS
<1>2. b \in Words
  BY <1>1, ByteSizes DEF Words
<1>3. ASSUME NEW o \in Offset PROVE b[At(o)] \in Byte
  <2>1. At(o) \in 1..EncodedSize
    BY OffsetSteps
  <2> QED BY <1>1, <2>1
<1> QED BY <1>2, <1>3

LEMMA CallFromBytesKeeps ==
    ASSUME EncodingInv, CallFromBytes
    PROVE  EncodingInv'
<1>1. PICK n \in Lengths : bytes' \in [1..n -> Byte]
  BY DEF CallFromBytes
<1>2. n \in Nat
  BY EncodingAssumption
<1>3. bytes' \in Seq(Byte)
  BY <1>1, <1>2, SeqDef
<1>4. /\ phase' = IF Len(bytes') = EncodedSize THEN "parse" ELSE "rejected"
      /\ offset' = 0 /\ limbs' = Zero /\ encoded' = encoded
  BY DEF CallFromBytes
<1>5. EncodingTypeOK'
  BY <1>3, <1>4, ZeroValue, ByteSizes DEF EncodingInv, EncodingTypeOK
<1>6. CASE phase' = "parse"
  <2>1. Len(bytes') = EncodedSize
    BY <1>4, <1>6
  <2>2. bytes' \in Words
    BY <1>3, <2>1, BytesAreWords
  <2>3. LowLimbs(Zero, 0) = Zero /\ Value(Zero) = 0 /\ LowBytes(bytes', 0) = 0
    BY <2>2, NoBytesLow, ZeroValue, LowBytesDef
  <2> QED BY <1>4, <1>5, <1>6, <2>1, <2>3
          DEF EncodingInv, ParseInv, EncodeInv, AcceptsExactly
<1>7. CASE phase' = "rejected"
  BY <1>4, <1>5, <1>7 DEF EncodingInv, ParseInv, EncodeInv, AcceptsExactly, IsEncoding
<1> QED BY <1>4, <1>6, <1>7

LEMMA ParseByteKeeps ==
    ASSUME EncodingInv, ParseByte
    PROVE  EncodingInv'
<1>1. /\ phase = "parse" /\ phase' = "parse" /\ offset \in Offset /\ offset' = offset + 1
      /\ bytes' = bytes /\ encoded' = encoded
      /\ limbs' = [limbs EXCEPT ![offset \div BytesPerLimb] =
                      @ + bytes[At(offset)] * ByteWeight[offset % BytesPerLimb]]
  BY ByteSizes DEF ParseByte, EncodingInv, EncodingTypeOK, Offset
<1>2. /\ bytes \in Seq(Byte) /\ Len(bytes) = EncodedSize /\ limbs \in Limbs
      /\ limbs = LowLimbs(limbs, offset) /\ Value(limbs) = LowBytes(bytes, offset)
      /\ encoded \in [1..EncodedSize -> Byte]
  BY <1>1 DEF EncodingInv, EncodingTypeOK, ParseInv
<1>3. bytes \in Words /\ bytes[At(offset)] \in Byte
  BY <1>1, <1>2, BytesAreWords
<1>4. /\ limbs' \in Limbs /\ limbs' = LowLimbs(limbs', offset + 1)
      /\ Value(limbs') = Value(limbs) + bytes[At(offset)] * BytePlace(offset)
  <2>1. limbs' = WithByte(limbs, offset, bytes[At(offset)])
    BY <1>1 DEF WithByte
  <2> QED BY <1>1, <1>2, <1>3, <2>1, ByteAdded
<1>5. LowBytes(bytes, offset + 1) = LowBytes(bytes, offset) + bytes[At(offset)] * BytePlace(offset)
  BY <1>1, <1>3, LowBytesDef
<1>6. EncodingTypeOK'
  BY <1>1, <1>2, <1>4, ByteSizes DEF EncodingTypeOK
<1>7. ParseInv'
  BY <1>1, <1>2, <1>4, <1>5 DEF ParseInv
<1> QED BY <1>1, <1>6, <1>7 DEF EncodingInv, EncodeInv, AcceptsExactly

LEMMA ParseEndKeeps ==
    ASSUME EncodingInv, ParseEnd
    PROVE  EncodingInv'
<1>1. /\ phase = "parse" /\ phase' = "check" /\ offset = EncodedSize
      /\ bytes' = bytes /\ limbs' = limbs /\ encoded' = encoded /\ offset' = offset
  BY DEF ParseEnd
<1>2. /\ bytes \in Seq(Byte) /\ Len(bytes) = EncodedSize /\ EncodingTypeOK
      /\ Value(limbs) = LowBytes(bytes, EncodedSize)
  BY <1>1 DEF EncodingInv, EncodingTypeOK, ParseInv
<1>3. Value(limbs) = BytesValue(bytes)
  BY <1>2, BytesAreWords, BytesValueIsSum
<1> QED BY <1>1, <1>2, <1>3 DEF EncodingInv, EncodingTypeOK, ParseInv, EncodeInv, AcceptsExactly

LEMMA CheckKeeps ==
    ASSUME EncodingInv, Check
    PROVE  EncodingInv'
<1>1. /\ phase = "check" /\ phase' = IF Canonical(limbs) THEN "parsed" ELSE "rejected"
      /\ offset' = 0 /\ bytes' = bytes /\ limbs' = limbs /\ encoded' = encoded
  BY DEF Check
<1>2. /\ EncodingTypeOK /\ limbs \in Limbs /\ Len(bytes) = EncodedSize
      /\ Value(limbs) = BytesValue(bytes)
  BY <1>1 DEF EncodingInv, EncodingTypeOK, ParseInv
<1>3. Canonical(limbs) <=> IsEncoding(bytes)
  BY <1>2, CanonicalValue DEF IsEncoding
<1>4. EncodingTypeOK'
  BY <1>1, <1>2, ByteSizes DEF EncodingTypeOK
<1>5. AcceptsExactly' /\ ParseInv'
  <2>1. IsEncoding(bytes)' = IsEncoding(bytes) /\ Value(limbs)' = Value(limbs)
        /\ BytesValue(bytes)' = BytesValue(bytes) /\ Canonical(limbs)' = Canonical(limbs)
    BY <1>1
  <2> QED BY <1>1, <1>2, <1>3, <2>1 DEF AcceptsExactly, ParseInv
<1> QED BY <1>1, <1>4, <1>5 DEF EncodingInv, EncodeInv

LEMMA EncodeByteKeeps ==
    ASSUME EncodingInv, EncodeByte
    PROVE  EncodingInv'
<1> DEFINE v == (limbs[offset \div BytesPerLimb] \div ByteWeight[offset % BytesPerLimb]) % ByteRadix
<1>1. /\ phase = "encode" /\ phase' = "encode" /\ offset \in Offset /\ offset' = offset + 1
      /\ bytes' = bytes /\ limbs' = limbs /\ encoded' = [encoded EXCEPT ![At(offset)] = v]
  BY ByteSizes DEF EncodeByte, EncodingInv, EncodingTypeOK, Offset
<1>2. /\ limbs \in FieldElements /\ limbs \in Limbs /\ encoded \in [1..EncodedSize -> Byte]
      /\ LowBytes(encoded, offset) = Value(LowLimbs(limbs, offset)) /\ bytes \in Seq(Byte)
  BY <1>1 DEF EncodingInv, EncodingTypeOK, EncodeInv
<1>3. v \in Byte /\ Value(LowLimbs(limbs, offset + 1)) =
                      Value(LowLimbs(limbs, offset)) + v * BytePlace(offset)
  BY <1>1, <1>2, ByteTaken
<1> HIDE DEF v
<1>4. At(offset) \in 1..EncodedSize /\ offset \in 0..EncodedSize /\ offset + 1 \in 0..EncodedSize
  BY <1>1, OffsetSteps, ByteSizes
<1>5. encoded' \in [1..EncodedSize -> Byte] /\ encoded'[At(offset)] = v
  BY <1>1, <1>2, <1>3, <1>4
<1>6. encoded \in Words /\ encoded' \in Words
  BY <1>2, <1>5, BytesAreWords
<1>7. LowBytes(encoded', offset) = LowBytes(encoded, offset)
  <2>1. ASSUME NEW k \in Offset, k < offset PROVE encoded[At(k)] = encoded'[At(k)]
    <3>1. At(k) # At(offset)
      BY <1>1, <2>1, ByteSizes DEF At
    <3>2. At(k) \in 1..EncodedSize
      BY OffsetSteps
    <3> QED BY <1>1, <1>2, <3>1, <3>2
  <2> QED BY <1>4, <1>6, <2>1, LowBytesLocal
<1>8. LowBytes(encoded', offset + 1) = LowBytes(encoded', offset) + v * BytePlace(offset)
  BY <1>1, <1>5, <1>6, LowBytesDef
<1>9. EncodingTypeOK'
  BY <1>1, <1>2, <1>4, <1>5 DEF EncodingTypeOK
<1>10. EncodeInv'
  BY <1>1, <1>2, <1>3, <1>7, <1>8 DEF EncodeInv
<1> QED BY <1>1, <1>9, <1>10 DEF EncodingInv, ParseInv, AcceptsExactly

LEMMA EncodeEndKeeps ==
    ASSUME EncodingInv, EncodeEnd
    PROVE  EncodingInv'
<1>1. /\ phase = "encode" /\ phase' = "encoded" /\ offset = EncodedSize
      /\ bytes' = bytes /\ limbs' = limbs /\ encoded' = encoded /\ offset' = offset
  BY DEF EncodeEnd
<1>2. /\ limbs \in FieldElements /\ encoded \in [1..EncodedSize -> Byte] /\ EncodingTypeOK
      /\ LowBytes(encoded, EncodedSize) = Value(LowLimbs(limbs, EncodedSize))
  BY <1>1 DEF EncodingInv, EncodingTypeOK, EncodeInv
<1>3. LowLimbs(limbs, EncodedSize) = limbs
  BY <1>2, AllBytesLow DEF FieldElements, Canonical
<1>4. BytesValue(encoded) = Value(limbs)
  BY <1>2, <1>3, BytesAreWords, BytesValueIsSum
<1> QED BY <1>1, <1>2, <1>4 DEF EncodingInv, EncodingTypeOK, ParseInv, EncodeInv, AcceptsExactly

LEMMA CallToBytesKeeps ==
    ASSUME EncodingInv, NEW e \in FieldElements, CallToBytes(e)
    PROVE  EncodingInv'
<1>1. /\ phase' = "encode" /\ limbs' = e /\ offset' = 0 /\ bytes' = bytes /\ encoded' = encoded
  BY DEF CallToBytes
<1>2. e \in Limbs /\ encoded \in [1..EncodedSize -> Byte] /\ EncodingTypeOK
  BY DEF EncodingInv, EncodingTypeOK, FieldElements
<1>3. LowBytes(encoded, 0) = Value(LowLimbs(e, 0))
  BY <1>2, BytesAreWords, LowBytesDef, NoBytesLow, ZeroValue
<1>4. EncodingTypeOK'
  BY <1>1, <1>2, ByteSizes DEF EncodingTypeOK
<1>5. EncodeInv'
  BY <1>1, <1>3 DEF EncodeInv
<1> QED BY <1>1, <1>4, <1>5 DEF EncodingInv, ParseInv, AcceptsExactly

\* The parser is ready for the next operand.
LEMMA ParserResets ==
    ASSUME EncodingInv, phase' = "idle", bytes' = <<>>, offset' = 0, limbs' = Zero,
           encoded' = encoded
    PROVE  EncodingInv'
BY ZeroValue, ByteSizes DEF EncodingInv, EncodingTypeOK, ParseInv, EncodeInv, AcceptsExactly

LEMMA EncodingWorkKeeps ==
    ASSUME EncodingInv, EncodingWork
    PROVE  EncodingInv'
BY ParseByteKeeps, ParseEndKeeps, CheckKeeps, EncodeByteKeeps, EncodeEndKeeps DEF EncodingWork

LEMMA EncodingStays ==
    ASSUME EncodingInv, UNCHANGED encodingVars
    PROVE  EncodingInv'
BY DEF EncodingInv, EncodingTypeOK, ParseInv, EncodeInv, AcceptsExactly, encodingVars

LEMMA EncodingStarts == EncodingInit => EncodingInv
<1> SUFFICES ASSUME EncodingInit PROVE EncodingInv
  OBVIOUS
<1>1. Blank \in [1..EncodedSize -> Byte] /\ 0 \in 0..EncodedSize
  BY ByteSizes DEF Blank, Byte
<1> QED BY <1>1, ZeroValue
        DEF EncodingInit, EncodingInv, EncodingTypeOK, ParseInv, EncodeInv, AcceptsExactly

-----------------------------------------------------------------------------
(* From bytes to bytes. *)

LEMMA Arities ==
    ASSUME StageInv
    PROVE  /\ command \in {"canonicalize", "add", "subtract", "negate"}
           /\ Arity \in {1, 2} /\ (Arity = 2 <=> command \in {"add", "subtract"})
BY CommandAssumption DEF StageInv, Arity

LEMMA ElementIsThere == \A e \in Limbs : e # NoElement
<1> SUFFICES ASSUME NEW e \in Limbs, e = <<>> PROVE FALSE
  BY DEF NoElement
<1>1. DOMAIN e = Index /\ DOMAIN e = {}
  BY DEF Limbs
<1> QED BY <1>1, IndexSizes

\* Operands that were all accepted are the numbers of their bytes; one that was
\* not is no encoding.
LEMMA Operands ==
    ASSUME OperandsInv, StageInv, Len(inputs) = Arity
    PROVE  /\ AllAccepted <=> \A i \in 1..Arity : IsEncoding(inputs[i])
           /\ AllAccepted => \A i \in 1..Arity : /\ parsed[i] \in FieldElements
                                               /\ Value(parsed[i]) = BytesValue(inputs[i])
<1>1. \A e \in FieldElements : e # NoElement
  BY ElementIsThere DEF FieldElements
<1> QED BY <1>1 DEF AllAccepted, OperandsInv

\* What the rest of a call does not change.
LEMMA SameCommand ==
    ASSUME inputs' = inputs, parsed' = parsed, command' = command
    PROVE  /\ Expected' = Expected /\ Arity' = Arity /\ AllAccepted' = AllAccepted
           /\ OperandsInv' = OperandsInv
           /\ \A i : IsEncoding(inputs[i])' = IsEncoding(inputs[i])
BY DEF Expected, Arity, AllAccepted, OperandsInv, IsEncoding

\* The number the field element computes for the command is the one expected.
LEMMA CallIsCommand ==
    ASSUME ProbeInv, stage = "computing", pc # "idle"
    PROVE  Exact!Exact(call) = Expected
<1>1. /\ StageInv /\ OperandsInv /\ Len(inputs) = Arity /\ AllAccepted /\ FieldInv
      /\ op = command /\ left = parsed[1]
      /\ command \in {"add", "subtract"} => right = parsed[2]
  BY DEF ProbeInv, StageInv, CommandInv
<1>2. /\ Arity \in {1, 2} /\ (Arity = 2 <=> command \in {"add", "subtract"})
      /\ command \in {"canonicalize", "add", "subtract", "negate"}
  BY <1>1, Arities
<1>3. \A i \in 1..Arity : Value(parsed[i]) = BytesValue(inputs[i])
  BY <1>1, Operands
<1>4. Value(left) = BytesValue(inputs[1])
  BY <1>1, <1>2, <1>3
<1>5. command \in {"add", "subtract"} => Value(right) = BytesValue(inputs[2])
  BY <1>1, <1>2, <1>3
<1>6. op \in {"add", "subtract", "negate"}
  BY <1>1 DEF FieldInv, FunctionInv, LoopInv, TypeOK
<1> DEFINE l == Value(left)
           r == Value(right)
           x == BytesValue(inputs[1])
           y == BytesValue(inputs[2])
<1>7. /\ command = "add" => Expected = (x + y) % Prime
      /\ command = "subtract" => Expected = (x - y) % Prime
      /\ command = "negate" => Expected = (- x) % Prime
  BY DEF Expected
<1>8. /\ op = "add" => Exact!Exact(call) = (l + r) % Prime
      /\ op = "subtract" => Exact!Exact(call) = (l - r) % Prime
      /\ op = "negate" => Exact!Exact(call) = (- l) % Prime
  BY Outcomes DEF call
<1> HIDE DEF l, r, x, y
<1>9. l = x /\ (command \in {"add", "subtract"} => r = y)
  BY <1>4, <1>5 DEF l, r, x, y
<1> QED BY <1>1, <1>6, <1>7, <1>8, <1>9

LEMMA FieldStays ==
    ASSUME FieldInv, UNCHANGED vars
    PROVE  FieldInv'
BY NextFieldInv

LEMMA ParseOperandKeeps ==
    ASSUME ProbeInv, ParseOperand
    PROVE  ProbeInv'
<1>1. /\ stage = "parse" /\ CallFromBytes /\ UNCHANGED vars
      /\ stage' = stage /\ command' = command /\ inputs' = inputs /\ parsed' = parsed
      /\ phase' \in {"parse", "rejected"}
  BY DEF ParseOperand, CallFromBytes
<1>2. FieldInv'
  BY <1>1, FieldStays DEF ProbeInv
<1>3. EncodingInv'
  BY <1>1, CallFromBytesKeeps DEF ProbeInv
<1>4. StageInv' /\ OperandsInv'
  BY <1>1, SameCommand DEF ProbeInv, StageInv
<1> QED BY <1>1, <1>2, <1>3, <1>4 DEF ProbeInv, CommandInv, AnswersExactly

LEMMA OperandParsedKeeps ==
    ASSUME ProbeInv, OperandParsed
    PROVE  ProbeInv'
<1> DEFINE n == Len(inputs)
           e == IF phase = "parsed" THEN limbs ELSE NoElement
<1>1. /\ stage = "parse" /\ phase \in {"parsed", "rejected"} /\ UNCHANGED vars
      /\ inputs' = Append(inputs, bytes) /\ parsed' = Append(parsed, e)
      /\ stage' = IF Len(parsed') = Arity THEN "compute" ELSE "parse"
      /\ phase' = "idle" /\ bytes' = <<>> /\ offset' = 0 /\ limbs' = Zero
      /\ encoded' = encoded /\ command' = command
  BY DEF OperandParsed, Arity
<1>2. /\ EncodingInv /\ StageInv /\ OperandsInv /\ FieldInv
      /\ inputs \in Seq(Seq(Byte)) /\ parsed \in Seq({NoElement} \cup Limbs)
      /\ Len(parsed) = n /\ n \in Nat /\ n < Arity
      /\ bytes \in Seq(Byte) /\ limbs \in Limbs
  BY <1>1 DEF ProbeInv, OperandsInv, StageInv, EncodingInv, EncodingTypeOK
<1>3. e \in {NoElement} \cup Limbs
  BY <1>2
<1>4. IF IsEncoding(bytes) THEN e \in FieldElements /\ Value(e) = BytesValue(bytes)
                           ELSE e = NoElement
  BY <1>1, <1>2 DEF EncodingInv, ParseInv, AcceptsExactly, FieldElements
<1> HIDE DEF e
<1>5. /\ inputs' \in Seq(Seq(Byte)) /\ parsed' \in Seq({NoElement} \cup Limbs)
      /\ Len(inputs') = n + 1 /\ Len(parsed') = n + 1
      /\ inputs'[n + 1] = bytes /\ parsed'[n + 1] = e
      /\ \A i \in 1..n : inputs'[i] = inputs[i] /\ parsed'[i] = parsed[i]
  BY <1>1, <1>2, <1>3
<1>6. OperandsInv'
  <2>1. ASSUME NEW i \in 1..(n + 1)
        PROVE  IF IsEncoding(inputs'[i])
               THEN parsed'[i] \in FieldElements /\ Value(parsed'[i]) = BytesValue(inputs'[i])
               ELSE parsed'[i] = NoElement
    <3>1. CASE i \in 1..n
      BY <1>2, <1>5, <3>1 DEF OperandsInv
    <3>2. CASE i = n + 1
      BY <1>4, <1>5, <3>2
    <3> QED BY <1>2, <3>1, <3>2
  <2> HIDE DEF n
  <2> QED BY <1>5, <2>1 DEF OperandsInv
<1>7. Arity' = Arity /\ Arity \in {1, 2}
  BY <1>1, <1>2, Arities DEF Arity
<1>8. StageInv'
  BY <1>1, <1>2, <1>5, <1>7 DEF StageInv
<1>9. FieldInv' /\ EncodingInv'
  BY <1>1, <1>2, FieldStays, ParserResets
<1> QED BY <1>1, <1>6, <1>8, <1>9 DEF ProbeInv, CommandInv, AnswersExactly

LEMMA PrintRejectedKeeps ==
    ASSUME ProbeInv, PrintRejected
    PROVE  ProbeInv'
<1>1. /\ stage = "compute" /\ ~ AllAccepted /\ stage' = "done" /\ output' = Rejected
      /\ UNCHANGED vars /\ UNCHANGED encodingVars
      /\ command' = command /\ inputs' = inputs /\ parsed' = parsed
  BY DEF PrintRejected
<1>2. /\ StageInv /\ OperandsInv /\ Len(inputs) = Arity /\ FieldInv /\ EncodingInv
      /\ phase = "idle" /\ phase' = phase
  BY <1>1 DEF ProbeInv, StageInv, encodingVars
<1>3. ~ \A i \in 1..Arity : IsEncoding(inputs[i])
  BY <1>1, <1>2, Operands
<1>4. AnswersExactly'
  BY <1>1, <1>3, SameCommand DEF AnswersExactly
<1>5. StageInv' /\ OperandsInv'
  BY <1>1, <1>2, SameCommand DEF StageInv
<1>6. FieldInv' /\ EncodingInv'
  BY <1>1, <1>2, FieldStays, EncodingStays
<1> QED BY <1>1, <1>4, <1>5, <1>6 DEF ProbeInv, CommandInv

LEMMA ComputeKeeps ==
    ASSUME ProbeInv, Compute
    PROVE  ProbeInv'
<1>1. /\ stage = "compute" /\ AllAccepted /\ stage' = "computing"
      /\ UNCHANGED encodingVars /\ command' = command /\ inputs' = inputs /\ parsed' = parsed
      /\ CallAdd \/ CallSubtract \/ CallNegate
  BY DEF Compute
<1>2. /\ StageInv /\ OperandsInv /\ FieldInv /\ EncodingInv /\ phase = "idle" /\ phase' = phase
  BY <1>1 DEF ProbeInv, StageInv, encodingVars
<1>3. FieldInv'
  BY <1>1, <1>2, NextFieldInv DEF Next
<1>4. pc' # "idle" /\ op' = command /\ left' = parsed[1]
      /\ (command \in {"add", "subtract"} => right' = parsed[2])
  <2>1. CASE command = "add" /\ CallAdd /\ left' = parsed[1] /\ right' = parsed[2]
    BY <2>1 DEF CallAdd, StartLoop
  <2>2. CASE command = "subtract" /\ CallSubtract /\ left' = parsed[1] /\ right' = parsed[2]
    BY <2>2 DEF CallSubtract, StartLoop
  <2>3. CASE command = "negate" /\ CallNegate /\ left' = parsed[1]
    <3>1. pc' \in {"canonical", "subtract"} /\ op' = "negate"
      BY <2>3 DEF CallNegate, StartSubtract, StartLoop
    <3> QED BY <2>3, <3>1
  <2> QED BY <2>1, <2>2, <2>3 DEF Compute
<1>5. CommandInv'
  BY <1>1, <1>4 DEF CommandInv
<1>6. StageInv' /\ OperandsInv'
  BY <1>1, <1>2, SameCommand DEF StageInv
<1> QED BY <1>1, <1>2, <1>3, <1>5, <1>6, EncodingStays DEF ProbeInv, AnswersExactly

LEMMA ElementWorkKeeps ==
    ASSUME ProbeInv, ElementWork
    PROVE  ProbeInv'
<1>1. /\ Work /\ UNCHANGED encodingVars /\ limbs' = limbs /\ phase' = phase
      /\ stage' = stage /\ command' = command /\ inputs' = inputs /\ parsed' = parsed
      /\ output' = output
  BY DEF ElementWork, encodingVars
<1>2. StageInv /\ OperandsInv /\ FieldInv /\ EncodingInv /\ CommandInv /\ AnswersExactly
  BY DEF ProbeInv
<1>3. FieldInv'
  BY <1>1, <1>2, NextFieldInv DEF Next
<1>4. StageInv' /\ OperandsInv'
  BY <1>1, <1>2, SameCommand DEF StageInv
<1>5. AnswersExactly'
  BY <1>1, <1>2, SameCommand DEF AnswersExactly
<1>6. pc # "idle"
  BY <1>1 DEF Work, AddStep, AddEnd, Fold, Ripple, RippleEnd, FoldEnd, CompareEqual,
              CompareEnd, SubtractStep, Complement, SubtractEnd, Return
<1>7. CommandInv'
  <2>1. CASE stage = "computing" /\ Return
    <3>1. pc = "canonical" /\ pc' = "idle" /\ answer' = result
      BY <2>1 DEF Return
    <3>2. Value(answer') = Expected
      BY <2>1, <3>1, CallIsCommand DEF ProbeInv, FieldInv
    <3>3. answer' \in FieldElements
      BY <1>2, <3>1 DEF FieldInv, LoopInv, TypeOK, FieldElements
    <3> QED BY <1>1, <2>1, <3>1, <3>2, <3>3, SameCommand DEF CommandInv
  <2>2. CASE stage = "computing" /\ ~ Return
    <3>1. op' = op /\ left' = left /\ right' = right /\ pc' # "idle"
      BY <1>1, <2>2 DEF Work, AddStep, AddEnd, Fold, Ripple, RippleEnd, FoldEnd, CompareEqual,
              CompareEnd, SubtractStep, Complement, SubtractEnd, operands, StartLoop, StartSubtract
    <3> QED BY <1>1, <1>2, <1>6, <2>2, <3>1 DEF CommandInv
  <2>3. CASE stage # "computing"
    BY <1>1, <1>2, <2>3, SameCommand DEF CommandInv
  <2> QED BY <2>1, <2>2, <2>3
<1> QED BY <1>1, <1>2, <1>3, <1>4, <1>5, <1>7, EncodingStays DEF ProbeInv

LEMMA EncodeKeeps ==
    ASSUME ProbeInv, Encode
    PROVE  ProbeInv'
<1>1. /\ stage' = "print" /\ UNCHANGED vars /\ command' = command /\ inputs' = inputs
      /\ parsed' = parsed /\ stage \in {"compute", "computing"}
  BY DEF Encode
<1>2. StageInv /\ OperandsInv /\ FieldInv /\ EncodingInv /\ CommandInv /\ Len(inputs) = Arity
  BY <1>1 DEF ProbeInv, StageInv
<1>3. Arity \in {1, 2}
  BY <1>2, Arities
<1>4. PICK e \in FieldElements : CallToBytes(e) /\ AllAccepted /\ Value(e) = Expected
  <2>1. CASE stage = "compute" /\ AllAccepted /\ command = "canonicalize" /\ CallToBytes(parsed[1])
    <3>1. parsed[1] \in FieldElements /\ Value(parsed[1]) = BytesValue(inputs[1])
      BY <1>2, <1>3, <2>1, Operands
    <3>2. Expected = BytesValue(inputs[1])
      BY <2>1 DEF Expected
    <3> QED BY <2>1, <3>1, <3>2
  <2>2. CASE stage = "computing" /\ pc = "idle" /\ CallToBytes(answer)
    BY <1>2, <2>2 DEF StageInv, CommandInv
  <2> QED BY <2>1, <2>2 DEF Encode
<1>5. phase' = "encode" /\ limbs' = e
  BY <1>4 DEF CallToBytes
<1>6. EncodingInv'
  BY <1>2, <1>4, CallToBytesKeeps
<1>7. StageInv' /\ OperandsInv' /\ CommandInv'
  BY <1>1, <1>2, <1>4, <1>5, SameCommand DEF StageInv, CommandInv
<1> QED BY <1>1, <1>2, <1>6, <1>7, FieldStays DEF ProbeInv, AnswersExactly

LEMMA CodecWorkKeeps ==
    ASSUME ProbeInv, CodecWork
    PROVE  ProbeInv'
<1>1. /\ EncodingWork /\ UNCHANGED vars /\ stage' = stage /\ command' = command
      /\ inputs' = inputs /\ parsed' = parsed /\ output' = output /\ answer' = answer
      /\ pc' = pc /\ op' = op /\ left' = left /\ right' = right
  BY DEF CodecWork, vars
<1>2. StageInv /\ OperandsInv /\ FieldInv /\ EncodingInv /\ CommandInv /\ AnswersExactly
  BY DEF ProbeInv
<1>3. \/ phase \in {"parse", "check"} /\ phase' \in {"parse", "check", "parsed", "rejected"}
      \/ phase = "encode" /\ phase' \in {"encode", "encoded"} /\ limbs' = limbs
  BY <1>1 DEF EncodingWork, ParseByte, ParseEnd, Check, EncodeByte, EncodeEnd
<1>4. stage = "parse" \/ (stage = "print" /\ phase = "encode")
  BY <1>2, <1>3 DEF StageInv
<1>5. StageInv' /\ OperandsInv'
  BY <1>1, <1>2, <1>3, <1>4, SameCommand DEF StageInv
<1>6. CommandInv'
  BY <1>1, <1>2, <1>3, <1>4, SameCommand DEF CommandInv
<1> QED BY <1>1, <1>2, <1>4, <1>5, <1>6, FieldStays, EncodingWorkKeeps DEF ProbeInv, AnswersExactly

LEMMA PrintResultKeeps ==
    ASSUME ProbeInv, PrintResult
    PROVE  ProbeInv'
<1>1. /\ stage = "print" /\ phase = "encoded" /\ stage' = "done" /\ output' = Result(encoded)
      /\ UNCHANGED vars /\ UNCHANGED encodingVars /\ phase' = phase
      /\ command' = command /\ inputs' = inputs /\ parsed' = parsed
  BY DEF PrintResult, encodingVars
<1>2. /\ StageInv /\ OperandsInv /\ FieldInv /\ EncodingInv /\ Len(inputs) = Arity /\ AllAccepted
      /\ Value(limbs) = Expected
  BY <1>1 DEF ProbeInv, StageInv, CommandInv
<1>3. encoded \in [1..EncodedSize -> Byte] /\ BytesValue(encoded) = Expected
  BY <1>1, <1>2 DEF EncodingInv, EncodingTypeOK, EncodeInv
<1>4. \A i \in 1..Arity : IsEncoding(inputs[i])
  BY <1>2, Operands
<1>5. output'.bytes = encoded /\ output' \in {Result(b) : b \in [1..EncodedSize -> Byte]}
  BY <1>1, <1>3 DEF Result
<1>6. AnswersExactly'
  BY <1>1, <1>3, <1>4, <1>5, SameCommand DEF AnswersExactly
<1>7. StageInv' /\ OperandsInv'
  BY <1>1, <1>2, SameCommand DEF StageInv
<1>8. FieldInv' /\ EncodingInv'
  BY <1>1, <1>2, FieldStays, EncodingStays
<1> QED BY <1>1, <1>6, <1>7, <1>8 DEF ProbeInv, CommandInv

LEMMA ProbeStays ==
    ASSUME ProbeInv, UNCHANGED probeVars
    PROVE  ProbeInv'
<1>1. /\ UNCHANGED vars /\ UNCHANGED encodingVars /\ stage' = stage /\ command' = command
      /\ inputs' = inputs /\ parsed' = parsed /\ output' = output
      /\ answer' = answer /\ pc' = pc /\ op' = op /\ left' = left /\ right' = right
      /\ phase' = phase /\ limbs' = limbs
  BY DEF probeVars, vars, encodingVars
<1>2. FieldInv' /\ EncodingInv'
  BY <1>1, FieldStays, EncodingStays DEF ProbeInv
<1>3. StageInv' /\ OperandsInv'
  BY <1>1, SameCommand DEF ProbeInv, StageInv
<1>4. CommandInv' /\ AnswersExactly'
  BY <1>1, SameCommand DEF ProbeInv, CommandInv, AnswersExactly
<1> QED BY <1>2, <1>3, <1>4 DEF ProbeInv

LEMMA InitProbeInv == ProbeInit => ProbeInv
<1> SUFFICES ASSUME ProbeInit PROVE ProbeInv
  OBVIOUS
<1>1. FieldInv /\ EncodingInv
  BY InitFieldInv, EncodingStarts DEF ProbeInit
<1>2. Arity \in {1, 2} /\ StageInv
  BY DEF ProbeInit, EncodingInit, StageInv, Arity
<1>3. OperandsInv
  BY DEF ProbeInit, OperandsInv
<1> QED BY <1>1, <1>2, <1>3 DEF ProbeInit, ProbeInv, CommandInv, AnswersExactly

LEMMA NextProbeInv == ProbeInv /\ [ProbeNext]_probeVars => ProbeInv'
BY ParseOperandKeeps, OperandParsedKeeps, PrintRejectedKeeps, ComputeKeeps, ElementWorkKeeps,
   EncodeKeeps, CodecWorkKeeps, PrintResultKeeps, ProbeStays DEF ProbeNext, ProbeWork

\* In the probe, for any operands it parses, the element, the parser, the encoder
\* and the command keep the invariant.
THEOREM ProbeKeepsTheInvariant == ProbeSpec => []ProbeInv
BY InitProbeInv, NextProbeInv, PTL DEF ProbeSpec

\* from_bytes_be accepts the encodings of elements and no others, as their numbers.
THEOREM ParserAcceptsExactly == ProbeSpec => []AcceptsExactly
<1>1. ProbeInv => AcceptsExactly
  BY DEF ProbeInv, EncodingInv
<1> QED BY <1>1, ProbeKeepsTheInvariant, PTL

\* The probe prints the encoding of the result, or that it rejected an operand.
THEOREM ProbeAnswersExactly == ProbeSpec => []AnswersExactly
<1>1. ProbeInv => AnswersExactly
  BY DEF ProbeInv
<1> QED BY <1>1, ProbeKeepsTheInvariant, PTL

=============================================================================
