------------------------------ MODULE FieldElement ----------------------------
(***************************************************************************)
(* lib/p521_field_element.cpp: add, subtract and negate on arrays of limbs,*)
(* one limb a step, with the wrap of the unsigned limb type kept.          *)
(***************************************************************************)
EXTENDS FieldLimbs

\* bool converted to an unsigned integer, and the | of two of them.
Bit(b) == IF b THEN 1 ELSE 0
Either(x, y) == Bit(x = 1 \/ y = 1)

\* Fault: the second carry is taken when the sum did not change either.
AddLimbNotMore(left, right, carry) ==
    LET first == (left + right) % Radix
        result == (first + carry) % Radix
    IN  [limb |-> result, carry |-> Either(Bit(first < left), Bit(result <= first))]

AddLimb(left, right, carry) ==
    LET first == (left + right) % Radix
        result == (first + carry) % Radix
    IN  [limb |-> result, carry |-> Either(Bit(first < left), Bit(result < first))]

\* Fault: the borrow of the second subtraction is dropped.
SubtractLimbOnce(left, right, borrow) ==
    [limb |-> (left - right - borrow) % Radix, borrow |-> Bit(left < right)]

SubtractLimb(left, right, borrow) ==
    LET first == (left - right) % Radix
        result == (first - borrow) % Radix
    IN  [limb |-> result, borrow |-> Either(Bit(left < right), Bit(first < borrow))]

-----------------------------------------------------------------------------

VARIABLES
    pc,      \* the loop the call is in
    op,      \* the function called
    left, right,
    minuend, subtrahend,  \* the arguments of subtract_limbs
    index,
    carry,   \* the carry of add and of the fold, the borrow of subtract_limbs
    result,
    folds,   \* history: how often the body of the fold's while loop was entered
    answer   \* the element the last call returned, zero during a call

vars == <<pc, op, left, right, minuend, subtrahend, index, carry, result, folds, answer>>

operands == <<op, left, right>>

\* Limbs and carries never leave the limb type; the operands and the answer are
\* always elements of the field.
TypeOK ==
    /\ pc \in {"idle", "add", "fold", "ripple", "compare", "difference", "subtract",
               "canonical"}
    /\ op \in {"none", "add", "subtract", "negate"}
    /\ left \in FieldElements /\ right \in FieldElements
    /\ minuend \in Limbs /\ subtrahend \in Limbs
    /\ index \in 0..LimbCount
    /\ carry \in Limb
    /\ result \in Limbs
    /\ folds \in Nat
    /\ answer \in FieldElements

Init ==
    /\ pc = "idle" /\ op = "none"
    /\ left = Zero /\ right = Zero /\ minuend = Zero /\ subtrahend = Zero
    /\ index = 0 /\ carry = 0 /\ result = Zero /\ folds = 0
    /\ answer = Zero

\* result[index] and carry as the loop body leaves them, and on to the next limb.
Put(limb, c) ==
    /\ result' = [result EXCEPT ![index] = limb]
    /\ carry' = c
    /\ index' = index + 1

StartLoop(loop, first) == pc' = loop /\ index' = first /\ carry' = 0

\* subtract_limbs(m, s) is entered.
StartSubtract(loop, m, s) ==
    /\ StartLoop(loop, 0)
    /\ minuend' = m /\ subtrahend' = s
    /\ result' = Zero

-----------------------------------------------------------------------------
(* add *)

CallAdd ==
    /\ pc = "idle"
    /\ op' = "add"
    /\ left' \in FieldElements /\ right' \in FieldElements
    /\ StartLoop("add", 0)
    /\ result' = Zero /\ folds' = 0 /\ answer' = Zero
    /\ UNCHANGED <<minuend, subtrahend>>

AddStep ==
    LET sum == AddLimb(left[index], right[index], carry)
    IN  /\ pc = "add" /\ index < LimbCount
        /\ Put(sum.limb, sum.carry)
        /\ UNCHANGED <<pc, operands, minuend, subtrahend, folds, answer>>

\* The carry out of the last limb is not looked at.
AddEnd ==
    /\ pc = "add" /\ index = LimbCount
    /\ pc' = "fold"
    /\ UNCHANGED <<operands, minuend, subtrahend, index, carry, result, folds, answer>>

\* Fault: the bits folded are left in the top limb.
FoldUnmasked ==
    /\ pc = "fold" /\ result[Top] >= TopRadix
    /\ pc' = "ripple" /\ index' = 0
    /\ carry' = result[Top] \div TopRadix
    /\ folds' = folds + 1
    /\ UNCHANGED <<operands, minuend, subtrahend, result, answer>>

\* fold_mersenne_carry: while the top limb has bits above the 521st, they are
\* cleared and added back at limb 0.
Fold ==
    /\ pc = "fold" /\ result[Top] >= TopRadix
    /\ pc' = "ripple" /\ index' = 0
    /\ carry' = result[Top] \div TopRadix
    /\ result' = [result EXCEPT ![Top] = @ % TopRadix]
    /\ folds' = folds + 1
    /\ UNCHANGED <<operands, minuend, subtrahend, answer>>

Ripple ==
    LET sum == (result[index] + carry) % Radix
    IN  /\ pc = "ripple" /\ index < LimbCount /\ carry # 0
        /\ Put(sum, Bit(sum < result[index]))
        /\ UNCHANGED <<pc, operands, minuend, subtrahend, folds, answer>>

RippleEnd ==
    /\ pc = "ripple" /\ (index = LimbCount \/ carry = 0)
    /\ pc' = "fold"
    /\ UNCHANGED <<operands, minuend, subtrahend, index, carry, result, folds, answer>>

\* Fault: p itself is not made zero.
FoldEndAsIs ==
    /\ pc = "fold" /\ result[Top] < TopRadix
    /\ pc' = "canonical"
    /\ UNCHANGED <<operands, minuend, subtrahend, index, carry, result, folds, answer>>

\* No bit is left above: p itself becomes zero.
FoldEnd ==
    /\ pc = "fold" /\ result[Top] < TopRadix
    /\ pc' = "canonical"
    /\ result' = IF result = Modulus THEN Zero ELSE result
    /\ UNCHANGED <<operands, minuend, subtrahend, index, carry, folds, answer>>

-----------------------------------------------------------------------------
(* subtract and negate *)

CallSubtract ==
    /\ pc = "idle"
    /\ op' = "subtract"
    /\ left' \in FieldElements /\ right' \in FieldElements
    /\ StartLoop("compare", Top)
    /\ result' = Zero /\ folds' = 0 /\ answer' = Zero
    /\ UNCHANGED <<minuend, subtrahend>>

\* Fault: the loop does not go on to the next limb.
CompareEqualAgain ==
    /\ pc = "compare" /\ left[index] = right[index] /\ index > 0
    /\ UNCHANGED vars

\* limbs_less_than(left, right), from the top limb down: equal limbs, go on.
CompareEqual ==
    /\ pc = "compare" /\ left[index] = right[index] /\ index > 0
    /\ index' = index - 1
    /\ UNCHANGED <<pc, operands, minuend, subtrahend, carry, result, folds, answer>>

\* Fault: the larger is subtracted from the smaller.
CompareEndSwapped ==
    /\ pc = "compare"
    /\ left[index] # right[index] \/ index = 0
    /\ StartSubtract(IF left[index] < right[index] THEN "difference" ELSE "subtract", left, right)
    /\ UNCHANGED <<operands, folds, answer>>

\* It returns: the smaller is subtracted from the larger.
CompareEnd ==
    /\ pc = "compare"
    /\ left[index] # right[index] \/ index = 0
    /\ IF left[index] < right[index] THEN StartSubtract("difference", right, left)
                                     ELSE StartSubtract("subtract", left, right)
    /\ UNCHANGED <<operands, folds, answer>>

SubtractStep ==
    LET difference == SubtractLimb(minuend[index], subtrahend[index], carry)
    IN  /\ pc \in {"difference", "subtract"} /\ index < LimbCount
        /\ Put(difference.limb, difference.borrow)
        /\ UNCHANGED <<pc, operands, minuend, subtrahend, folds, answer>>

\* left was the smaller: right - left is taken from the modulus.
Complement ==
    /\ pc = "difference" /\ index = LimbCount
    /\ StartSubtract("subtract", Modulus, result)
    /\ UNCHANGED <<operands, folds, answer>>

\* The borrow out of the last limb is not looked at.
SubtractEnd ==
    /\ pc = "subtract" /\ index = LimbCount
    /\ pc' = "canonical"
    /\ UNCHANGED <<operands, minuend, subtrahend, index, carry, result, folds, answer>>

CallNegate ==
    /\ pc = "idle"
    /\ op' = "negate"
    /\ left' \in FieldElements /\ right' = Zero /\ folds' = 0
    /\ IF left' = Zero
       THEN /\ pc' = "canonical" /\ index' = 0 /\ carry' = 0 /\ result' = Zero
            /\ UNCHANGED <<minuend, subtrahend>>
       ELSE StartSubtract("subtract", Modulus, left')
    /\ answer' = Zero

-----------------------------------------------------------------------------
(* The return: *from_canonical_limbs(result).  The optional would be empty *)
(* if the limbs were not canonical; CanonicalOnReturn says they are.       *)

Return ==
    /\ pc = "canonical"
    /\ pc' = "idle" /\ op' = "none" /\ answer' = result
    /\ left' = Zero /\ right' = Zero /\ minuend' = Zero /\ subtrahend' = Zero
    /\ index' = 0 /\ carry' = 0 /\ result' = Zero /\ folds' = 0

Work ==
    \/ AddStep \/ AddEnd \/ Fold \/ Ripple \/ RippleEnd \/ FoldEnd
    \/ CompareEqual \/ CompareEnd \/ SubtractStep \/ Complement \/ SubtractEnd
    \/ Return

Next == CallAdd \/ CallSubtract \/ CallNegate \/ Work

Spec == Init /\ [][Next]_vars

-----------------------------------------------------------------------------
(* Why it holds: the inductive invariant. *)

\* Below limb k, limbs are those of the modulus.
Ones(limbs, k) == \A j \in Index : j < k => limbs[j] = Modulus[j]

\* The sum of two elements: when every limb below the top one is full, no carry
\* came into the top one.
IsSum(limbs) ==
    /\ limbs[Top] < 2 * TopRadix
    /\ Ones(limbs, Top) => limbs[Top] < 2 * TopRadix - 1

AddInv ==
    pc = "add" =>
      /\ carry \in {0, 1}
      /\ index <= Top /\ Ones(result, index) => carry = 0
      /\ index = LimbCount => carry = 0 /\ IsSum(result)

FoldInv ==
    /\ folds \in {0, 1}
    /\ pc = "add" => folds = 0
    /\ pc = "fold" => IF folds = 0 THEN IsSum(result) ELSE result[Top] < TopRadix
    /\ pc = "ripple" =>
         /\ folds = 1 /\ carry \in {0, 1} /\ result[Top] < TopRadix
         /\ index = 0 => carry = 1
         /\ index = LimbCount => carry = 0
         /\ carry = 1 /\ (\A k \in Index : index <= k /\ k < Top => result[k] = Radix - 1) =>
              result[Top] < TopRadix - 1

CompareInv ==
    pc = "compare" =>
      /\ index \in Index
      /\ \A k \in Index : k > index => left[k] = right[k]

\* From limb i up, m is more than s.
Exceeds(m, s, i) ==
    \E j \in Index : j >= i /\ m[j] > s[j] /\ \A k \in Index : k > j => m[k] = s[k]

SubtractInv ==
    pc \in {"difference", "subtract"} =>
      /\ carry \in {0, 1}
      /\ minuend[Top] < TopRadix /\ subtrahend[Top] < TopRadix
      /\ \/ Exceeds(minuend, subtrahend, 0)
         \/ pc = "subtract" /\ minuend \in {subtrahend, Modulus}
      /\ carry = 1 => Exceeds(minuend, subtrahend, index)
      /\ Ones(result, index) => carry = 1 \/ Ones(minuend, index)
      /\ minuend = Modulus =>
           /\ pc = "subtract" /\ subtrahend # Zero /\ carry = 0
           /\ \A k \in Index : k < index => result[k] = Modulus[k] - subtrahend[k]
      /\ pc = "difference" /\ (\A k \in Index : k < index => result[k] = 0) =>
           carry = 0 /\ \A k \in Index : k < index => minuend[k] = subtrahend[k]
      /\ index = LimbCount => result[Top] < TopRadix

LoopInv ==
    /\ TypeOK
    /\ AddInv
    /\ FoldInv
    /\ CompareInv
    /\ SubtractInv
    /\ pc = "canonical" => Canonical(result)

-----------------------------------------------------------------------------

\* The optional add, subtract and negate dereference is never empty, so every
\* element stays in [0, p).
CanonicalOnReturn == pc = "canonical" => Canonical(result)

\* No loop drops a carry or a borrow: the one out of the last limb, which
\* add and subtract_limbs ignore and which ends the fold's inner loop, is 0.
NoCarryIsLost ==
    pc \in {"add", "ripple", "difference", "subtract"} /\ index = LimbCount => carry = 0

\* The while loop of fold_mersenne_carry folds a carry of one, and once.
FoldsOnce == folds <= 1 /\ (pc = "ripple" /\ index = 0 => carry = 1)

\* Limb by limb, the calls compute what the header promises.
call == [op |-> op, left |-> Value(left), right |-> Value(right)]

Exact == INSTANCE ModularArithmetic WITH
    P <- Prime, call <- call, answer <- Value(answer)

\* add, subtract and negate return the sum, difference and opposite modulo p.
IsExact == Exact!Spec

-----------------------------------------------------------------------------
(* Why it does: what the limbs of each loop stand for. *)

FunctionInv ==
    /\ op \in CASE pc = "idle" -> {"none"}
                [] pc \in {"add", "fold", "ripple"} -> {"add"}
                [] pc \in {"compare", "difference"} -> {"subtract"}
                [] pc = "subtract" -> {"subtract", "negate"}
                [] pc = "canonical" -> {"add", "subtract", "negate"}
    /\ IF pc = "idle" THEN left = Zero /\ right = Zero ELSE answer = Zero

SumInv ==
    /\ pc = "add" => PartSum(Part(left, index), Part(right, index), result, carry, index)
    /\ pc = "fold" => Value(result) = Value(left) + Value(right) - folds * Prime
    /\ pc = "ripple" => Value(result) + carry * Place(index) = Value(left) + Value(right) - Prime

DifferenceInv ==
    /\ pc \in {"difference", "subtract"} =>
         PartDifference(Part(minuend, index), Part(subtrahend, index), result, carry, index)
    /\ pc = "difference" =>
         Value(minuend) - Value(subtrahend) = Value(right) - Value(left)
    /\ pc = "subtract" => Value(minuend) - Value(subtrahend) = Exact!Exact(call)

FieldInv ==
    /\ LoopInv
    /\ FunctionInv
    /\ SumInv
    /\ DifferenceInv
    /\ pc = "canonical" => Value(result) = Exact!Exact(call)

=============================================================================
