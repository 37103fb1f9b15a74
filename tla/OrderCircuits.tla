----------------------------- MODULE OrderCircuits ----------------------------
(***************************************************************************)
(* kernel/circuits: addition and subtraction modulo the curve order and    *)
(* the range check, as witnesses are made for them.                        *)
(*                                                                         *)
(* A circuit assigns its carries and borrows as hints (<--) and constrains *)
(* them afterwards (===).  The witness calculator takes the hints and      *)
(* stops at a constraint that does not hold; any other prover may take any *)
(* values of the circuit field that satisfy the constraints.  Both are     *)
(* here.  The constraints on a limb and its carry are taken together,      *)
(* where the circuit states some of them after the loop: the order of      *)
(* constraints makes no difference to what satisfies them all.             *)
(***************************************************************************)
EXTENDS FieldLimbs, FiniteSets

CONSTANTS
    Q,           \* the order of the circuit field
    Order,       \* p521Order64: the limbs of the curve order n
    Complement,  \* p521OrderComplement64: the limbs of 2^521 - n
    Inputs       \* the pairs of operands given to a circuit

N == Value(Order)
TwoTo521 == Weight[Top] * TopRadix

ASSUME CircuitAssumption ==
    /\ Q \in Nat /\ Q > 4 * Radix
    /\ Order \in Limbs /\ Complement \in Limbs
    /\ N + Value(Complement) = TwoTo521
    /\ Inputs \subseteq [Index -> 0..(Q - 1)] \X [Index -> 0..(Q - 1)]

VARIABLES
    pc,       \* the loop the witness has come to
    prover,   \* who makes it: the witness calculator, or anyone
    op,       \* the circuit
    a, b,     \* its public inputs
    index,
    carry,    \* the carry or the borrow into limb index
    wrapped,  \* addCarry[9], the carry of an addition out of the last limb
    needs,    \* needsSubtract or needsAdd; valid in the range circuit
    before,   \* the limbs of the loop before: raw, then folded
    limbs     \* the limbs of this loop: raw, folded, at last result

vars == <<pc, prover, op, a, b, index, carry, wrapped, needs, before, limbs>>

statement == <<prover, op, a, b>>

Loops == {"add", "fold", "reduce", "subtract", "restore"}

\* Limbs stay shaped; carries, borrows and the Boolean outputs are bits.
TypeOK ==
    /\ pc \in Loops \cup {"order", "range", "accepted", "refused"}
    /\ prover \in {"calculator", "anyone"}
    /\ op \in {"add", "subtract", "range"}
    /\ <<a, b>> \in Inputs
    /\ index \in 0..LimbCount
    /\ carry \in {0, 1} /\ wrapped \in {0, 1} /\ needs \in {0, 1}
    /\ before \in Limbs /\ limbs \in Limbs

Init ==
    /\ prover \in {"calculator", "anyone"}
    /\ op \in {"add", "subtract", "range"}
    /\ pc = op
    /\ \E pair \in Inputs : a = pair[1] /\ b = pair[2]
    /\ index = 0 /\ carry = 0 /\ wrapped = 0 /\ needs = 0
    /\ before = Zero /\ limbs = Zero

-----------------------------------------------------------------------------
(* The components. *)

Bit(x) == IF x THEN 1 ELSE 0

\* P521ArithmeticElementShape: Num2Bits of every limb.
Shaped(x) == \A k \in Index : x[k] < Base(k)

\* LessThan(65): the bit above in[0] + 2^65 - in[1] is not set.
LimbLess(x, y) == (x + 2 * Radix - y) % Q < 2 * Radix

\* Fault: the lowest limb that differs decides.
LessThanOrderUpwards(x) ==
    Cardinality({k \in Index : /\ LimbLess(x[k], Order[k])
                               /\ \A j \in Index : j < k => x[j] = Order[j]})

\* BigLessThanP521Order9, for shaped limbs: the number of limbs that are less
\* while all above them are equal.
LessThanOrder(x) ==
    Cardinality({k \in Index : /\ LimbLess(x[k], Order[k])
                               /\ \A j \in Index : j > k => x[j] = Order[j]})

\* Fault: the limbs are counted, where the circuit multiplies.
NonZeroLimbs(x) == Cardinality({k \in Index : x[k] # 0})

\* BigNonZero9.
NonZero(x) == 1 - Bit(\A k \in Index : x[k] = 0)

\* BigRangeNonZeroLtP521Order9.
InRange(x) == LessThanOrder(x) * NonZero(x)

\* Fault: a carry is not constrained to be a bit.
AllowedAnyCarry(splits) == {s \in splits : s.limb < Base(index)}

\* The values a prover may give to limb index and to the carry out of it.
Allowed(splits) == {s \in splits : s.limb < Base(index) /\ s.carry \in {0, 1}}

Carries(hint) == IF prover = "calculator" THEN {hint} ELSE 0..(Q - 1)

\* limb + carry * base === sum, with the hints sum \ base and sum % base.
CarrySplits(sum) ==
    Allowed({[limb |-> (sum - c * Base(index)) % Q, carry |-> c] :
                c \in Carries((sum % Q) \div Base(index))})

\* Fault: the hint borrows for a limb that is equal, too.
BorrowSplitsEarly(x, y) ==
    LET taken == y + carry
    IN  Allowed({[limb |-> (x + c * Base(index) - taken) % Q, carry |-> c] :
                    c \in Carries(((taken + Base(index) - x) % Q) \div Base(index))})

\* limb + y + borrow === x + borrow' * base, with the hint
\* (y + borrow + base - 1 - x) \ base.
BorrowSplits(x, y) ==
    LET taken == y + carry
    IN  Allowed({[limb |-> (x + c * Base(index) - taken) % Q, carry |-> c] :
                    c \in Carries(((taken + Base(index) - 1 - x) % Q) \div Base(index))})

-----------------------------------------------------------------------------

\* What the loop at pc allows for limb index.
Splits ==
    CASE pc = "add" -> CarrySplits(a[index] + b[index] + carry)
      [] pc = "fold" -> CarrySplits(before[index] + wrapped * Complement[index] + carry)
      [] pc = "reduce" -> BorrowSplits(before[index], needs * Order[index])
      [] pc = "subtract" -> BorrowSplits(a[index], b[index])
      [] pc = "restore" -> CarrySplits(before[index] + needs * Order[index] + carry)

LimbStep ==
    /\ pc \in Loops /\ index < LimbCount
    /\ \E s \in Splits : /\ limbs' = [limbs EXCEPT ![index] = s.limb]
                         /\ carry' = s.carry
    /\ index' = index + 1
    /\ UNCHANGED <<pc, statement, wrapped, needs, before>>

\* On to the next loop, which works on the limbs of this one.
Enter(loop) ==
    /\ pc' = loop /\ index' = 0 /\ carry' = 0
    /\ before' = limbs /\ limbs' = Zero
    /\ UNCHANGED statement

\* The carry out of the sum is folded into it: 2^521 is 2^521 - n modulo n.
AddEnd ==
    /\ pc = "add" /\ index = LimbCount
    /\ Enter("fold")
    /\ wrapped' = carry
    /\ UNCHANGED needs

\* foldCarry[9] === 0.
FoldEnd ==
    /\ pc = "fold" /\ index = LimbCount /\ carry = 0
    /\ Enter("reduce")
    /\ needs' = 1 - LessThanOrder(limbs)
    /\ UNCHANGED wrapped

\* needsAdd is the borrow out of the difference.
SubtractEnd ==
    /\ pc = "subtract" /\ index = LimbCount
    /\ Enter("restore")
    /\ needs' = carry
    /\ UNCHANGED wrapped

\* borrow[9] === 0 in the addition, carry[9] === needsAdd in the subtraction.
ResultEnd ==
    /\ index = LimbCount
    /\ \/ pc = "reduce" /\ carry = 0
       \/ pc = "restore" /\ carry = needs
    /\ pc' = "order"
    /\ UNCHANGED <<statement, index, carry, wrapped, needs, before, limbs>>

\* The checked templates: both operands and the result are below the order.
OrderEnd ==
    /\ pc = "order"
    /\ Shaped(a) /\ Shaped(b)
    /\ \A x \in {a, b, limbs} : LessThanOrder(x) = 1
    /\ pc' = "accepted"
    /\ UNCHANGED <<statement, index, carry, wrapped, needs, before, limbs>>

\* P521SignatureRangeMain: an operand out of range makes the output 0.
RangeEnd ==
    /\ pc = "range"
    /\ Shaped(a) /\ Shaped(b)
    /\ needs' = InRange(a) * InRange(b)
    /\ pc' = "accepted"
    /\ UNCHANGED <<statement, index, carry, wrapped, before, limbs>>

\* Some constraint cannot be satisfied: there is no witness.
Refuse ==
    /\ \/ pc \in Loops /\ index < LimbCount /\ Splits = {}
       \/ pc \in {"fold", "reduce"} /\ index = LimbCount /\ carry # 0
       \/ pc = "restore" /\ index = LimbCount /\ carry # needs
       \/ pc = "order" /\ ~ (Shaped(a) /\ Shaped(b))
       \/ pc = "order" /\ \E x \in {a, b, limbs} : LessThanOrder(x) # 1
       \/ pc = "range" /\ ~ (Shaped(a) /\ Shaped(b))
    /\ pc' = "refused"
    /\ UNCHANGED <<statement, index, carry, wrapped, needs, before, limbs>>

Next ==
    \/ LimbStep \/ AddEnd \/ FoldEnd \/ SubtractEnd \/ ResultEnd
    \/ OrderEnd \/ RangeEnd \/ Refuse

Spec == Init /\ [][Next]_vars

-----------------------------------------------------------------------------
(* tools/pn521-reference.mjs: what the circuits are compared with. *)

OrderAddTrace(x, y) ==
    LET folded == ((x + y) % TwoTo521) + ((x + y) \div TwoTo521) * (TwoTo521 - N)
    IN  [result |-> IF folded >= N THEN folded - N ELSE folded,
         needsSubtract |-> Bit(folded >= N)]

OrderSubtract(x, y) == (x - y + N) % N

IsOrderValue(x) == Shaped(x) /\ Value(x) < N

\* Whoever makes the witness, and whatever it takes for the carries, a witness
\* that satisfies the circuit has the operands in range and the outputs of
\* the reference: hints are not proof.
Sound ==
    pc = "accepted" =>
      /\ op = "range" => needs = Bit(\A x \in {a, b} : IsOrderValue(x) /\ Value(x) > 0)
      /\ op # "range" => IsOrderValue(a) /\ IsOrderValue(b)
      /\ op = "add" => LET trace == OrderAddTrace(Value(a), Value(b))
                       IN  /\ Value(limbs) = trace.result
                           /\ Value(limbs) = (Value(a) + Value(b)) % N
                           /\ needs = trace.needsSubtract
      /\ op = "subtract" => /\ Value(limbs) = OrderSubtract(Value(a), Value(b))
                            /\ needs = Bit(Value(a) < Value(b))

\* No operands in range are refused: the hints of the witness calculator
\* satisfy every constraint, which those of an earlier subtraction did not
\* (regressions/README.md).
Complete ==
    pc = "refused" /\ prover = "calculator" =>
        IF op = "range" THEN ~ (Shaped(a) /\ Shaped(b))
                        ELSE ~ (IsOrderValue(a) /\ IsOrderValue(b))

\* The constraints leave a prover no choice: one limb and one carry at most.
HintsAreForced ==
    pc \in Loops /\ index < LimbCount => Cardinality(Splits) <= 1

-----------------------------------------------------------------------------
(* Why it holds: the inductive invariant.  Between them, the limbs a loop  *)
(* has made and its carry are the sum or the difference it is to make of   *)
(* the limbs it has been over.                                             *)

Sum(x, y) == PartSum(x, y, limbs, carry, index)
Difference(x, y) == PartDifference(x, y, limbs, carry, index)

\* The sum without its carry, and with the carry folded into it.
RawSum == Value(a) + Value(b) - wrapped * TwoTo521
FoldedSum == Value(a) + Value(b) - wrapped * N

AddInv ==
    /\ pc = "add" => Sum(Part(a, index), Part(b, index))
    /\ pc = "fold" => /\ Value(before) = RawSum
                      /\ Sum(Part(before, index), wrapped * Part(Complement, index))
    /\ pc = "reduce" => /\ Value(before) = FoldedSum
                        /\ Difference(Part(before, index), needs * Part(Order, index))
    /\ pc = "order" => Value(limbs) = FoldedSum - needs * N
    /\ pc \in {"fold", "reduce", "order"} => wrapped = Bit(Value(a) + Value(b) >= TwoTo521)
    /\ pc \in {"reduce", "order"} => needs = Bit(FoldedSum >= N)

SubtractInv ==
    /\ pc = "subtract" => Difference(Part(a, index), Part(b, index))
    /\ pc = "restore" => /\ Value(before) = Value(a) - Value(b) + needs * TwoTo521
                         /\ Sum(Part(before, index), needs * Part(Order, index))
    /\ pc = "order" => Value(limbs) = Value(a) - Value(b) + needs * N
    /\ pc \in {"restore", "order"} => needs = Bit(Value(a) < Value(b))

CircuitInv ==
    /\ TypeOK
    /\ Shaped(before) /\ Shaped(limbs)
    /\ pc \in {"add", "fold", "reduce"} => op = "add"
    /\ pc \in {"subtract", "restore"} => op = "subtract"
    /\ pc = "range" <=> op = "range" /\ pc \notin {"accepted", "refused"}
    /\ Shaped(a) /\ Shaped(b) => (op = "add" => AddInv) /\ (op = "subtract" => SubtractInv)
    /\ Sound /\ Complete

=============================================================================
