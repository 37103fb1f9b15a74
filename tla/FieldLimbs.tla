------------------------------- MODULE FieldLimbs -----------------------------
(***************************************************************************)
(* The elements of the field of p = 2^521 - 1 as little-endian arrays of   *)
(* limbs: include/fenrua/p521/field_element.hpp and the constants and      *)
(* predicates of lib/p521_field_element.cpp.                               *)
(*                                                                         *)
(* The code has nine limbs of 64 bits, of which the top one uses 9:        *)
(* LimbCount = 9, Radix = 2^64, TopRadix = 2^9.                            *)
(***************************************************************************)
EXTENDS Integers

CONSTANTS
    LimbCount,  \* kLimbCount
    Radix,      \* one more than the largest value of a limb
    TopRadix    \* kTopLimbMask + 1

ASSUME LimbAssumption ==
    /\ LimbCount \in Nat \ {0, 1}
    /\ TopRadix \in Nat \ {0, 1}
    /\ Radix \in Nat
    /\ 2 * TopRadix <= Radix

Index == 0..(LimbCount - 1)
Top == LimbCount - 1
Limb == 0..(Radix - 1)
Limbs == [Index -> Limb]

\* One more than the largest value of limb k in a number of 521 bits.
Base(k) == IF k = Top THEN TopRadix ELSE Radix

\* What one stands for in limb k, and in the carry out of the limbs before it.
Weight[k \in Index] == IF k = 0 THEN 1 ELSE Radix * Weight[k - 1]
Place(k) == IF k = LimbCount THEN Weight[Top] * TopRadix ELSE Weight[k]

\* The number the limbs below limb k stand for.
Part(limbs, k) ==
    LET part[i \in 0..LimbCount] ==
          IF i = 0 THEN 0 ELSE part[i - 1] + limbs[i - 1] * Weight[i - 1]
    IN  part[k]

Value(limbs) == Part(limbs, LimbCount)

\* What a loop over the limbs keeps: the limbs of r below limb k and the carry,
\* or the borrow, into limb k are X + Y, or X - Y.
PartSum(X, Y, r, carry, k) == X + Y = Part(r, k) + carry * Place(k)
PartDifference(X, Y, r, borrow, k) == X - Y = Part(r, k) - borrow * Place(k)

Modulus == [k \in Index |-> Base(k) - 1]
Prime == Weight[Top] * TopRadix - 1

Zero == [k \in Index |-> 0]

\* are_canonical_limbs
Canonical(limbs) == limbs[Top] < TopRadix /\ limbs # Modulus

FieldElements == {limbs \in Limbs : Canonical(limbs)}

=============================================================================
