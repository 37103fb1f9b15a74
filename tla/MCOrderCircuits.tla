---------------------------- MODULE MCOrderCircuits ----------------------------
(* A small order for TLC: 27, in three limbs of base 4, the last of base 2. *)
EXTENDS OrderCircuits, TLC

\* 27 is below 2^5 by less than half of it, as n is below 2^521.
SmallOrder == 0 :> 3 @@ 1 :> 2 @@ 2 :> 1
SmallComplement == 0 :> 1 @@ 1 :> 1 @@ 2 :> 0

\* Every shaped operand, and one limb too large, by one or as -1 in the field.
Operands ==
    {x \in Limbs : Shaped(x)} \cup
    {[Zero EXCEPT ![k] = v] : k \in Index, v \in {Radix, 60}} \cup
    {[Zero EXCEPT ![Top] = TopRadix]}

OperandPairs == Operands \X Operands
=============================================================================
