--------------------------- MODULE ModularArithmetic --------------------------
(***************************************************************************)
(* What include/fenrua/p521/field_element.hpp promises: add, subtract and  *)
(* negate take elements of [0, p) and return the element the operation     *)
(* gives modulo p.  A call is two steps, the call and the return.          *)
(***************************************************************************)
EXTENDS Integers

CONSTANT P

VARIABLES
    call,   \* the call under way: operation and operands
    answer  \* the element the last call returned, 0 during a call

Idle == [op |-> "none", left |-> 0, right |-> 0]
Elements == 0..(P - 1)

Exact(c) ==
    CASE c.op = "add" -> (c.left + c.right) % P
      [] c.op = "subtract" -> (c.left - c.right) % P
      [] c.op = "negate" -> (-c.left) % P

Init == call = Idle /\ answer = 0

Call ==
    /\ call = Idle
    /\ call' \in [op : {"add", "subtract", "negate"}, left : Elements, right : Elements]
    /\ answer' = 0

Return ==
    /\ call # Idle
    /\ answer' = Exact(call)
    /\ call' = Idle

Spec == Init /\ [][Call \/ Return]_<<call, answer>>

=============================================================================
