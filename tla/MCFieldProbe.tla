------------------------------ MODULE MCFieldProbe -----------------------------
(* FieldProbe with small bytes and limbs for TLC. *)
EXTENDS FieldProbe

AllCommands == {"canonicalize", "add", "subtract", "negate"}
=============================================================================
