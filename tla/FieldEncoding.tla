----------------------------- MODULE FieldEncoding ----------------------------
(***************************************************************************)
(* lib/p521_field_element.cpp: from_bytes_be parses a big-endian encoding, *)
(* one byte a step, and to_bytes_be writes the element it gave back.       *)
(*                                                                         *)
(* The code has ByteRadix = 256, BytesPerLimb = 8 and EncodedSize = 66: 64 *)
(* bytes for the lower eight limbs and two, of 16 bits, for the 9 of the   *)
(* top one.                                                                *)
(***************************************************************************)
EXTENDS FieldLimbs, Sequences

CONSTANTS
    ByteRadix, BytesPerLimb,
    EncodedSize,  \* kEncodedSize
    Lengths       \* the lengths of the inputs tried

\* The value of one byte by its place in a limb: value << bit_offset.
ByteWeight[k \in 0..BytesPerLimb] == IF k = 0 THEN 1 ELSE ByteRadix * ByteWeight[k - 1]

TopBytes == EncodedSize - Top * BytesPerLimb

ASSUME EncodingAssumption ==
    /\ ByteRadix \in Nat \ {0, 1}
    /\ BytesPerLimb \in Nat \ {0}
    /\ EncodedSize \in Nat
    /\ ByteWeight[BytesPerLimb] = Radix
    /\ TopBytes \in 1..BytesPerLimb
    /\ TopRadix <= ByteWeight[TopBytes]
    /\ Lengths \subseteq Nat

Byte == 0..(ByteRadix - 1)
Offset == 0..(EncodedSize - 1)

VARIABLES
    phase,    \* where the parser or the encoder is
    bytes,    \* the input of from_bytes_be
    offset,   \* from the last, least significant byte
    limbs,
    encoded   \* the output of to_bytes_be

encodingVars == <<phase, bytes, offset, limbs, encoded>>

Blank == [k \in 1..EncodedSize |-> 0]

EncodingTypeOK ==
    /\ phase \in {"idle", "parse", "check", "parsed", "rejected", "encode", "encoded"}
    /\ bytes \in Seq(Byte)
    /\ offset \in 0..EncodedSize
    /\ limbs \in Limbs
    /\ encoded \in [1..EncodedSize -> Byte]

EncodingInit ==
    /\ phase = "idle" /\ bytes = <<>> /\ offset = 0
    /\ limbs = Zero /\ encoded = Blank

\* A call with any bytes.  Another length than kEncodedSize is rejected at once.
CallFromBytes ==
    /\ phase = "idle"
    /\ \E n \in Lengths : bytes' \in [1..n -> Byte]
    /\ phase' = IF Len(bytes') = EncodedSize THEN "parse" ELSE "rejected"
    /\ offset' = 0 /\ limbs' = Zero
    /\ UNCHANGED encoded

\* Bytes are numbered from 1 here: bytes.size() - 1 - offset is the code's.
At(o) == EncodedSize - o

\* The bits the | sets are still clear, so it is a sum.
ParseByte ==
    /\ phase = "parse" /\ offset < EncodedSize
    /\ limbs' = [limbs EXCEPT ![offset \div BytesPerLimb] =
                    @ + bytes[At(offset)] * ByteWeight[offset % BytesPerLimb]]
    /\ offset' = offset + 1
    /\ UNCHANGED <<phase, bytes, encoded>>

ParseEnd ==
    /\ phase = "parse" /\ offset = EncodedSize
    /\ phase' = "check"
    /\ UNCHANGED <<bytes, offset, limbs, encoded>>

\* Fault: any number of 521 bits is accepted.
CheckWidth ==
    /\ phase = "check"
    /\ IF limbs[Top] < TopRadix THEN phase' = "parsed" ELSE phase' = "rejected"
    /\ offset' = 0
    /\ UNCHANGED <<bytes, limbs, encoded>>

\* from_canonical_limbs
Check ==
    /\ phase = "check"
    /\ IF Canonical(limbs) THEN phase' = "parsed" ELSE phase' = "rejected"
    /\ offset' = 0
    /\ UNCHANGED <<bytes, limbs, encoded>>

\* Fault: the bytes of a limb are written in the other order.
EncodeByteSwapped ==
    /\ phase = "encode" /\ offset < EncodedSize
    /\ encoded' = [encoded EXCEPT ![At(offset)] =
          (limbs[offset \div BytesPerLimb]
             \div ByteWeight[BytesPerLimb - 1 - (offset % BytesPerLimb)]) % ByteRadix]
    /\ offset' = offset + 1
    /\ UNCHANGED <<phase, bytes, limbs>>

\* to_bytes_be of the element.
EncodeByte ==
    /\ phase = "encode" /\ offset < EncodedSize
    /\ encoded' = [encoded EXCEPT ![At(offset)] =
          (limbs[offset \div BytesPerLimb] \div ByteWeight[offset % BytesPerLimb]) % ByteRadix]
    /\ offset' = offset + 1
    /\ UNCHANGED <<phase, bytes, limbs>>

EncodeEnd ==
    /\ phase = "encode" /\ offset = EncodedSize
    /\ phase' = "encoded"
    /\ UNCHANGED <<bytes, offset, limbs, encoded>>

\* to_bytes_be of element e.
CallToBytes(e) ==
    /\ phase' = "encode" /\ limbs' = e /\ offset' = 0
    /\ UNCHANGED <<bytes, encoded>>

EncodingWork == ParseByte \/ ParseEnd \/ Check \/ EncodeByte \/ EncodeEnd

-----------------------------------------------------------------------------

\* The number big-endian bytes stand for.
BytesValue(b) ==
    LET upTo[k \in 0..EncodedSize] ==
          IF k = 0 THEN 0 ELSE ByteRadix * upTo[k - 1] + b[k]
    IN  upTo[EncodedSize]

IsEncoding(b) == Len(b) = EncodedSize /\ BytesValue(b) < Prime

\* from_bytes_be accepts the encodings of kEncodedSize bytes of the numbers
\* below p and no others, and gives the element that is that number: nothing
\* is reduced into the field, and no bit above the 521st is dropped.
AcceptsExactly ==
    /\ phase = "rejected" => ~ IsEncoding(bytes)
    /\ phase = "parsed" => IsEncoding(bytes) /\ Value(limbs) = BytesValue(bytes)

-----------------------------------------------------------------------------
(* Why it does: what the bytes read or written so far stand for. *)

\* What one stands for in the byte at offset o.
BytePlace(o) == Weight[o \div BytesPerLimb] * ByteWeight[o % BytesPerLimb]

\* The number that the last o bytes stand for.
LowBytes(b, o) ==
    LET low[k \in 0..EncodedSize] ==
          IF k = 0 THEN 0 ELSE low[k - 1] + b[At(k - 1)] * BytePlace(k - 1)
    IN  low[o]

\* The limbs of x as far as the last o bytes reach.
LowLimbs(x, o) ==
    [k \in Index |-> IF k < o \div BytesPerLimb THEN x[k]
                     ELSE IF k = o \div BytesPerLimb THEN x[k] % ByteWeight[o % BytesPerLimb]
                     ELSE 0]

ParseInv ==
    /\ phase = "parse" => Len(bytes) = EncodedSize /\ limbs = LowLimbs(limbs, offset)
                         /\ Value(limbs) = LowBytes(bytes, offset)
    /\ phase = "check" => Len(bytes) = EncodedSize /\ Value(limbs) = BytesValue(bytes)
    /\ phase = "parsed" => Canonical(limbs)

EncodeInv ==
    /\ phase \in {"encode", "encoded"} => limbs \in FieldElements
    /\ phase = "encode" => LowBytes(encoded, offset) = Value(LowLimbs(limbs, offset))
    /\ phase = "encoded" => BytesValue(encoded) = Value(limbs)

EncodingInv ==
    /\ EncodingTypeOK
    /\ ParseInv
    /\ EncodeInv
    /\ AcceptsExactly

=============================================================================
