------------------------------- MODULE FieldProbe ------------------------------
(***************************************************************************)
(* The native probe that the Genesis cases are run on, tests/native/       *)
(* pn521_probe.cpp: it parses its one or two operands, computes with the   *)
(* elements, and writes the result, or reports that an operand was         *)
(* rejected.  The command "negate" is not the probe's: it stands for the   *)
(* tests that negate an element they parsed.                               *)
(***************************************************************************)
EXTENDS FieldElement, FieldEncoding

CONSTANT Commands  \* those tried

ASSUME CommandAssumption ==
    Commands \in SUBSET {"canonicalize", "add", "subtract", "negate"}

VARIABLES
    stage,    \* where the process is
    command,  \* argv[1]
    inputs,   \* argv[2] and argv[3], as they are parsed
    parsed,   \* what parse_field gave for each
    output    \* what the process printed

probeVars == <<vars, encodingVars, stage, command, inputs, parsed, output>>

NoElement == <<>>  \* an optional that is empty

Rejected == [kind |-> "rejected"]
Result(b) == [kind |-> "result", bytes |-> b]

Arity == IF command \in {"add", "subtract"} THEN 2 ELSE 1

ProbeInit ==
    /\ Init /\ EncodingInit
    /\ stage = "parse"
    /\ command \in Commands
    /\ inputs = <<>> /\ parsed = <<>>
    /\ output = Result(<<>>)

-----------------------------------------------------------------------------

\* parse_field of the next operand.
ParseOperand ==
    /\ stage = "parse" /\ CallFromBytes
    /\ UNCHANGED <<vars, stage, command, inputs, parsed, output>>

\* The next operand, or on when that was the last: both are parsed before
\* either is looked at.
OperandParsed ==
    /\ stage = "parse" /\ phase \in {"parsed", "rejected"}
    /\ inputs' = Append(inputs, bytes)
    /\ parsed' = Append(parsed, IF phase = "parsed" THEN limbs ELSE NoElement)
    /\ stage' = IF Len(parsed') = Arity THEN "compute" ELSE "parse"
    /\ phase' = "idle" /\ bytes' = <<>> /\ offset' = 0 /\ limbs' = Zero
    /\ UNCHANGED <<vars, encoded, command, output>>

AllAccepted == \A i \in 1..Arity : parsed[i] # NoElement

PrintRejected ==
    /\ stage = "compute" /\ ~ AllAccepted
    /\ stage' = "done" /\ output' = Rejected
    /\ UNCHANGED <<vars, encodingVars, command, inputs, parsed>>

Compute ==
    /\ stage = "compute" /\ AllAccepted
    /\ stage' = "computing"
    /\ \/ command = "add" /\ CallAdd /\ left' = parsed[1] /\ right' = parsed[2]
       \/ command = "subtract" /\ CallSubtract /\ left' = parsed[1] /\ right' = parsed[2]
       \/ command = "negate" /\ CallNegate /\ left' = parsed[1]
    /\ UNCHANGED <<encodingVars, command, inputs, parsed, output>>

ElementWork == Work /\ UNCHANGED <<encodingVars, stage, command, inputs, parsed, output>>

\* Of what was computed, or of the operand itself.
Encode ==
    /\ \/ stage = "compute" /\ AllAccepted /\ command = "canonicalize" /\ CallToBytes(parsed[1])
       \/ stage = "computing" /\ pc = "idle" /\ CallToBytes(answer)
    /\ stage' = "print"
    /\ UNCHANGED <<vars, command, inputs, parsed, output>>

CodecWork == EncodingWork /\ UNCHANGED <<vars, stage, command, inputs, parsed, output>>

PrintResult ==
    /\ stage = "print" /\ phase = "encoded"
    /\ stage' = "done" /\ output' = Result(encoded)
    /\ UNCHANGED <<vars, encodingVars, command, inputs, parsed>>

ProbeWork ==
    \/ OperandParsed \/ PrintRejected \/ Compute \/ ElementWork \/ Encode \/ CodecWork
    \/ PrintResult

ProbeNext == ParseOperand \/ ProbeWork

\* The process is scheduled.
ProbeSpec == ProbeInit /\ [][ProbeNext]_probeVars /\ WF_probeVars(ProbeNext)

-----------------------------------------------------------------------------

\* What the command computes, on numbers modulo p.
Expected ==
    LET value(i) == BytesValue(inputs[i])
    IN  CASE command = "canonicalize" -> value(1)
          [] command = "add" -> (value(1) + value(2)) % Prime
          [] command = "subtract" -> (value(1) - value(2)) % Prime
          [] command = "negate" -> (-value(1)) % Prime

\* From bytes to bytes: the probe prints the one encoding of the result when
\* every operand is the encoding of an element, and that it rejected one
\* otherwise; an element is written back as the bytes it was read from.
AnswersExactly ==
    stage = "done" =>
      IF \A i \in 1..Arity : IsEncoding(inputs[i])
      THEN output \in {Result(b) : b \in [1..EncodedSize -> Byte]}
           /\ BytesValue(output.bytes) = Expected
      ELSE output = Rejected

\* Every command is answered: the folds, the comparisons and the loops over
\* limbs and bytes all come to an end.
EveryCommandIsAnswered == <>(stage = "done")

-----------------------------------------------------------------------------
(* Why it does: what each stage of the command has. *)

\* Each operand was read as its number, or rejected.
OperandsInv ==
    /\ inputs \in Seq(Seq(Byte)) /\ parsed \in Seq({NoElement} \cup Limbs)
    /\ Len(parsed) = Len(inputs)
    /\ \A i \in 1..Len(inputs) :
         IF IsEncoding(inputs[i])
         THEN parsed[i] \in FieldElements /\ Value(parsed[i]) = BytesValue(inputs[i])
         ELSE parsed[i] = NoElement

StageInv ==
    /\ stage \in {"parse", "compute", "computing", "print", "done"} /\ command \in Commands
    /\ IF stage = "parse" THEN Len(inputs) < Arity ELSE Len(inputs) = Arity
    /\ phase \in CASE stage = "parse" -> {"idle", "parse", "check", "parsed", "rejected"}
                   [] stage \in {"compute", "computing"} -> {"idle"}
                   [] stage = "print" -> {"encode", "encoded"}
                   [] stage = "done" -> {"idle", "encoded"}
    /\ stage \in {"computing", "print"} => AllAccepted

CommandInv ==
    /\ stage = "computing" /\ pc # "idle" =>
         /\ op = command /\ left = parsed[1]
         /\ command \in {"add", "subtract"} => right = parsed[2]
    /\ stage = "computing" /\ pc = "idle" => answer \in FieldElements /\ Value(answer) = Expected
    /\ stage = "print" => Value(limbs) = Expected

ProbeInv ==
    /\ FieldInv
    /\ EncodingInv
    /\ OperandsInv
    /\ StageInv
    /\ CommandInv
    /\ AnswersExactly

=============================================================================
