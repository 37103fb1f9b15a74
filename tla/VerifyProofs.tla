----------------------------- MODULE VerifyProofs ------------------------------
(***************************************************************************)
(* tools/verify-proofs.mjs: a process that lists the public evidence,      *)
(* reads the report once and then, circuit by circuit, compares the four   *)
(* files with it, reads the signals, and has snarkjs verify the proof and  *)
(* refuse the changed signals.  It throws at the first check that fails    *)
(* and writes nothing.  Each of these reads the files again.               *)
(***************************************************************************)
EXTENDS ProofEvidence, Sequences

CONSTANT Profile  \* <<c, v>>: version v of circuit c has the frozen metrics

ASSUME ProfileAssumption == Profile \in SUBSET (Circuits \X Versions)

VARIABLE verifier  \* the local state of the process

KindOrder == <<"vkey", "proof", "public", "tampered">>

VerifierPhases ==
    {"idle", "report", "case", "artifact", "signals", "valid", "tampered", "pass", "fail"}

VerifierStates ==
    [pc : VerifierPhases, at : Circuits, kind : 1..4,
     report : Reports \cup {None},
     read : [Circuits -> Artifacts],  \* what the files held when compared
     reason : [Circuits -> OutcomesSeen]]  \* history

VerifierTypeOK == verifier \in VerifierStates

Unread(pc) ==
    [pc |-> pc, at |-> 1, kind |-> 1, report |-> None,
     read |-> [c \in Circuits |-> NoArtifacts],
     reason |-> [c \in Circuits |-> "none"]]

VerifierInit == verifier = Unread("idle")

Case(c) == verifier.report.cases[c]

\* Fail closed: the process goes on with "next" if "ok", and else throws.
Check(ok, next) == verifier' = IF ok THEN next ELSE Unread("fail")

-----------------------------------------------------------------------------

\* Every file has to be there.
ListEvidence ==
    /\ verifier.pc = "idle"
    /\ Check(report # None /\ \A c \in Circuits, k \in Kinds : artifact[c][k] # None,
             [verifier EXCEPT !.pc = "report"])

ReadReport ==
    /\ verifier.pc = "report"
    /\ Check(report # None, [verifier EXCEPT !.pc = "case", !.report = report])

\* What the report records of the circuit is within the frozen profile.
CheckCase ==
    \E c \in Circuits :
      /\ verifier.pc = "case" /\ verifier.at = c
      /\ Check(<<c, Case(c).metrics>> \in Profile, [verifier EXCEPT !.pc = "artifact"])

\* To the next of the four files, with file k of circuit c in memory.
NextArtifact(c, k) ==
    IF verifier.kind < 4
    THEN [verifier EXCEPT !.read[c][k] = artifact[c][k], !.kind = @ + 1]
    ELSE [verifier EXCEPT !.read[c][k] = artifact[c][k], !.kind = 1, !.pc = "signals"]

\* Fault: the lengths are compared, the digests are not.
CheckArtifactLength ==
    \E c \in Circuits, k \in Kinds :
      /\ verifier.pc = "artifact" /\ verifier.at = c /\ KindOrder[verifier.kind] = k
      /\ Check(artifact[c][k] # None, NextArtifact(c, k))

\* assertArtifact, of the four files in turn.
CheckArtifact ==
    \E c \in Circuits, k \in Kinds :
      /\ verifier.pc = "artifact" /\ verifier.at = c /\ KindOrder[verifier.kind] = k
      /\ Check(artifact[c][k] = Case(c)[k], NextArtifact(c, k))

\* The changed signals differ from the others in the one limb.
CheckSignals ==
    \E c \in Circuits :
      /\ verifier.pc = "signals" /\ verifier.at = c
      /\ Check(/\ None \notin {artifact[c].public, artifact[c].tampered}
               /\ artifact[c].tampered = [artifact[c].public EXCEPT !.mutated = TRUE]
               /\ artifact[c].tampered # artifact[c].public,
               [verifier EXCEPT !.pc = "valid"])

\* Anything but an OK counts as a proof that does not hold.
CheckValid ==
    \E c \in Circuits : \E ending \in Endings(Verified(c)) :
      /\ verifier.pc = "valid" /\ verifier.at = c
      /\ verifier' = IF ending = "OK" THEN [verifier EXCEPT !.pc = "tampered"]
                     ELSE [Unread("fail") EXCEPT !.reason[c] = ending]

\* Fault: the changed signals are looked for where they are not.
CheckTamperedElsewhere ==
    LET outcome(c) == Outcome(artifact[c].vkey, None, artifact[c].proof)
    IN  \E c \in Circuits : \E ending \in Endings(outcome(c)) :
          /\ verifier.pc = "tampered" /\ verifier.at = c
          /\ Check(ending # "OK",
                   NextCircuit([verifier EXCEPT !.reason[c] = ending], "case", "pass"))

\* Anything but an OK counts as a rejection, a crash as well.
CheckTampered ==
    \E c \in Circuits : \E ending \in Endings(TamperedVerified(c)) :
      /\ verifier.pc = "tampered" /\ verifier.at = c
      /\ Check(ending # "OK",
               NextCircuit([verifier EXCEPT !.reason[c] = ending], "case", "pass"))

\* What the process does once it has started.
VerifyOn ==
    \/ ReadReport \/ CheckCase \/ CheckArtifact \/ CheckSignals
    \/ CheckValid \/ CheckTampered

VerifyStep == ListEvidence \/ VerifyOn

=============================================================================
