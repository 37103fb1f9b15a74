----------------------------- MODULE ProofEvidence -----------------------------
(***************************************************************************)
(* The public evidence of the development proofs, tests/proofs/evidence:   *)
(* for each circuit a verification key, a proof, its public signals and    *)
(* the same signals with one limb changed; and the report.  tools/prove.mjs *)
(* writes them, tools/verify-proofs.mjs reads them.                        *)
(*                                                                         *)
(* A file is its content and a digest is what it is the digest of.  Keys   *)
(* and proofs are drawn at random, so those of two pipelines differ.  The  *)
(* public signals follow from the case and the circuit, so they do not.    *)
(***************************************************************************)
EXTENDS GenesisRuns

VARIABLES
    artifact,  \* the four public files of each circuit
    report     \* development-proof-report.json

evidenceVars == <<artifact, report>>

Kinds == {"vkey", "proof", "public", "tampered"}

\* A key p made for version "circuit", from the powers of tau "tau" made.
\* The verification key is exported from the proving key and is as good as it.
Keys == [kind : {"key"}, by : Pipelines, circuit : Versions, tau : Pipelines]

\* A proof p made with the key, of a witness that "witness" made.
Proofs == [kind : {"proof"}, by : Pipelines, key : Keys, witness : Versions]

Signals == [kind : {"signals"}, of : Versions, mutated : BOOLEAN]

PublicSignals(v) == [kind |-> "signals", of |-> v, mutated |-> FALSE]

\* One is added to one public limb.
Mutate(signals) == [signals EXCEPT !.mutated = TRUE]

Artifacts ==
    [vkey : Keys \cup {None}, proof : Proofs \cup {None},
     public : Signals \cup {None}, tampered : Signals \cup {None}]

NoArtifacts == [k \in Kinds |-> None]

\* What the report says of one circuit.  The digests of the proving key and of
\* the ceremony are left out, as nothing reads them.
CaseReports ==
    [metrics : Versions, r1cs : Versions, witness : Versions,
     vkey : Keys, proof : Proofs, public : Signals, tampered : Signals]

\* A pipeline writes a report only when every case passed.
Reports ==
    [kind : {"report"}, by : Pipelines, cases : [Circuits -> CaseReports],
     genesis : Manifests]

EvidenceTypeOK ==
    /\ artifact \in [Circuits -> Artifacts]
    /\ report \in Reports \cup {None}

EvidenceInit ==
    /\ artifact = [c \in Circuits |-> NoArtifacts]
    /\ report = None

\* snarkjs groth16 verify.  A proof holds if it was made with the key, of a
\* witness that satisfies the circuit of the key, and for these signals.
\* Without one of the files it ends with an error, and no OK either.
Outcome(key, signals, proof) ==
    IF None \in {key, signals, proof} THEN "missing"
    ELSE IF /\ proof.key = key
            /\ proof.witness = key.circuit
            /\ signals = PublicSignals(proof.witness)
         THEN "OK" ELSE "invalid"

\* What the tool that started it sees: the outcome, or, whatever the files, that
\* snarkjs ended otherwise: it crashed, was killed or ran out of memory.
Endings(outcome) == {outcome} \cup (IF Kills THEN {"crash"} ELSE {})

OutcomesSeen == {"none", "OK", "invalid", "missing", "crash"}

Verified(c) == Outcome(artifact[c].vkey, artifact[c].public, artifact[c].proof)
TamperedVerified(c) == Outcome(artifact[c].vkey, artifact[c].tampered, artifact[c].proof)

=============================================================================
