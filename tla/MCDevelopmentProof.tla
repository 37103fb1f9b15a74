-------------------------- MODULE MCDevelopmentProof ---------------------------
(* Small instances of DevelopmentProof for TLC. *)
EXTENDS DevelopmentProof, TLC

NoEdit == {}

OneEdit == {<<1, 2>>}

AllRight == (1..NCircuits) \X (1..NVersions)

\* A bound on what is explored: of an edit, a separate just test, the death of a
\* process and a crash of snarkjs that is taken for a rejection, no more than two
\* come together.  Pipelines make runs of their own, and one that is killed leaves
\* its run behind, so that an edit and a death still meet two runs that overlap.
NoThree ==
    LET edit == \E c \in Circuits : source[c] # 1
        test == \E g \in Runs : genesis[g].pc # "idle"
        death == \/ \E g \in Runners : genesis[g].pc = "dead"
                 \/ \E p \in Pipelines : pipeline[p].pc = "dead"
        crash == \E c \in Circuits : \/ verifier.reason[c] = "crash"
                                     \/ \E p \in Pipelines : pipeline[p].reason[c] = "crash"
    IN  /\ ~ (edit /\ test /\ (death \/ crash))
        /\ ~ (death /\ crash /\ (edit \/ test))

ProcessSymmetry == Permutations(Runs) \cup Permutations(Pipelines)
=============================================================================
