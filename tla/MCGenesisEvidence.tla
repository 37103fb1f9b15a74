--------------------------- MODULE MCGenesisEvidence --------------------------
(* Small instances of GenesisEvidence for TLC. *)
EXTENDS GenesisEvidence, TLC

\* One binary for every case.
OneBackend == [i \in 1..NReports |-> 1]

\* Every case on the binary that is compiled last.
LastBackend == [i \in 1..NReports |-> NSources]

\* The first case on the native probe, the others on circuits.
TwoBackends == [i \in 1..NReports |-> IF i = 1 THEN 1 ELSE 2]

\* Version 1 answers every case; version 2 all but the last.
LastCaseBroken == ((1..NReports) \X (1..NVersions)) \ {<<NReports, 2>>}

AllRight == (1..NReports) \X (1..NVersions)

NoEdit == {}

OneEdit == {<<1, 2>>}

EditAndRevert == {<<1, 2>>, <<2, 1>>}

RunSymmetry == Permutations(Runs)
=============================================================================
