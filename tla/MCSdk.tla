--------------------------------- MODULE MCSdk ---------------------------------
(* Small instances of Sdk for TLC. *)
EXTENDS Sdk, TLC

OneEdit == {<<1, 2>>}

AllRight == (1..NCircuits) \X (1..NVersions)

\* The second version of the last circuit fails its Genesis case.
LastBroken == AllRight \ {<<NCircuits, 2>>}

\* The second version of the first circuit has other metrics.
FirstLarger == AllRight \ {<<1, 2>>}

\* A bound on what is explored: snarkjs crashes as it verifies a proof, but not as
\* it refuses the changed signals.  Nothing reads which of the two a rejection was,
\* and no property of the client says, so that each behaviour left out has one
\* that differs from it in nothing else.
NoCrashTaken ==
    \A c \in Circuits :
      /\ \A p \in Pipelines : pipeline[p].reason[c] # "crash"
      /\ verifier.reason[c] = "crash" => verifier.pc = "fail"
=============================================================================
