---------------------------------- MODULE Sdk ----------------------------------
(***************************************************************************)
(* sdk/src/index.ts as sdk/example.ts calls it: runGenesis, then           *)
(* generateDevelopmentProofs, then verifyEvidence, each of which starts    *)
(* the tools, waits for them, and reads what they wrote when they have     *)
(* ended.  The other processes of DevelopmentProof go on around the client. *)
(***************************************************************************)
EXTENDS DevelopmentProof

CONSTANTS
    ClientRun,       \* the run that runGenesis starts
    ClientPipeline,  \* the pipeline that generateDevelopmentProofs starts
    Alone            \* TRUE: no one else does anything while the client is busy

ASSUME ClientAssumption ==
    /\ ClientRun \in Runs
    /\ ClientPipeline \in Pipelines \ {None}
    /\ Alone \in BOOLEAN

VARIABLE client  \* the local state of the client

sdkVars == <<vars, client>>

ClientPhases ==
    {"idle", "genesis", "report", "manifest", "prove", "proving", "proofReport",
     "evidence", "verifyEvidence", "verifyProofs", "returned", "thrown"}

ClientStates ==
    [pc : ClientPhases,
     report : Aggregates \cup {None}, manifest : Manifests \cup {None},
     proofReport : Reports \cup {None},
     proved : BOOLEAN,  \* generateDevelopmentProofs returned
     verifying : Manifests \cup {None}, genesisOk : BOOLEAN]

SdkTypeOK == TypeOK /\ client \in ClientStates

SdkInit ==
    /\ Init
    /\ client = [pc |-> "idle", report |-> None, manifest |-> None, proofReport |-> None,
                 proved |-> FALSE, verifying |-> None, genesisOk |-> FALSE]

Busy == client.pc \notin {"idle", "returned", "thrown"}

Step(pc, update) == client.pc = pc /\ client' = update

To(pc) == [client EXCEPT !.pc = pc]

-----------------------------------------------------------------------------
(* runGenesis. *)

CallGenesis ==
    /\ Alone => Quiet
    /\ Step("idle", To("genesis"))
    /\ Test(ClientRun)

\* Fault: a failure of the tool is let pass.
GenesisReturnsAnyhow ==
    /\ GenesisEnded(ClientRun)
    /\ Step("genesis", To("report"))
    /\ UNCHANGED vars

\* runNodeTool throws unless the exit status is 0.
GenesisReturns ==
    /\ GenesisEnded(ClientRun)
    /\ Step("genesis", To(IF genesis[ClientRun].pc = "passed" THEN "report" ELSE "thrown"))
    /\ UNCHANGED vars

\* The two files are read one after the other; if the first cannot be read the
\* second is not.
ReadReportFile ==
    /\ Step("report", [client EXCEPT !.report = aggregate,
                                     !.pc = IF aggregate # None THEN "manifest" ELSE "prove"])
    /\ UNCHANGED vars

ReadManifestFile ==
    /\ Step("manifest", [client EXCEPT !.manifest = manifest, !.pc = "prove"])
    /\ UNCHANGED vars

-----------------------------------------------------------------------------
(* generateDevelopmentProofs. *)

CallProve == Step("prove", To("proving")) /\ BeginPipeline(ClientPipeline)

\* Fault: a failure of the pipeline is let pass.
ProveReturnsAnyhow ==
    /\ PipelineEnded(ClientPipeline)
    /\ Step("proving", [client EXCEPT !.pc = "proofReport", !.proved = TRUE])
    /\ UNCHANGED vars

\* Fault: only a pipeline that succeeds is waited for.
ProveReturnsOnSuccess ==
    /\ pipeline[ClientPipeline].pc = "done"
    /\ Step("proving", [client EXCEPT !.pc = "proofReport", !.proved = TRUE])
    /\ UNCHANGED vars

\* The example catches the error of a pipeline that failed and goes on.
ProveReturns ==
    /\ PipelineEnded(ClientPipeline)
    /\ Step("proving", IF pipeline[ClientPipeline].pc = "done"
                       THEN [client EXCEPT !.pc = "proofReport", !.proved = TRUE]
                       ELSE To("evidence"))
    /\ UNCHANGED vars

ReadProofReport ==
    /\ Step("proofReport", [client EXCEPT !.proofReport = report, !.pc = "evidence"])
    /\ UNCHANGED vars

-----------------------------------------------------------------------------
(* verifyEvidence.  Of verify-evidence.mjs only its first and its last read   *)
(* are told apart; VerifyEvidence has the others.                             *)

CallEvidence ==
    /\ Step("evidence", [client EXCEPT !.pc = "verifyEvidence", !.verifying = manifest])
    /\ UNCHANGED vars

\* The second tool is run whether the first passed or not.
GenesisVerified ==
    LET m == client.verifying
    IN  /\ Step("verifyEvidence",
                [client EXCEPT
                   !.pc = "verifyProofs",
                   !.genesisOk = /\ m # None
                                 /\ aggregate = [kind |-> "aggregate", run |-> m.run,
                                                 passed |-> TRUE]
                                 /\ m.sources = source])
        /\ UNCHANGED vars

ProofsVerify == client.pc = "verifyProofs" /\ Verification /\ UNCHANGED client

EvidenceReturns ==
    /\ verifier.pc \in {"pass", "fail"}
    /\ Step("verifyProofs", To(IF client.genesisOk /\ Passed THEN "returned" ELSE "thrown"))
    /\ UNCHANGED vars

ClientWork ==
    \/ GenesisReturns \/ ReadReportFile \/ ReadManifestFile
    \/ CallProve \/ ProveReturns \/ ReadProofReport
    \/ CallEvidence \/ GenesisVerified \/ ProofsVerify \/ EvidenceReturns

\* The tools the client has started.
ToolWork ==
    /\ \/ \E g \in {ClientRun, ClientPipeline} : GenesisMove(g)
       \/ PipelineMove(ClientPipeline)
    /\ UNCHANGED client

Others ==
    /\ Alone => ~ Busy
    /\ \/ \E g \in Runs \ {ClientRun} : Test(g)
       \/ \E g \in Runners \ {ClientRun, ClientPipeline} : GenesisMove(g)
       \/ \E p \in Pipelines \ {ClientPipeline} : BeginPipeline(p) \/ PipelineMove(p)
       \/ \E c \in Circuits : Edit(c)
    /\ UNCHANGED client

SdkNext == CallGenesis \/ ClientWork \/ ToolWork \/ Others

SdkSpec == SdkInit /\ [][SdkNext]_sdkVars

\* The client and the tools it waits for are scheduled.
SdkFairness == WF_sdkVars(ClientWork) /\ WF_sdkVars(ToolWork)

FairSdkSpec == SdkSpec /\ SdkFairness

-----------------------------------------------------------------------------

\* The report and the manifest that runGenesis returns are of the run it made,
\* which passed.
ResultIsOfTheCall ==
    \A file \in {client.report, client.manifest} :
      file # None => file.run = ClientRun /\ file.passed

\* When generateDevelopmentProofs and then verifyEvidence return, the proofs
\* verified are those just made, of the circuits in the tree unless these were
\* edited since, and the Genesis evidence verified is the one they were made with.
VerifiedWhatWasProved ==
    client.pc = "returned" /\ client.proved =>
      /\ Accepted = client.proofReport
      /\ Accepted.by = ClientPipeline
      /\ Accepted.genesis = client.verifying
      /\ \A c \in Circuits \ edited[ClientPipeline] :
           verifier.read[c].vkey.circuit = source[c]

-----------------------------------------------------------------------------
(* Why it holds: the inductive invariant, when the client is alone. *)

\* While the client is busy no one else is, and the run it began ends before it
\* reads what the run wrote.
ClientIsAlone ==
    /\ GenesisActive(ClientRun) => client.pc = "genesis"
    /\ Busy => /\ \A g \in Runners \ {ClientRun, ClientPipeline} : ~ GenesisActive(g)
               /\ \A p \in Pipelines \ {ClientPipeline} : ~ PipelineActive(p)

\* What the run of the client has written is still there when the client reads it.
RunOfTheClient ==
    LET m == genesis[ClientRun]
        written(file) == file # None /\ file.run = ClientRun /\ file.passed = m.passed
    IN  /\ client.pc = "genesis" =>
             /\ m.pc = "manifest" => written(aggregate)
             /\ m.pc = "passed" => m.passed /\ written(aggregate) /\ written(manifest)
        /\ client.pc \in {"report", "manifest"} =>
             m.passed /\ written(aggregate) /\ written(manifest)

\* So is what its pipeline has, and what the verifications that follow read.
PipelineOfTheClient ==
    LET m == pipeline[ClientPipeline]
    IN  /\ client.pc \in {"idle", "genesis", "report", "manifest", "prove"} => m.pc = "idle"
        /\ client.pc # "idle" /\ client.pc # "proving" => ~ PipelineActive(ClientPipeline)
        /\ client.pc = "proofReport" => client.proved
        /\ client.proved => m.pc = "done"
        /\ Busy /\ m.pc \in {"write", "done"} => manifest = m.genesis
        /\ Busy /\ m.pc = "done" => owner = ClientPipeline
        /\ client.proved /\ client.pc \in {"evidence", "verifyEvidence", "verifyProofs"} =>
             client.proofReport = report
        /\ client.proved /\ client.pc \in {"verifyEvidence", "verifyProofs"} =>
             client.verifying = manifest
        /\ client.pc \notin {"verifyProofs", "returned", "thrown"} => verifier.pc = "idle"
        /\ /\ client.proved /\ client.pc = "verifyProofs"
           /\ verifier.pc \notin {"idle", "report", "fail"}
           => verifier.report = report
        /\ client.proved /\ client.pc = "returned" =>
             /\ Passed
             /\ Accepted = client.proofReport
             /\ Accepted.by = ClientPipeline
             /\ Accepted.genesis = client.verifying

SdkInv ==
    /\ SdkTypeOK
    /\ ClientIsAlone
    /\ RunOfTheClient
    /\ PipelineOfTheClient
    /\ ResultIsOfTheCall

-----------------------------------------------------------------------------

\* Whatever fails, the calls of the client come to an end.
CallsEnd == Busy ~> ~ Busy

=============================================================================
