----------------------------- MODULE ProofPipeline -----------------------------
(***************************************************************************)
(* tools/prove.mjs: a process that runs Genesis, clears the old proofs,    *)
(* makes the powers of tau, and then, circuit by circuit, makes keys and a *)
(* proof, verifies it, checks that changed signals are refused, and        *)
(* records the digests of all it finds on the disk; last, the report.      *)
(*                                                                         *)
(* Every command is a step.  A command that fails ends the process, but    *)
(* for the one that is meant to fail.                                      *)
(***************************************************************************)
EXTENDS ProofEvidence

VARIABLES
    tau,       \* the pipeline that made the powers of tau on the disk
    zkey,      \* the proving key of each circuit
    pipeline,  \* the local state of each process
    owner      \* history: the pipeline that last began to clear the old proofs

workVars == <<tau, zkey>>
pipelineVars == <<workVars, pipeline, owner>>

PipelinePhases ==
    {"idle", "genesis", "clear", "ceremony", "info", "setup", "verifyKey", "export",
     "prove", "verify", "tamper", "reject", "bind", "bindManifest", "write", "done", "dead"}

PipelineStates ==
    [pc : PipelinePhases, at : Circuits,
     metrics : Versions \cup {NotBuilt},  \* r1cs info, of the circuit at hand
     cases : [Circuits -> CaseReports \cup {None}],
     genesis : Manifests \cup {None},
     reason : [Circuits -> OutcomesSeen]]  \* history

PipelineTypeOK ==
    /\ tau \in Pipelines \cup {None}
    /\ zkey \in [Circuits -> Keys \cup {None}]
    /\ pipeline \in [Pipelines -> PipelineStates]
    /\ owner \in Pipelines \cup {None}

Idle(pc) ==
    [pc |-> pc, at |-> 1, metrics |-> NotBuilt,
     cases |-> [c \in Circuits |-> None], genesis |-> None,
     reason |-> [c \in Circuits |-> "none"]]

PipelineInit ==
    /\ tau = None
    /\ zkey = [c \in Circuits |-> None]
    /\ pipeline = [p \in Pipelines |-> Idle("idle")]
    /\ owner = None

PipelineEnded(p) == pipeline[p].pc \in {"done", "dead"}
PipelineActive(p) == pipeline[p].pc # "idle" /\ ~ PipelineEnded(p)

-----------------------------------------------------------------------------

\* The circuit pipeline p is at, when it is in phase pc.
At(p, pc, c) == pipeline[p].pc = pc /\ c = pipeline[p].at

Go(p, pc) == pipeline' = [pipeline EXCEPT ![p].pc = pc]

\* What a phase needs; without it the command fails and the process throws.
Ready(p) ==
    LET c == pipeline[p].at
        pc == pipeline[p].pc
    IN  /\ pc = "genesis" => genesis[p].pc = "passed"
        /\ pc \in {"info", "setup", "tamper", "bind"} => r1cs[c] # NotBuilt
        /\ pc = "setup" => tau # None
        /\ pc = "verifyKey" => /\ zkey[c] # None
                               /\ zkey[c].circuit = r1cs[c]
                               /\ zkey[c].tau = tau
        /\ pc \in {"export", "prove", "bind"} => zkey[c] # None
        /\ pc \in {"prove", "bind"} => witness[c] # NotBuilt
        /\ pc = "verify" => Verified(c) = "OK"
        /\ pc = "tamper" => artifact[c].public # None
        /\ pc = "reject" => TamperedVerified(c) # "OK"
        /\ pc = "bind" => \A k \in Kinds : artifact[c][k] # None
        /\ pc = "bindManifest" => manifest # None

\* Fault: what an earlier run built is used again.
BeginWithTheBuilt(p) ==
    /\ pipeline[p].pc = "idle"
    /\ IF \A c \in Circuits : witness[c] # NotBuilt
       THEN Go(p, "clear") /\ UNCHANGED genesis
       ELSE Go(p, "genesis") /\ genesis' = [genesis EXCEPT ![p].pc = "clear"]
    /\ UNCHANGED <<source, artifactVars, genesisFiles, evidenceVars, workVars, owner>>

\* It starts tools/run-genesis.mjs and waits for it.
Begin(p) ==
    /\ pipeline[p].pc = "idle"
    /\ Go(p, "genesis")
    /\ genesis' = [genesis EXCEPT ![p].pc = "clear"]
    /\ UNCHANGED <<source, artifactVars, genesisFiles, evidenceVars, workVars, owner>>

\* When the run has passed, the keys of the last pipeline are removed.
AwaitGenesis(p) ==
    /\ pipeline[p].pc = "genesis"
    /\ Ready(p)
    /\ Go(p, "clear")
    /\ tau' = None
    /\ zkey' = [c \in Circuits |-> None]
    /\ UNCHANGED <<genesisVars, evidenceVars, owner>>

\* rmSync of the public evidence, file by file.
RemoveEvidence(p) ==
    /\ pipeline[p].pc = "clear"
    /\ owner' = p
    /\ \/ report # None /\ report' = None /\ UNCHANGED artifact
       \/ /\ \E c \in Circuits, k \in Kinds :
                /\ artifact[c][k] # None
                /\ artifact' = [artifact EXCEPT ![c][k] = None]
          /\ UNCHANGED report
    /\ UNCHANGED <<genesisVars, workVars, pipeline>>

\* Fault: what is there is left to be written over.
EvidenceLeft(p) ==
    /\ pipeline[p].pc = "clear"
    /\ owner' = p
    /\ Go(p, "ceremony")
    /\ UNCHANGED <<genesisVars, evidenceVars, workVars>>

EvidenceRemoved(p) ==
    /\ pipeline[p].pc = "clear"
    /\ report = None
    /\ artifact = [c \in Circuits |-> NoArtifacts]
    /\ owner' = p
    /\ Go(p, "ceremony")
    /\ UNCHANGED <<genesisVars, evidenceVars, workVars>>

Ceremony(p) ==
    /\ pipeline[p].pc = "ceremony"
    /\ tau' = p
    /\ Go(p, "info")
    /\ UNCHANGED <<genesisVars, evidenceVars, zkey, owner>>

ReadInfo(p) ==
    /\ pipeline[p].pc = "info"
    /\ Ready(p)
    /\ pipeline' = [pipeline EXCEPT ![p].pc = "setup",
                                    ![p].metrics = r1cs[pipeline[p].at]]
    /\ UNCHANGED <<genesisVars, evidenceVars, workVars, owner>>

\* groth16 setup and zkey contribute.
Setup(p) ==
    \E c \in Circuits :
      /\ At(p, "setup", c)
      /\ Ready(p)
      /\ zkey' = [zkey EXCEPT ![c] =
                    [kind |-> "key", by |-> p, circuit |-> r1cs[c], tau |-> tau]]
      /\ Go(p, "verifyKey")
      /\ UNCHANGED <<genesisVars, evidenceVars, tau, owner>>

VerifyKey(p) ==
    /\ pipeline[p].pc = "verifyKey"
    /\ Ready(p)
    /\ Go(p, "export")
    /\ UNCHANGED <<genesisVars, evidenceVars, workVars, owner>>

ExportKey(p) ==
    \E c \in Circuits :
      /\ At(p, "export", c)
      /\ Ready(p)
      /\ artifact' = [artifact EXCEPT ![c]["vkey"] = zkey[c]]
      /\ Go(p, "prove")
      /\ UNCHANGED <<genesisVars, report, workVars, owner>>

Prove(p) ==
    \E c \in Circuits :
      /\ At(p, "prove", c)
      /\ Ready(p)
      /\ artifact' = [artifact EXCEPT
           ![c]["proof"] = [kind |-> "proof", by |-> p, key |-> zkey[c],
                            witness |-> witness[c]],
           ![c]["public"] = PublicSignals(witness[c])]
      /\ Go(p, "verify")
      /\ UNCHANGED <<genesisVars, report, workVars, owner>>

Verify(p) ==
    /\ pipeline[p].pc = "verify"
    /\ Ready(p)
    /\ Go(p, "tamper")
    /\ UNCHANGED <<genesisVars, evidenceVars, workVars, owner>>

\* One limb of the public signals found on the disk is changed.
Tamper(p) ==
    \E c \in Circuits :
      /\ At(p, "tamper", c)
      /\ Ready(p)
      /\ artifact' = [artifact EXCEPT ![c]["tampered"] = Mutate(artifact[c].public)]
      /\ Go(p, "reject")
      /\ UNCHANGED <<genesisVars, report, workVars, owner>>

\* Anything but an OK counts as a rejection, a crash as well: this command, and
\* no other, may fail.
Reject(p) ==
    \E c \in Circuits : \E ending \in Endings(TamperedVerified(c)) \ {"OK"} :
      /\ At(p, "reject", c)
      /\ pipeline' = [pipeline EXCEPT ![p].pc = "bind", ![p].reason[c] = ending]
      /\ UNCHANGED <<genesisVars, evidenceVars, workVars, owner>>

\* Fault: the two files of signals are bound in each other's place.
CaseReportSwapped(p, c) ==
    [metrics |-> pipeline[p].metrics, r1cs |-> r1cs[c], witness |-> witness[c],
     vkey |-> artifact[c].vkey, proof |-> artifact[c].proof,
     public |-> artifact[c].tampered, tampered |-> artifact[c].public]

CaseReport(p, c) ==
    [metrics |-> pipeline[p].metrics, r1cs |-> r1cs[c], witness |-> witness[c],
     vkey |-> artifact[c].vkey, proof |-> artifact[c].proof,
     public |-> artifact[c].public, tampered |-> artifact[c].tampered]

\* artifactEvidence: the digests of what is on the disk now.
Bind(p) ==
    \E c \in Circuits :
      /\ At(p, "bind", c)
      /\ Ready(p)
      /\ pipeline' = [pipeline EXCEPT ![p] =
           NextCircuit([pipeline[p] EXCEPT !.cases[c] = CaseReport(p, c)],
                       "info", "bindManifest")]
      /\ UNCHANGED <<genesisVars, evidenceVars, workVars, owner>>

BindManifest(p) ==
    /\ pipeline[p].pc = "bindManifest"
    /\ Ready(p)
    /\ pipeline' = [pipeline EXCEPT ![p].pc = "write", ![p].genesis = manifest]
    /\ UNCHANGED <<genesisVars, evidenceVars, workVars, owner>>

Report(p) ==
    [kind |-> "report", by |-> p, cases |-> pipeline[p].cases,
     genesis |-> pipeline[p].genesis]

WriteReport(p) ==
    /\ pipeline[p].pc = "write"
    /\ report' = Report(p)
    /\ Go(p, "done")
    /\ UNCHANGED <<genesisVars, artifact, workVars, owner>>

\* The process ends before its end; the run it started goes on.
PipelineDie(p) ==
    /\ pipeline' = [pipeline EXCEPT ![p] = Idle("dead")]
    /\ UNCHANGED <<genesisVars, evidenceVars, workVars, owner>>

\* The command that comes next fails.
PipelineThrow(p) ==
    /\ ~ Ready(p)
    /\ pipeline[p].pc = "genesis" => GenesisEnded(p)
    /\ PipelineDie(p)

PipelineKill(p) == Kills /\ PipelineActive(p) /\ PipelineDie(p)

PipelineWork(p) ==
    \/ AwaitGenesis(p) \/ RemoveEvidence(p) \/ EvidenceRemoved(p) \/ Ceremony(p)
    \/ ReadInfo(p) \/ Setup(p) \/ VerifyKey(p) \/ ExportKey(p) \/ Prove(p) \/ Verify(p)
    \/ Tamper(p) \/ Reject(p) \/ Bind(p) \/ BindManifest(p) \/ WriteReport(p)
    \/ PipelineThrow(p)

=============================================================================
