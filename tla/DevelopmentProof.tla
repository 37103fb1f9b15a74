---------------------------- MODULE DevelopmentProof ---------------------------
(***************************************************************************)
(* The development proofs as the repository's commands use them: pipelines *)
(* (just prove), runs of Genesis (just test), a verification of the proofs *)
(* (just evidence) and a developer's edits of the circuits, over one       *)
(* working tree.  What a verification that passes can be relied on for.    *)
(***************************************************************************)
EXTENDS ProofPipeline, VerifyProofs

CONSTANTS
    Edits,                 \* <<v, w>>: an edit may turn version v into version w
    Exclusive,             \* TRUE: no pipeline starts while another is under way
    EditsDuringWork,       \* FALSE: circuits are edited only while nothing runs
    CheckDuringPipelines   \* FALSE: no verification starts while a pipeline runs

ASSUME ProofScheduleAssumption ==
    /\ Edits \in SUBSET (Versions \X Versions)
    /\ Exclusive \in BOOLEAN
    /\ EditsDuringWork \in BOOLEAN
    /\ CheckDuringPipelines \in BOOLEAN

VARIABLES
    edited,  \* history: the circuits edited since each run or pipeline began
    calm     \* history: nothing has happened since the verification began

vars == <<genesisVars, evidenceVars, pipelineVars, verifier, edited, calm>>

\* The types of the files and of what each process has in memory.
TypeOK ==
    /\ GenesisTypeOK /\ EvidenceTypeOK /\ PipelineTypeOK /\ VerifierTypeOK
    /\ edited \in [Runners -> SUBSET Circuits]
    /\ calm \in BOOLEAN

Init ==
    /\ GenesisInit /\ EvidenceInit /\ PipelineInit /\ VerifierInit
    /\ edited = [g \in Runners |-> {}]
    /\ calm = FALSE

-----------------------------------------------------------------------------

\* A step of another process than the verification, which it may disturb.
Beside(step) == step /\ calm' = FALSE /\ UNCHANGED verifier

GenesisMove(g) ==
    Beside(GenesisStep(g)) /\ UNCHANGED <<evidenceVars, pipelineVars, edited>>

Test(g) ==
    /\ genesis[g].pc = "idle"
    /\ genesis' = [genesis EXCEPT ![g].pc = "clear"]
    /\ Beside(UNCHANGED <<source, artifactVars, genesisFiles>>)
    /\ edited' = [edited EXCEPT ![g] = {}]
    /\ UNCHANGED <<evidenceVars, pipelineVars>>

BeginPipeline(p) ==
    /\ Exclusive => \A q \in Pipelines : ~ PipelineActive(q)
    /\ Beside(Begin(p))
    /\ edited' = [edited EXCEPT ![p] = {}]

PipelineMove(p) == Beside(PipelineWork(p) \/ PipelineKill(p)) /\ UNCHANGED edited

Quiet ==
    /\ \A g \in Runners : ~ GenesisActive(g)
    /\ \A p \in Pipelines : ~ PipelineActive(p)

Edit(c) ==
    /\ EditsDuringWork \/ Quiet
    /\ \E v \in Versions : /\ <<source[c], v>> \in Edits
                          /\ source' = [source EXCEPT ![c] = v]
    /\ edited' = [g \in Runners |-> edited[g] \cup {c}]
    /\ Beside(UNCHANGED <<artifactVars, genesisFiles, genesis>>)
    /\ UNCHANGED <<evidenceVars, pipelineVars>>

Verification ==
    /\ VerifyStep
    /\ verifier.pc = "idle" => \/ CheckDuringPipelines
                               \/ \A p \in Pipelines : ~ PipelineActive(p)
    /\ calm' = (calm \/ verifier.pc = "idle")
    /\ UNCHANGED <<genesisVars, evidenceVars, pipelineVars, edited>>

Next ==
    \/ \E g \in Runs : Test(g)
    \/ \E g \in Runners : GenesisMove(g)
    \/ \E p \in Pipelines : BeginPipeline(p) \/ PipelineMove(p)
    \/ \E c \in Circuits : Edit(c)
    \/ Verification

Spec == Init /\ [][Next]_vars

-----------------------------------------------------------------------------
(* Why it holds: the inductive invariant, when pipelines exclude each other. *)

\* A key of pipeline p, from its own powers of tau, for the circuit in the tree
\* unless that was edited since p began.
KeyOf(p, c, key) ==
    /\ key \in Keys
    /\ key.by = p
    /\ key.tau = p
    /\ c \notin edited[p] => key.circuit = source[c]

ProofOf(p, f) ==
    /\ f.proof \in Proofs
    /\ f.proof.by = p
    /\ f.proof.key = f.vkey
    /\ f.public = PublicSignals(f.proof.witness)

\* The four files f of circuit c are one piece, made by pipeline p.
PieceOf(p, c, f) ==
    /\ KeyOf(p, c, f.vkey)
    /\ ProofOf(p, f)
    /\ f.proof.witness = f.vkey.circuit
    /\ f.tampered = Mutate(f.public)

\* What pipeline p records of circuit c: the piece, what the key was made for,
\* and that the changed signals were refused, or snarkjs did not come to an answer.
RecordOf(p, c, f, outcome) ==
    /\ f \in CaseReports
    /\ PieceOf(p, c, f)
    /\ c \notin edited[p] => f.r1cs = source[c] /\ f.metrics = source[c]
    /\ outcome \in Endings("invalid")

\* A manifest, of a run that has begun, names the sources in the tree but for
\* those edited since.
NamesTheSources(mf) ==
    mf # None =>
      /\ genesis[mf.run].pc # "idle"
      /\ \A c \in Circuits \ edited[mf.run] : mf.sources[c] = source[c]

AfterGenesis == PipelinePhases \ {"idle", "genesis", "dead"}
AfterClear == AfterGenesis \ {"clear", "done"}
WithKey == {"verifyKey", "export", "prove", "verify", "tamper", "reject", "bind"}
WithVkey == WithKey \ {"verifyKey", "export"}
WithProof == WithVkey \ {"prove"}
WithOutcome == WithProof \ {"verify"}

\* At most one pipeline is under way.
OneAtATime ==
    \A p, q \in Pipelines : PipelineActive(p) /\ PipelineActive(q) => p = q

Bound(m, i) == i < m.at \/ m.pc \in {"bindManifest", "write", "done"}

\* What pipeline p, with m in its memory, has made of circuit c, at which it is.
CaseProgress(p, c, m) ==
    /\ m.metrics \in Versions
    /\ c \notin edited[p] => m.metrics = source[c]
    /\ m.pc \in WithKey => KeyOf(p, c, zkey[c])
    /\ m.pc \in WithVkey => artifact[c].vkey = zkey[c]
    /\ m.pc \in WithProof => ProofOf(p, artifact[c])
    /\ m.pc \in WithOutcome => artifact[c].proof.witness = artifact[c].vkey.circuit
    /\ m.pc \in {"reject", "bind"} => artifact[c].tampered = Mutate(artifact[c].public)
    /\ m.pc = "bind" => m.reason[c] \in Endings("invalid")

\* What pipeline p has made so far.
Progress(p, m) ==
    /\ m.pc = "idle" => genesis[p].pc = "idle"
    /\ m.pc \in AfterGenesis => genesis[p].pc = "passed"
    /\ m.pc \in AfterClear => owner = p /\ report = None
    /\ m.pc \in AfterClear \ {"ceremony"} => tau = p
    /\ m.pc \in {"setup"} \cup WithKey => CaseProgress(p, m.at, m)
    /\ m.pc \in AfterGenesis =>
         \A i \in Circuits : Bound(m, i) => RecordOf(p, i, m.cases[i], m.reason[i])
    /\ m.pc \in {"idle", "genesis", "clear", "ceremony"} => m.at = 1
    /\ m.pc \in {"write", "done"} =>
         m.genesis \in Manifests /\ NamesTheSources(m.genesis)

PipelinesProgress == \A p \in Pipelines : Progress(p, pipeline[p])

\* Once the run of a pipeline has cleared the artifacts, they are of the tree.
Rebuilt == {"build", "execute", "hash", "aggregate", "manifest", "passed", "failed"}

ArtifactsAreFresh ==
    \A p \in Pipelines : genesis[p].pc \in Rebuilt =>
      \A c \in Circuits \ edited[p] : r1cs[c] \in {NotBuilt, source[c]}

SourcesAreNamed ==
    /\ NamesTheSources(manifest)
    /\ \A g \in Runners : genesis[g].pc \in {"aggregate", "manifest"} =>
         \A c \in Circuits \ edited[g] : genesis[g].hashed[c] = source[c]

\* A report is the one its pipeline wrote last.
OfItsPipeline(r) == r # None => pipeline[r.by].pc = "done" /\ r = Report(r.by)

\* The report of an earlier pipeline has lost files.
OldReportIsBroken ==
    report # None /\ report.by # owner =>
      \E c \in Circuits, k \in Kinds : artifact[c][k] = None

Compared(v, c, k) ==
    \/ v.pc = "pass"
    \/ v.pc \notin {"idle", "report", "fail"} /\ c < v.at
    \/ v.pc \in {"signals", "valid", "tampered"} /\ c = v.at
    \/ v.pc = "artifact" /\ c = v.at /\ \E i \in 1..(v.kind - 1) : k = KindOrder[i]

\* What the verification, v, has read is what its report names.
FollowsReport(v) ==
    /\ v.pc \in {"idle", "report"} => v.at = 1
    /\ v.pc # "artifact" => v.kind = 1
    /\ v.pc \notin {"idle", "report", "fail"} => v.report # None /\ OfItsPipeline(v.report)
    /\ \A c \in Circuits, k \in Kinds : Compared(v, c, k) => v.read[c][k] = v.report.cases[c][k]
    /\ calm /\ v.pc \notin {"idle", "report", "fail"} =>
         \A c \in Circuits : v.pc = "pass" \/ c < v.at => v.reason[c] \in Endings("invalid")
    /\ calm /\ v.pc \notin {"idle", "fail"} =>
         /\ \A c \in Circuits, k \in Kinds : artifact[c][k] # None
         /\ v.pc # "report" => v.report = report

\* The whole: a pipeline writes its report last, from pieces it made itself,
\* and a verification accepts only the files the report names.
ProofInv ==
    /\ TypeOK
    /\ OneAtATime
    /\ PipelinesProgress
    /\ ArtifactsAreFresh
    /\ SourcesAreNamed
    /\ OfItsPipeline(report)
    /\ OldReportIsBroken
    /\ FollowsReport(verifier)

\* What the pipeline that cleared the old proofs last has recorded so far is on
\* the disk, and when it has ended, its report.
OwnerHolds ==
    owner # None =>
      LET m == pipeline[owner]
      IN  /\ m.pc \in AfterClear \cup {"done"} =>
               \A c \in Circuits, k \in Kinds :
                 Bound(m, c) => artifact[c][k] = m.cases[c][k]
          /\ m.pc = "done" => report = Report(owner)

-----------------------------------------------------------------------------
(* What a verification that passes shows. *)

Passed == verifier.pc = "pass"
Accepted == verifier.report

\* The files accepted were made by the pipeline that wrote the accepted report,
\* from its own powers of tau, and are one piece: each proof holds under its
\* verification key for its public signals.  However the processes before it
\* died, files of two ceremonies are never accepted together.
AcceptedOfOneCeremony ==
    Passed =>
      /\ pipeline[Accepted.by].pc = "done"
      /\ \A c \in Circuits :
           LET f == verifier.read[c]
           IN  /\ {f.vkey.by, f.vkey.tau, f.proof.by} = {Accepted.by}
               /\ Outcome(f.vkey, f.public, f.proof) = "OK"
               /\ f.tampered = Mutate(f.public)

\* The circuit the report records is the circuit the key was made for, unless
\* it was edited while the pipeline ran: just test may have rebuilt it then.
RecordedCircuitWasProved ==
    Passed => \A c \in Circuits \ edited[Accepted.by] :
      LET r == Accepted.cases[c]
      IN  r.r1cs = r.vkey.circuit /\ r.metrics = r.vkey.circuit

\* The Genesis evidence the report records, though it may be of another run than
\* the pipeline's own, is about the circuits that were proved: those not edited
\* since the run and the pipeline began.
RecordedGenesisIsAboutIt ==
    Passed => \A c \in Circuits \ (edited[Accepted.by] \cup edited[Accepted.genesis.run]) :
      Accepted.genesis.sources[c] = Accepted.cases[c].vkey.circuit

\* A proof goes stale only by an edit: of a circuit no one has edited since
\* its pipeline began, the version proved is the one in the tree.
ProofsGoStaleByEdits ==
    Passed => \A c \in Circuits \ edited[Accepted.by] :
                verifier.read[c].vkey.circuit = source[c]

\* Once a pipeline has begun to clear the old proofs, they are not accepted
\* again, not even when it dies at its next step.
NoStaleProofs == Passed /\ calm => Accepted.by = owner

\* The tools take any failure of snarkjs for a rejection of the changed signals
\* (tools/prove.mjs:232, tools/verify-proofs.mjs:148).  What is accepted is right
\* all the same: the proof does not hold for them.  And unless snarkjs crashed,
\* that is what it said, never for want of a file: when the report was made and,
\* if no one disturbed the verification, when it was accepted.
RejectionIsDue ==
    Passed => \A c \in Circuits :
      LET f == verifier.read[c]
      IN  /\ Outcome(f.vkey, f.tampered, f.proof) = "invalid"
          /\ pipeline[Accepted.by].reason[c] \in Endings("invalid")
          /\ calm => verifier.reason[c] \in Endings("invalid")

\* What both tools say of it: no proof is reported to be refused for another
\* reason than that it does not hold.
RejectedForTheReason ==
    Passed => \A c \in Circuits :
      /\ pipeline[Accepted.by].reason[c] = "invalid"
      /\ verifier.reason[c] = "invalid"

\* The pipeline that cleared the old proofs last has ended, and the circuits it
\* found had the frozen metrics.
Stands ==
    /\ owner # None
    /\ pipeline[owner].pc = "done"
    /\ \A c \in Circuits : <<c, pipeline[owner].cases[c].metrics>> \in Profile

\* Undisturbed, the verifier accepts what a pipeline that ended left, as long
\* as the circuits had the frozen metrics and snarkjs does not crash on a proof.
NoFalseRefusal ==
    verifier.pc = "fail" /\ calm /\ Stands => \E c \in Circuits : verifier.reason[c] = "crash"

=============================================================================
