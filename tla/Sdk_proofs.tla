------------------------------- MODULE Sdk_proofs ------------------------------
(***************************************************************************)
(* Proofs about DevelopmentProof and Sdk, for any number of pipelines,     *)
(* runs, circuits and versions, killed at any step.  Edited at any moment, *)
(* as long as pipelines exclude each other, ProofInv is inductive, and     *)
(* with it a verification that passes has accepted the proofs of one       *)
(* ceremony.  A client of the SDK only adds calls to what the commands do, *)
(* and as long as it is alone while it works it returns what its own calls *)
(* made and verified.                                                      *)
(***************************************************************************)
EXTENDS Sdk, TLAPS

-----------------------------------------------------------------------------
(* Runs of Genesis. *)

LEMMA NextCircuitOfRun ==
    ASSUME NEW m \in GenesisStates, NEW pc \in GenesisPhases, NEW after \in GenesisPhases
    PROVE  LET n == NextCircuit(m, pc, after)
           IN  n \in GenesisStates /\ n.pc \in {pc, after}
<1>1. m.at < NCircuits => m.at + 1 \in Circuits
  <2>1. m.at \in 1..NCircuits
    BY DEF GenesisStates, Circuits
  <2> QED BY <2>1, GenesisAssumption DEF Circuits
<1>2. 1 \in Circuits
  BY GenesisAssumption DEF Circuits
<1>3. CASE m.at < NCircuits
  <2> DEFINE next == m.at + 1
  <2>1. next \in Circuits
    BY <1>1, <1>3
  <2>2. NextCircuit(m, pc, after) = [m EXCEPT !.pc = pc, !.at = next]
    BY <1>3 DEF NextCircuit
  <2> HIDE DEF next
  <2> QED BY <2>1, <2>2 DEF GenesisStates
<1>4. CASE ~ (m.at < NCircuits)
  BY <1>2, <1>4 DEF NextCircuit, GenesisStates
<1> QED BY <1>3, <1>4

\* A step of run g leaves the sources alone and moves only g, which was under
\* way; what it compiles is of the tree, and it has cleared the artifacts first.
LEMMA GenesisEffect ==
    ASSUME GenesisTypeOK, NEW g \in Runners, GenesisStep(g)
    PROVE  /\ GenesisTypeOK'
           /\ source' = source
           /\ genesis[g].pc \notin {"idle", "passed", "failed", "dead"}
           /\ \A h \in Runners \ {g} : genesis'[h] = genesis[h]
           /\ \/ \A c \in Circuits : r1cs'[c] = NotBuilt
              \/ /\ genesis'[g].pc \in Rebuilt => genesis[g].pc \in Rebuilt
                 /\ \A c \in Circuits : r1cs'[c] \in {r1cs[c], source[c]}
           /\ genesis'[g].pc # "idle"
           /\ \/ manifest' \in {None, manifest}
              \/ /\ genesis[g].pc = "manifest"
                 /\ manifest'.run = g /\ manifest'.sources = genesis[g].hashed
           /\ genesis'[g].pc \in {"aggregate", "manifest"} =>
                \/ genesis'[g].hashed = source
                \/ genesis[g].pc = "aggregate" /\ genesis'[g].hashed = genesis[g].hashed
<1> DEFINE m == genesis[g]
<1>0. m \in GenesisStates /\ m.at \in Circuits
  BY DEF GenesisTypeOK, GenesisStates
<1> USE DEF GenesisTypeOK
<1>1. CASE ClearReports(g)
  BY <1>1 DEF ClearReports, artifactVars
<1>2. CASE ClearArtifacts(g)
  <2>1. [m EXCEPT !.pc = "build"] \in GenesisStates
    BY <1>0 DEF GenesisStates, GenesisPhases
  <2> QED BY <1>2, <2>1 DEF ClearArtifacts, genesisFiles
<1>3. CASE Build(g)
  <2>1. LET n == NextCircuit(m, "build", "execute")
        IN  n \in GenesisStates /\ n.pc \in {"build", "execute"}
    BY <1>0, NextCircuitOfRun DEF GenesisPhases
  <2> QED BY <1>0, <1>3, <2>1 DEF Build, genesisFiles, Rebuilt
<1>4. CASE MakeWitness(g)
  <2> DEFINE k == [m EXCEPT !.passed = @ /\ <<m.at, r1cs[m.at]>> \in Right]
  <2>1. k \in GenesisStates
    BY <1>0 DEF GenesisStates
  <2>2. LET n == NextCircuit(k, "execute", "hash")
        IN  n \in GenesisStates /\ n.pc \in {"execute", "hash"}
    BY <2>1, NextCircuitOfRun DEF GenesisPhases
  <2> QED BY <1>0, <1>4, <2>2 DEF MakeWitness, genesisFiles, Rebuilt
<1>5. CASE HashSources(g)
  <2>1. [m EXCEPT !.pc = "aggregate", !.hashed = source] \in GenesisStates
    BY <1>0 DEF GenesisStates, GenesisPhases
  <2> QED BY <1>5, <2>1 DEF HashSources, artifactVars, genesisFiles, Rebuilt
<1>6. CASE WriteAggregate(g)
  <2>1. [m EXCEPT !.pc = "manifest"] \in GenesisStates
    BY <1>0 DEF GenesisStates, GenesisPhases
  <2>2. [kind |-> "aggregate", run |-> g, passed |-> m.passed] \in Aggregates
    BY <1>0 DEF Aggregates, GenesisStates
  <2> QED BY <1>6, <2>1, <2>2 DEF WriteAggregate, artifactVars, Rebuilt
<1>7. CASE WriteManifest(g)
  <2>1. \A pc \in GenesisPhases : [m EXCEPT !.pc = pc] \in GenesisStates
    BY <1>0 DEF GenesisStates
  <2>2. [kind |-> "manifest", run |-> g, passed |-> m.passed, sources |-> m.hashed]
          \in Manifests
    BY <1>0, <1>7 DEF WriteManifest, Manifests, GenesisStates
  <2>3. "passed" \in GenesisPhases /\ "failed" \in GenesisPhases
    BY DEF GenesisPhases
  <2> QED BY <1>0, <1>7, <2>1, <2>2, <2>3 DEF WriteManifest, artifactVars, Rebuilt, GenesisStates
<1>8. CASE GenesisThrow(g) \/ GenesisKill(g)
  <2>1. Fresh("dead") \in GenesisStates /\ Fresh("dead").pc = "dead"
    BY GenesisAssumption DEF Fresh, GenesisStates, GenesisPhases, Circuits
  <2>2. /\ genesis' = [genesis EXCEPT ![g] = Fresh("dead")]
        /\ UNCHANGED <<source, r1cs, witness, aggregate, manifest>>
        /\ m.pc \notin {"idle", "passed", "failed", "dead"}
    BY <1>8 DEF GenesisThrow, GenesisKill, GenesisDie, GenesisActive, GenesisEnded,
                artifactVars, genesisFiles
  <2> QED BY <2>1, <2>2 DEF Rebuilt
<1> QED BY <1>1, <1>2, <1>3, <1>4, <1>5, <1>6, <1>7, <1>8 DEF GenesisStep, GenesisWork
-----------------------------------------------------------------------------
(* What a process leaves alone stays as it was. *)

\* A pipeline that is not under way has nothing on the disk to hold on to.
LEMMA RestingProgress ==
    ASSUME NEW p \in Pipelines, NEW m, m.pc \in {"idle", "dead", "done"},
           Progress(p, m), edited'[p] = edited[p], source' = source,
           genesis[p].pc \in {"idle", "passed"} => genesis'[p].pc = genesis[p].pc,
           \A h \in Runners : genesis[h].pc # "idle" =>
             genesis'[h].pc # "idle" /\ edited'[h] = edited[h]
    PROVE  Progress(p, m)'
<1>1. m.pc = "done" => m.genesis \in Manifests /\ NamesTheSources(m.genesis)'
  BY DEF Progress, NamesTheSources, Manifests
<1> QED BY <1>1 DEF Progress, AfterGenesis, AfterClear, WithKey, WithVkey, WithProof, WithOutcome,
       PipelinePhases, Bound, RecordOf, PieceOf, KeyOf, ProofOf

\* A step of run g, or its start.
LEMMA RunPreserves ==
    ASSUME ProofInv, NEW g \in Runners, GenesisTypeOK',
           genesis[g].pc \notin {"passed", "failed"},
           g \in Pipelines => genesis[g].pc # "idle",
           \A h \in Runners \ {g} : genesis'[h] = genesis[h] /\ edited'[h] = edited[h],
           genesis'[g].pc # "idle",
           edited' \in [Runners -> SUBSET Circuits],
           genesis[g].pc # "idle" => edited'[g] = edited[g],
           \/ \A c \in Circuits : r1cs'[c] = NotBuilt
           \/ /\ genesis'[g].pc \in Rebuilt => genesis[g].pc \in Rebuilt
              /\ \A c \in Circuits : r1cs'[c] \in {r1cs[c], source[c]},
           SourcesAreNamed',
           UNCHANGED <<source, evidenceVars, pipelineVars, verifier>>,
           calm' = FALSE
    PROVE  ProofInv'
<1> USE DEF evidenceVars, pipelineVars, workVars
<1>1. TypeOK'
  BY DEF ProofInv, TypeOK, EvidenceTypeOK, PipelineTypeOK, VerifierTypeOK
<1>2. OneAtATime'
  BY DEF ProofInv, OneAtATime, PipelineActive, PipelineEnded
<1>3. /\ \A p \in Pipelines : /\ genesis[p].pc \in {"idle", "passed"} =>
                                   genesis'[p].pc = genesis[p].pc
                              /\ edited'[p] = edited[p]
      /\ \A h \in Runners : genesis[h].pc # "idle" =>
           genesis'[h].pc # "idle" /\ edited'[h] = edited[h]
  BY DEF Runners
<1>4. PipelinesProgress'
  <2>1. ASSUME NEW p \in Pipelines PROVE Progress(p, pipeline[p])'
    <3>1. Progress(p, pipeline[p])
      BY DEF ProofInv, PipelinesProgress
    <3>2. pipeline[p].pc \in {"write", "done"} => NamesTheSources(pipeline[p].genesis)'
      BY <1>3, <3>1 DEF Progress, NamesTheSources, Manifests
    <3>3. \A c \in Circuits :
            RecordOf(p, c, pipeline[p].cases[c], pipeline[p].reason[c]) =>
              RecordOf(p, c, pipeline[p].cases[c], pipeline[p].reason[c])'
      BY <1>3 DEF RecordOf, PieceOf, KeyOf, ProofOf
    <3>4. CaseProgress(p, pipeline[p].at, pipeline[p]) =>
            CaseProgress(p, pipeline[p].at, pipeline[p])'
      BY <1>3 DEF CaseProgress, KeyOf, ProofOf
    <3> QED BY <1>3, <3>1, <3>2, <3>3, <3>4 DEF Progress, Bound, AfterGenesis
  <2> QED BY <2>1 DEF PipelinesProgress
<1>5. ArtifactsAreFresh'
  <2>1. ASSUME NEW p \in Pipelines, genesis'[p].pc \in Rebuilt, NEW c \in Circuits \ edited[p]
        PROVE  r1cs'[c] \in {NotBuilt, source[c]}
    BY <2>1 DEF ProofInv, ArtifactsAreFresh, Runners
  <2> QED BY <1>3, <2>1 DEF ArtifactsAreFresh
<1>6. OfItsPipeline(report)' /\ OldReportIsBroken'
  BY DEF ProofInv, OfItsPipeline, Report, OldReportIsBroken
<1>7. FollowsReport(verifier)'
  BY DEF ProofInv, FollowsReport, OfItsPipeline, Report, Compared
<1> QED BY <1>1, <1>2, <1>4, <1>5, <1>6, <1>7 DEF ProofInv

LEMMA GenesisMovePreserves ==
    ASSUME ProofInv, NEW g \in Runners, GenesisMove(g)
    PROVE  ProofInv'
<1>1. GenesisTypeOK /\ GenesisStep(g) /\ SourcesAreNamed
      /\ edited \in [Runners -> SUBSET Circuits]
  BY DEF ProofInv, TypeOK, GenesisMove, Beside
<1>2. SourcesAreNamed'
  <2>1. UNCHANGED <<source, edited>> /\ genesis'[g].pc # "idle"
        /\ \A h \in Runners \ {g} : genesis'[h] = genesis[h]
    BY <1>1, GenesisEffect DEF GenesisMove
  <2>2. NamesTheSources(manifest)'
    <3>1. CASE manifest' \in {None, manifest}
      <4>1. manifest' # None => manifest' = manifest /\ manifest.run \in Runners
        BY <1>1, <3>1 DEF GenesisTypeOK, Manifests
      <4> QED BY <1>1, <2>1, <4>1 DEF SourcesAreNamed, NamesTheSources
    <3>2. CASE /\ genesis[g].pc = "manifest"
               /\ manifest'.run = g /\ manifest'.sources = genesis[g].hashed
      BY <1>1, <2>1, <3>2 DEF SourcesAreNamed, NamesTheSources
    <3> QED BY <1>1, <3>1, <3>2, GenesisEffect
  <2>3. ASSUME NEW h \in Runners, genesis'[h].pc \in {"aggregate", "manifest"},
               NEW c \in Circuits \ edited[h]
        PROVE  genesis'[h].hashed[c] = source[c]
    BY <1>1, <2>1, <2>3, GenesisEffect DEF SourcesAreNamed
  <2> QED BY <2>1, <2>2, <2>3 DEF SourcesAreNamed
<1> QED BY <1>1, <1>2, GenesisEffect, RunPreserves DEF GenesisMove, Beside

LEMMA TestPreserves ==
    ASSUME ProofInv, NEW g \in Runs, Test(g)
    PROVE  ProofInv'
<1>1. /\ g \in Runners /\ [genesis[g] EXCEPT !.pc = "clear"] \in GenesisStates
      /\ g \notin Pipelines
  BY GenesisAssumption DEF Runners, ProofInv, TypeOK, GenesisTypeOK, GenesisStates, GenesisPhases
<1>2. /\ GenesisTypeOK' /\ genesis[g].pc = "idle" /\ genesis'[g].pc = "clear"
      /\ \A h \in Runners \ {g} : genesis'[h] = genesis[h] /\ edited'[h] = edited[h]
      /\ edited' \in [Runners -> SUBSET Circuits]
      /\ UNCHANGED <<source, r1cs, manifest>>
  BY <1>1 DEF Test, Beside, ProofInv, TypeOK, GenesisTypeOK, artifactVars, genesisFiles,
              GenesisStates
<1>3. SourcesAreNamed'
  <2>1. manifest # None => manifest.run \in Runners
    BY DEF ProofInv, TypeOK, GenesisTypeOK, Manifests
  <2> QED BY <1>1, <1>2, <2>1 DEF ProofInv, SourcesAreNamed, NamesTheSources
<1> QED BY <1>1, <1>2, <1>3, RunPreserves DEF Test, Beside, Rebuilt

LEMMA EditPreserves ==
    ASSUME ProofInv, NEW e \in Circuits, Edit(e)
    PROVE  ProofInv'
<1> USE DEF Edit, Beside, evidenceVars, pipelineVars, workVars, artifactVars, genesisFiles
<1>1. TypeOK'
  <2>1. edited' \in [Runners -> SUBSET Circuits]
    BY DEF ProofInv, TypeOK
  <2>2. source' \in [Circuits -> Versions]
    BY DEF ProofInv, TypeOK, GenesisTypeOK
  <2>3. GenesisTypeOK'
    BY <2>2 DEF ProofInv, TypeOK, GenesisTypeOK
  <2>4. EvidenceTypeOK' /\ PipelineTypeOK' /\ VerifierTypeOK' /\ calm' \in BOOLEAN
    BY DEF ProofInv, TypeOK, EvidenceTypeOK, PipelineTypeOK, VerifierTypeOK
  <2> QED BY <2>1, <2>3, <2>4 DEF TypeOK
<1>2. OneAtATime'
  BY DEF ProofInv, OneAtATime, PipelineActive, PipelineEnded
<1>3. /\ Pipelines \subseteq Runners
      /\ \A g \in Runners, c \in Circuits : c \notin edited'[g] =>
           c \notin edited[g] /\ source'[c] = source[c]
  BY DEF ProofInv, TypeOK, GenesisTypeOK, Runners
<1>4. \A mf \in Manifests : NamesTheSources(mf) => NamesTheSources(mf)'
  BY <1>3 DEF NamesTheSources, Manifests
<1>5. PipelinesProgress'
  <2>1. ASSUME NEW p \in Pipelines PROVE Progress(p, pipeline[p])'
    <3>1. Progress(p, pipeline[p]) /\ pipeline[p].at \in Circuits
      BY DEF ProofInv, PipelinesProgress, TypeOK, PipelineTypeOK, PipelineStates
    <3>2. pipeline[p].pc \in {"write", "done"} => NamesTheSources(pipeline[p].genesis)'
      <4>1. pipeline'[p] = pipeline[p]
        OBVIOUS
      <4>2. pipeline[p].pc \in {"write", "done"} =>
              /\ pipeline[p].genesis \in Manifests
              /\ NamesTheSources(pipeline[p].genesis)
        BY <3>1 DEF Progress
      <4>3. ASSUME NEW mf \in Manifests, NamesTheSources(mf), pipeline[p].genesis = mf
            PROVE  NamesTheSources(pipeline[p].genesis)'
        <5>1. NamesTheSources(mf)'
          BY <1>4, <4>3
        <5> QED BY <4>1, <4>3, <5>1 DEF NamesTheSources
      <4> QED BY <4>2, <4>3
    <3>3. \A c \in Circuits :
            RecordOf(p, c, pipeline[p].cases[c], pipeline[p].reason[c]) =>
              RecordOf(p, c, pipeline[p].cases[c], pipeline[p].reason[c])'
      BY <1>3 DEF RecordOf, PieceOf, KeyOf, ProofOf
    <3>4. CaseProgress(p, pipeline[p].at, pipeline[p]) =>
            CaseProgress(p, pipeline[p].at, pipeline[p])'
      BY <1>3, <3>1 DEF CaseProgress, KeyOf, ProofOf
    <3> QED BY <3>1, <3>2, <3>3, <3>4 DEF Progress, Bound
  <2> QED BY <2>1 DEF PipelinesProgress
<1>6. ArtifactsAreFresh'
  BY <1>3 DEF ProofInv, ArtifactsAreFresh
<1>7. SourcesAreNamed'
  <2>1. manifest = None \/ manifest \in Manifests
    BY DEF ProofInv, TypeOK, GenesisTypeOK
  <2>2. NamesTheSources(manifest)'
    <3>1. CASE manifest = None
      BY <3>1 DEF NamesTheSources
    <3>2. CASE manifest \in Manifests
      <4>1. NamesTheSources(manifest) /\ manifest.run \in Runners
        BY <3>2 DEF ProofInv, SourcesAreNamed, Manifests
      <4> QED BY <1>3, <4>1 DEF NamesTheSources
    <3> QED BY <2>1, <3>1, <3>2
  <2> QED BY <1>3, <2>2 DEF ProofInv, SourcesAreNamed
<1>8. OfItsPipeline(report)' /\ OldReportIsBroken'
  BY DEF ProofInv, OfItsPipeline, Report, OldReportIsBroken
<1>9. FollowsReport(verifier)'
  BY DEF ProofInv, FollowsReport, OfItsPipeline, Report, Compared
<1> QED BY <1>1, <1>2, <1>5, <1>6, <1>7, <1>8, <1>9 DEF ProofInv

-----------------------------------------------------------------------------
(* A pipeline. *)

\* What the invariant says of pipeline p.
LEMMA PipelineHere ==
    ASSUME ProofInv, NEW p \in Pipelines
    PROVE  /\ pipeline \in [Pipelines -> PipelineStates]
           /\ pipeline[p] \in PipelineStates /\ pipeline[p].at \in Circuits
           /\ Progress(p, pipeline[p])
BY DEF ProofInv, TypeOK, PipelineTypeOK, PipelinesProgress, PipelineStates

LEMMA GoEffect ==
    ASSUME pipeline \in [Pipelines -> PipelineStates], NEW p \in Pipelines,
           NEW pc \in PipelinePhases, Go(p, pc)
    PROVE  LET m == pipeline[p]
               n == pipeline'[p]
           IN  /\ pipeline' \in [Pipelines -> PipelineStates]
               /\ \A q \in Pipelines \ {p} : pipeline'[q] = pipeline[q]
               /\ n.pc = pc /\ n.at = m.at /\ n.metrics = m.metrics
               /\ n.cases = m.cases /\ n.genesis = m.genesis /\ n.reason = m.reason
<1>1. [pipeline[p] EXCEPT !.pc = pc] \in PipelineStates
  BY DEF PipelineStates
<1>2. pipeline' = [pipeline EXCEPT ![p] = [pipeline[p] EXCEPT !.pc = pc]]
  BY DEF Go
<1> QED BY <1>1, <1>2 DEF PipelineStates

\* A step of pipeline p keeps the invariant if it leaves p with what p should
\* have, and the report alone, or removes it, or is the last of p and writes it.
LEMMA PipelinePreserves ==
    ASSUME ProofInv, NEW p \in Pipelines, PipelineActive(p),
           pipeline' \in [Pipelines -> PipelineStates],
           \A q \in Pipelines \ {p} : pipeline'[q] = pipeline[q],
           Progress(p, pipeline[p])',
           EvidenceTypeOK', tau' \in Pipelines \cup {None},
           zkey' \in [Circuits -> Keys \cup {None}], owner' \in Pipelines \cup {None},
           UNCHANGED <<genesisVars, verifier, edited>>, calm' = FALSE,
           \/ report' \in {None, report}
           \/ pipeline'[p].pc = "done" /\ report' = Report(p)',
           OldReportIsBroken'
    PROVE  ProofInv'
<1> USE DEF genesisVars, artifactVars, genesisFiles
<1>0. /\ pipeline \in [Pipelines -> PipelineStates]
      /\ pipeline[p].pc \notin {"idle", "done", "dead"}
  BY PipelineHere DEF PipelineActive, PipelineEnded
<1>1. TypeOK'
  <2>1. PipelineTypeOK'
    BY DEF PipelineTypeOK
  <2>2. GenesisTypeOK' /\ VerifierTypeOK' /\ edited' \in [Runners -> SUBSET Circuits]
    BY DEF ProofInv, TypeOK, GenesisTypeOK, VerifierTypeOK
  <2> QED BY <2>1, <2>2 DEF TypeOK
<1>2. OneAtATime'
  BY <1>0 DEF ProofInv, OneAtATime, PipelineActive, PipelineEnded
<1>3. PipelinesProgress'
  <2>1. ASSUME NEW q \in Pipelines, q # p PROVE Progress(q, pipeline[q])'
    <3>1. pipeline[q].pc \in {"idle", "dead", "done"} /\ Progress(q, pipeline[q])
      BY <2>1, PipelineHere DEF ProofInv, OneAtATime, PipelineActive, PipelineEnded
    <3> DEFINE m == pipeline[q]
    <3>2. m.pc \in {"idle", "dead", "done"} /\ Progress(q, m)
      BY <3>1
    <3>3. m = pipeline'[q]
      BY <1>0, <2>1
    <3>4. UNCHANGED <<genesis, edited, source>>
      OBVIOUS
    <3> QED BY <3>2, <3>3, <3>4, RestingProgress
  <2> QED BY <2>1 DEF PipelinesProgress
<1>4. ArtifactsAreFresh' /\ SourcesAreNamed'
  BY DEF ProofInv, ArtifactsAreFresh, SourcesAreNamed, NamesTheSources
<1>5. ASSUME NEW r, OfItsPipeline(r), r # None => r.by \in Pipelines
      PROVE  /\ r # None => pipeline'[r.by].pc = "done"
             /\ r # None => r = [kind |-> "report", by |-> r.by,
                                cases |-> pipeline'[r.by].cases,
                                genesis |-> pipeline'[r.by].genesis]
  BY <1>0, <1>5 DEF OfItsPipeline, Report
<1>6. OfItsPipeline(report)'
  <2>1. report # None => report.by \in Pipelines
    BY DEF ProofInv, TypeOK, EvidenceTypeOK, Reports
  <2> QED BY <1>0, <1>5, <2>1 DEF ProofInv, OfItsPipeline, Report
<1>7. FollowsReport(verifier)'
  <2>1. verifier.report # None => verifier.report.by \in Pipelines
    BY DEF ProofInv, TypeOK, VerifierTypeOK, VerifierStates, Reports
  <2> QED BY <1>5, <2>1 DEF ProofInv, FollowsReport, OfItsPipeline, Report, Compared
<1> QED BY <1>1, <1>2, <1>3, <1>4, <1>6, <1>7 DEF ProofInv

LEMMA BeforeCasesPreserves ==
    ASSUME ProofInv, NEW p \in Pipelines, UNCHANGED <<verifier, edited>>, calm' = FALSE,
           AwaitGenesis(p) \/ RemoveEvidence(p) \/ EvidenceRemoved(p) \/ Ceremony(p)
    PROVE  ProofInv'
<1> DEFINE m == pipeline[p]
<1>0. /\ pipeline \in [Pipelines -> PipelineStates]
      /\ m \in PipelineStates /\ m.at \in Circuits /\ Progress(p, m)
  BY PipelineHere
<1>1. /\ m.pc \in {"genesis", "clear", "ceremony"}
      /\ PipelineActive(p) /\ m.at = 1 /\ \A c \in Circuits : ~ (c < m.at)
  BY <1>0, GenesisAssumption DEF PipelineActive, PipelineEnded, Progress, AwaitGenesis,
     RemoveEvidence, EvidenceRemoved, Ceremony, Circuits
<1>2. /\ m.pc # "genesis" => genesis[p].pc = "passed"
      /\ m.pc = "ceremony" => owner = p /\ report = None
  BY <1>0, <1>1 DEF Progress, AfterGenesis, AfterClear, PipelinePhases
<1>3. {"clear", "ceremony", "info"} \subseteq PipelinePhases
  BY DEF PipelinePhases
<1>4. /\ EvidenceTypeOK /\ OldReportIsBroken
      /\ tau \in Pipelines \cup {None} /\ owner \in Pipelines \cup {None}
      /\ zkey \in [Circuits -> Keys \cup {None}]
  BY DEF ProofInv, TypeOK, PipelineTypeOK
<1> DEFINE n == pipeline'[p]
<1>5. ASSUME /\ n.pc \in {"clear", "ceremony", "info"} /\ n.at = 1
             /\ genesis'[p].pc = "passed"
             /\ n.pc # "clear" => owner' = p /\ report' = None
             /\ n.pc = "info" => tau' = p
      PROVE  Progress(p, pipeline[p])'
  BY <1>1, <1>5 DEF Progress, AfterGenesis, AfterClear, WithKey, WithVkey, WithProof,
                    WithOutcome, Bound
<1> HIDE DEF m, n
<1> USE DEF evidenceVars, workVars
<1>6. CASE AwaitGenesis(p)
  <2>1. /\ m.pc = "genesis" /\ genesis[p].pc = "passed" /\ Go(p, "clear")
        /\ UNCHANGED <<genesisVars, artifact, report, owner>>
        /\ tau' = None /\ zkey' = [c \in Circuits |-> None]
    BY <1>6 DEF AwaitGenesis, Ready, m
  <2>2. /\ pipeline' \in [Pipelines -> PipelineStates]
        /\ \A q \in Pipelines \ {p} : pipeline'[q] = pipeline[q]
        /\ n.pc = "clear" /\ n.at = 1
    BY <1>0, <1>1, <1>3, <2>1, GoEffect DEF m, n
  <2>3. Progress(p, pipeline[p])'
    BY <1>5, <2>1, <2>2 DEF genesisVars
  <2>4. /\ EvidenceTypeOK' /\ OldReportIsBroken'
        /\ tau' \in Pipelines \cup {None} /\ owner' \in Pipelines \cup {None}
        /\ zkey' \in [Circuits -> Keys \cup {None}]
    BY <1>4, <2>1 DEF EvidenceTypeOK, OldReportIsBroken
  <2> QED BY <1>1, <2>1, <2>2, <2>3, <2>4, PipelinePreserves
<1>7. CASE RemoveEvidence(p)
  <2>1. /\ m.pc = "clear" /\ owner' = p /\ report' \in {None, report}
        /\ UNCHANGED <<genesisVars, tau, zkey, pipeline>>
    BY <1>7 DEF RemoveEvidence, m
  <2>2. EvidenceTypeOK' /\ OldReportIsBroken'
    <3>1. CASE report' = None /\ UNCHANGED artifact
      BY <1>4, <3>1 DEF EvidenceTypeOK, OldReportIsBroken
    <3>2. ASSUME NEW c \in Circuits, NEW k \in Kinds, UNCHANGED report,
                 artifact' = [artifact EXCEPT ![c][k] = None]
          PROVE  EvidenceTypeOK' /\ OldReportIsBroken'
      <4>1. [artifact[c] EXCEPT ![k] = None] \in Artifacts /\ artifact'[c][k] = None
        BY <1>4, <3>2 DEF EvidenceTypeOK, Artifacts, Kinds
      <4> QED BY <1>4, <3>2, <4>1 DEF EvidenceTypeOK, OldReportIsBroken
    <3> QED BY <1>7, <3>1, <3>2 DEF RemoveEvidence
  <2>3. Progress(p, pipeline[p])'
    BY <1>1, <1>2, <1>5, <2>1 DEF genesisVars, m, n
  <2> QED BY <1>0, <1>1, <1>4, <2>1, <2>2, <2>3, PipelinePreserves
<1>8. CASE EvidenceRemoved(p)
  <2>1. /\ m.pc = "clear" /\ Go(p, "ceremony") /\ report = None /\ owner' = p
        /\ UNCHANGED <<genesisVars, artifact, report, tau, zkey>>
    BY <1>8 DEF EvidenceRemoved, m
  <2>2. /\ pipeline' \in [Pipelines -> PipelineStates]
        /\ \A q \in Pipelines \ {p} : pipeline'[q] = pipeline[q]
        /\ n.pc = "ceremony" /\ n.at = 1
    BY <1>0, <1>1, <1>3, <2>1, GoEffect DEF m, n
  <2>3. Progress(p, pipeline[p])'
    BY <1>2, <1>5, <2>1, <2>2 DEF genesisVars
  <2>4. EvidenceTypeOK' /\ OldReportIsBroken'
    BY <1>4, <2>1 DEF EvidenceTypeOK, OldReportIsBroken
  <2> QED BY <1>1, <1>4, <2>1, <2>2, <2>3, <2>4, PipelinePreserves
<1>9. CASE Ceremony(p)
  <2>1. /\ m.pc = "ceremony" /\ Go(p, "info") /\ tau' = p
        /\ UNCHANGED <<genesisVars, artifact, report, zkey, owner>>
    BY <1>9 DEF Ceremony, m
  <2>2. /\ pipeline' \in [Pipelines -> PipelineStates]
        /\ \A q \in Pipelines \ {p} : pipeline'[q] = pipeline[q]
        /\ n.pc = "info" /\ n.at = 1
    BY <1>0, <1>1, <1>3, <2>1, GoEffect DEF m, n
  <2>3. Progress(p, pipeline[p])'
    BY <1>2, <1>5, <2>1, <2>2 DEF genesisVars
  <2>4. EvidenceTypeOK' /\ OldReportIsBroken'
    BY <1>4, <2>1 DEF EvidenceTypeOK, OldReportIsBroken
  <2> QED BY <1>1, <1>4, <2>1, <2>2, <2>3, <2>4, PipelinePreserves
<1> QED BY <1>6, <1>7, <1>8, <1>9

\* What the invariant says of pipeline p when it is at circuit c.
LEMMA CaseHere ==
    ASSUME ProofInv, NEW p \in Pipelines, NEW c \in Circuits, c = pipeline[p].at,
           pipeline[p].pc \in {"info", "setup"} \cup WithKey
    PROVE  LET m == pipeline[p]
           IN  /\ PipelineActive(p) /\ genesis[p].pc = "passed"
               /\ owner = p /\ report = None /\ tau = p
               /\ \A i \in Circuits : i < c => RecordOf(p, i, m.cases[i], m.reason[i])
               /\ m.pc # "info" => CaseProgress(p, c, m)
<1>1. Progress(p, pipeline[p])
  BY PipelineHere
<1>2. pipeline[p].pc \in AfterClear \ {"ceremony"} /\ pipeline[p].pc \in AfterGenesis
  BY DEF AfterClear, AfterGenesis, WithKey, PipelinePhases
<1> QED BY <1>1, <1>2 DEF Progress, Bound, PipelineActive, PipelineEnded, WithKey

\* A step of pipeline p at circuit c keeps the invariant if it only moves on to
\* the next phase of the circuit, with what p should have in that phase.
LEMMA CasePreserves ==
    ASSUME ProofInv, NEW p \in Pipelines, NEW c \in Circuits, c = pipeline[p].at,
           UNCHANGED <<verifier, edited, genesisVars, tau, owner, report>>, calm' = FALSE,
           pipeline[p].pc \in {"info", "setup"} \cup WithKey,
           pipeline' \in [Pipelines -> PipelineStates],
           \A q \in Pipelines \ {p} : pipeline'[q] = pipeline[q],
           pipeline'[p].pc \in {"setup"} \cup WithKey, pipeline'[p].at = c,
           pipeline'[p].cases = pipeline[p].cases,
           \A i \in Circuits \ {c} : pipeline'[p].reason[i] = pipeline[p].reason[i],
           artifact' \in [Circuits -> Artifacts],
           zkey' \in [Circuits -> Keys \cup {None}],
           CaseProgress(p, c, pipeline[p])'
    PROVE  ProofInv'
<1>1. /\ PipelineActive(p) /\ genesis'[p].pc = "passed"
      /\ owner' = p /\ report' = None /\ tau' = p
  BY CaseHere DEF genesisVars
<1>2. \A i \in Circuits : i < c =>
        RecordOf(p, i, pipeline[p].cases[i], pipeline[p].reason[i])'
  <2>1. \A i \in Circuits : i < c => i \in Circuits \ {c}
    BY DEF Circuits
  <2> QED BY <2>1, CaseHere DEF RecordOf, PieceOf, KeyOf, ProofOf, genesisVars
<1>3. pipeline'[p].pc \notin {"idle", "genesis", "clear", "ceremony", "bindManifest",
                             "write", "done"}
  BY DEF WithKey
<1>4. Progress(p, pipeline[p])'
  BY <1>1, <1>2, <1>3 DEF Progress, Bound, genesisVars
<1>5. /\ EvidenceTypeOK' /\ OldReportIsBroken'
      /\ tau' \in Pipelines \cup {None} /\ owner' \in Pipelines \cup {None}
  BY <1>1 DEF ProofInv, TypeOK, EvidenceTypeOK, OldReportIsBroken
<1> QED BY <1>1, <1>4, <1>5, PipelinePreserves

\* However snarkjs ends, it is one of the outcomes told apart.
LEMMA EndingsAreSeen ==
    ASSUME NEW c
    PROVE  /\ Endings(Verified(c)) \subseteq OutcomesSeen
           /\ Endings(TamperedVerified(c)) \subseteq OutcomesSeen
BY DEF Endings, Verified, TamperedVerified, Outcome, OutcomesSeen

\* The steps of a circuit, from its keys to the refusal of the changed signals.
LEMMA CaseStepPreserves ==
    ASSUME ProofInv, NEW p \in Pipelines, UNCHANGED <<verifier, edited>>, calm' = FALSE,
           \/ ReadInfo(p) \/ Setup(p) \/ VerifyKey(p) \/ ExportKey(p) \/ Prove(p)
           \/ Verify(p) \/ Tamper(p) \/ Reject(p)
    PROVE  ProofInv'
<1>0. PICK c \in Circuits : c = pipeline[p].at
  BY PipelineHere
<1> DEFINE m == pipeline[p]
           n == pipeline'[p]
<1>1. /\ pipeline \in [Pipelines -> PipelineStates] /\ m \in PipelineStates
      /\ artifact \in [Circuits -> Artifacts] /\ zkey \in [Circuits -> Keys \cup {None}]
      /\ r1cs \in [Circuits -> Versions \cup {NotBuilt}]
      /\ witness \in [Circuits -> Versions \cup {NotBuilt}]
  BY PipelineHere DEF ProofInv, TypeOK, EvidenceTypeOK, PipelineTypeOK, GenesisTypeOK
<1>2. m.pc \in {"info", "setup"} \cup WithKey
  BY DEF ReadInfo, Setup, VerifyKey, ExportKey, Prove, Verify, Tamper, Reject, At, WithKey
<1>3. /\ genesis[p].pc = "passed" /\ owner = p /\ report = None /\ tau = p
      /\ m.pc # "info" => CaseProgress(p, c, m)
  BY <1>0, <1>2, CaseHere
<1>16. /\ m.pc # "info" => m.metrics \in Versions /\ (c \notin edited[p] => m.metrics = source[c])
       /\ m.pc \in WithKey => KeyOf(p, c, zkey[c])
       /\ m.pc \in WithVkey => artifact[c].vkey = zkey[c]
       /\ m.pc \in WithProof => ProofOf(p, artifact[c])
       /\ m.pc \in WithOutcome => artifact[c].proof.witness = artifact[c].vkey.circuit
       /\ m.pc \in {"reject", "bind"} => artifact[c].tampered = Mutate(artifact[c].public)
  BY <1>3 DEF CaseProgress, WithKey, WithVkey, WithProof, WithOutcome
<1>4. {"setup", "verifyKey", "export", "prove", "verify", "tamper", "reject", "bind"}
        \subseteq PipelinePhases
  BY DEF PipelinePhases
<1>5. KeyOf(p, c, zkey[c]) /\ zkey'[c] = zkey[c] /\ UNCHANGED <<genesisVars, edited>>
        => KeyOf(p, c, zkey[c])'
  BY DEF KeyOf, genesisVars
<1>6. ProofOf(p, artifact[c]) /\ artifact'[c].vkey = artifact[c].vkey
        /\ artifact'[c].proof = artifact[c].proof /\ artifact'[c].public = artifact[c].public
        => ProofOf(p, artifact[c])'
  BY DEF ProofOf
<1>7. \A pc \in PipelinePhases : Go(p, pc) =>
        /\ pipeline' \in [Pipelines -> PipelineStates]
        /\ \A q \in Pipelines \ {p} : pipeline'[q] = pipeline[q]
        /\ n.pc = pc /\ n.at = c /\ n.metrics = m.metrics /\ n.cases = m.cases
        /\ n.reason = m.reason
  BY <1>0, <1>1, GoEffect
<1> DEFINE fresh == c \notin edited[p] /\ r1cs[c] \in Versions => r1cs[c] = source[c]
<1>15. fresh
  <2>1. NotBuilt \notin Versions
    BY DEF NotBuilt, Versions
  <2> QED BY <1>3, <2>1 DEF ProofInv, ArtifactsAreFresh, Rebuilt
<1>8. CASE ReadInfo(p)
  <2>1. /\ m.pc = "info" /\ r1cs[c] \in Versions
        /\ pipeline' = [pipeline EXCEPT ![p].pc = "setup", ![p].metrics = r1cs[c]]
        /\ UNCHANGED <<genesisVars, artifact, report, tau, zkey, owner>>
    BY <1>0, <1>1, <1>8 DEF ReadInfo, Ready, evidenceVars, workVars
  <2>2. [m EXCEPT !.pc = "setup", !.metrics = r1cs[c]] \in PipelineStates
    BY <1>1, <1>4, <2>1 DEF PipelineStates
  <2>3. /\ pipeline' \in [Pipelines -> PipelineStates]
        /\ \A q \in Pipelines \ {p} : pipeline'[q] = pipeline[q]
        /\ n.pc = "setup" /\ n.at = c /\ n.cases = m.cases /\ n.metrics = r1cs[c]
        /\ n.reason = m.reason
    BY <1>0, <1>1, <2>1, <2>2 DEF PipelineStates
  <2>4. n.pc \notin WithKey
    BY <2>3 DEF WithKey
  <2>5. CaseProgress(p, c, pipeline[p])'
    BY <1>0, <1>1, <1>2, <1>15, <2>1, <2>3, <2>4 DEF CaseProgress, WithKey, WithVkey,
       WithProof, WithOutcome, genesisVars
  <2> QED BY <1>0, <1>1, <1>2, <1>15, <2>1, <2>3, <2>4, <2>5, CasePreserves DEF WithKey
<1>9. CASE Setup(p)
  <2>1. /\ m.pc = "setup" /\ r1cs[c] \in Versions /\ Go(p, "verifyKey")
        /\ zkey' = [zkey EXCEPT ![c] =
                      [kind |-> "key", by |-> p, circuit |-> r1cs[c], tau |-> p]]
        /\ UNCHANGED <<genesisVars, artifact, report, tau, owner>>
    BY <1>0, <1>1, <1>3, <1>16, <1>9 DEF Setup, At, Ready, evidenceVars
  <2>2. c \notin edited[p] => r1cs[c] = source[c]
    BY <1>15, <2>1
  <2>3. zkey' \in [Circuits -> Keys \cup {None}] /\ KeyOf(p, c, zkey[c])'
    BY <1>1, <2>1, <2>2 DEF Keys, KeyOf, genesisVars
  <2>4. n.pc = "verifyKey"
    BY <1>4, <1>7, <2>1
  <2>5. CaseProgress(p, c, pipeline[p])'
    BY <1>0, <1>1, <1>2, <1>3, <1>16, <1>4, <1>7, <2>1, <2>3, <2>4 DEF CaseProgress, WithKey, WithVkey,
       WithProof, WithOutcome, genesisVars
  <2> QED BY <1>0, <1>1, <1>2, <1>3, <1>16, <1>4, <1>7, <2>1, <2>3, <2>4, <2>5, CasePreserves DEF WithKey
<1>10. CASE VerifyKey(p) \/ Verify(p)
  <2>1. /\ \/ m.pc = "verifyKey" /\ Go(p, "export")
           \/ m.pc = "verify" /\ Go(p, "tamper") /\ Verified(c) = "OK"
        /\ UNCHANGED <<genesisVars, artifact, report, tau, zkey, owner>>
    BY <1>0, <1>10 DEF VerifyKey, Verify, Ready, evidenceVars, workVars
  <2>2. m.pc = "verify" => artifact[c].proof.witness = artifact[c].vkey.circuit
    <3>1. ASSUME m.pc = "verify" PROVE artifact[c].proof.key = artifact[c].vkey
      BY <1>3, <1>16, <3>1 DEF ProofOf, WithProof, WithVkey, WithKey
    <3> QED BY <2>1, <3>1 DEF Verified, Outcome
  <2>3. KeyOf(p, c, zkey[c])' /\ (ProofOf(p, artifact[c]) => ProofOf(p, artifact[c])')
    BY <1>3, <1>16, <1>5, <1>6, <2>1 DEF WithKey
  <2>4. n.pc \in {"export", "tamper"} /\ (n.pc = "tamper" => m.pc = "verify")
    BY <1>4, <1>7, <2>1
  <2>5. CaseProgress(p, c, pipeline[p])'
    BY <1>0, <1>1, <1>2, <1>3, <1>16, <1>4, <1>7, <2>1, <2>2, <2>3, <2>4 DEF CaseProgress, WithKey, WithVkey,
       WithProof, WithOutcome, genesisVars
  <2> QED BY <1>0, <1>1, <1>2, <1>3, <1>16, <1>4, <1>7, <2>1, <2>2, <2>3, <2>4, <2>5, CasePreserves DEF WithKey
<1>11. CASE ExportKey(p)
  <2>1. /\ m.pc = "export" /\ zkey[c] \in Keys /\ Go(p, "prove")
        /\ artifact' = [artifact EXCEPT ![c]["vkey"] = zkey[c]]
        /\ UNCHANGED <<genesisVars, report, tau, zkey, owner>>
    BY <1>0, <1>1, <1>11 DEF ExportKey, At, Ready, workVars
  <2>2. artifact' \in [Circuits -> Artifacts] /\ artifact'[c].vkey = zkey[c]
    BY <1>1, <2>1 DEF Artifacts
  <2>3. KeyOf(p, c, zkey[c])'
    BY <1>3, <1>16, <1>5, <2>1 DEF WithKey
  <2>4. n.pc = "prove"
    BY <1>4, <1>7, <2>1
  <2>5. CaseProgress(p, c, pipeline[p])'
    BY <1>0, <1>1, <1>2, <1>3, <1>16, <1>4, <1>7, <2>1, <2>2, <2>3, <2>4 DEF CaseProgress, WithKey, WithVkey,
       WithProof, WithOutcome, genesisVars
  <2> QED BY <1>0, <1>1, <1>2, <1>3, <1>16, <1>4, <1>7, <2>1, <2>2, <2>3, <2>4, <2>5, CasePreserves DEF WithKey
<1>12. CASE Prove(p)
  <2> DEFINE f == [kind |-> "proof", by |-> p, key |-> zkey[c], witness |-> witness[c]]
             s == PublicSignals(witness[c])
  <2>1. /\ m.pc = "prove" /\ zkey[c] \in Keys /\ witness[c] \in Versions /\ Go(p, "verify")
        /\ artifact' = [artifact EXCEPT ![c]["proof"] = f, ![c]["public"] = s]
        /\ UNCHANGED <<genesisVars, report, tau, zkey, owner>>
    BY <1>0, <1>1, <1>12 DEF Prove, At, Ready, workVars
  <2>2. f \in Proofs /\ s \in Signals /\ f.by = p /\ f.key = zkey[c]
        /\ s = PublicSignals(f.witness)
    BY <2>1 DEF Proofs, Signals, PublicSignals
  <2> HIDE DEF f, s
  <2>3. /\ artifact' \in [Circuits -> Artifacts]
        /\ artifact'[c].proof = f /\ artifact'[c].public = s
        /\ artifact'[c].vkey = artifact[c].vkey
    BY <1>1, <2>1, <2>2 DEF Artifacts
  <2>4. ProofOf(p, artifact[c])'
    BY <1>3, <1>16, <2>1, <2>2, <2>3 DEF ProofOf, WithKey, WithVkey
  <2>5. KeyOf(p, c, zkey[c])'
    BY <1>3, <1>16, <1>5, <2>1 DEF WithKey
  <2>6. n.pc = "verify"
    BY <1>4, <1>7, <2>1
  <2>7. CaseProgress(p, c, pipeline[p])'
    BY <1>0, <1>1, <1>2, <1>3, <1>16, <1>4, <1>7, <2>1, <2>3, <2>4, <2>5, <2>6 DEF CaseProgress, WithKey, WithVkey,
       WithProof, WithOutcome, genesisVars
  <2> QED BY <1>0, <1>1, <1>2, <1>3, <1>16, <1>4, <1>7, <2>1, <2>3, <2>4, <2>5, <2>6, <2>7, CasePreserves DEF WithKey
<1>13. CASE Tamper(p)
  <2>1. /\ m.pc = "tamper" /\ artifact[c].public # None /\ Go(p, "reject")
        /\ artifact' = [artifact EXCEPT ![c]["tampered"] = Mutate(artifact[c].public)]
        /\ UNCHANGED <<genesisVars, report, tau, zkey, owner>>
    BY <1>0, <1>1, <1>13 DEF Tamper, At, Ready, workVars
  <2>2. Mutate(artifact[c].public) \in Signals
    BY <1>1, <2>1 DEF Mutate, Artifacts, Signals
  <2>3. /\ artifact' \in [Circuits -> Artifacts]
        /\ artifact'[c].tampered = Mutate(artifact[c].public)
        /\ artifact'[c].vkey = artifact[c].vkey /\ artifact'[c].proof = artifact[c].proof
        /\ artifact'[c].public = artifact[c].public
    BY <1>1, <2>1, <2>2 DEF Artifacts
  <2>4. KeyOf(p, c, zkey[c])' /\ ProofOf(p, artifact[c])'
    BY <1>3, <1>16, <1>5, <1>6, <2>1, <2>3 DEF WithKey, WithVkey, WithProof
  <2>5. /\ n.pc = "reject" /\ n.at = c /\ n.metrics = m.metrics /\ n.cases = m.cases
        /\ n.reason = m.reason
        /\ pipeline' \in [Pipelines -> PipelineStates]
        /\ \A q \in Pipelines \ {p} : pipeline'[q] = pipeline[q]
    BY <1>4, <1>7, <2>1
  <2>6. CaseProgress(p, c, pipeline[p])'
    BY <1>16, <2>1, <2>3, <2>4, <2>5 DEF CaseProgress, WithKey, WithVkey, WithProof,
       WithOutcome, genesisVars
  <2>7. m.pc \in {"info", "setup"} \cup WithKey /\ n.pc \in {"setup"} \cup WithKey
    BY <2>1, <2>5 DEF WithKey
  <2> QED BY <1>0, <1>1, <2>1, <2>3, <2>5, <2>6, <2>7, CasePreserves
<1>14. CASE Reject(p)
  <2>1. PICK ending \in Endings(TamperedVerified(c)) :
          /\ m.pc = "reject"
          /\ pipeline' = [pipeline EXCEPT ![p].pc = "bind", ![p].reason[c] = ending]
          /\ UNCHANGED <<genesisVars, artifact, report, tau, zkey, owner>>
    BY <1>0, <1>14 DEF Reject, At, evidenceVars, workVars
  <2>2. TamperedVerified(c) = "invalid"
    <3>1. /\ zkey[c] \in Keys /\ artifact[c].vkey = zkey[c]
          /\ artifact[c].proof \in Proofs
          /\ artifact[c].public = PublicSignals(artifact[c].proof.witness)
          /\ artifact[c].tampered = Mutate(artifact[c].public)
      BY <1>3, <1>16, <2>1 DEF WithKey, WithVkey, WithProof, KeyOf, ProofOf
    <3>2. /\ artifact[c].tampered.kind = "signals" /\ artifact[c].tampered.mutated
          /\ artifact[c].vkey.kind = "key" /\ artifact[c].proof.kind = "proof"
      BY <3>1 DEF Mutate, PublicSignals, Keys, Proofs
    <3> QED BY <3>2 DEF TamperedVerified, Outcome, PublicSignals, None
  <2>10. ending \in Endings("invalid") /\ ending \in OutcomesSeen
    BY <2>2 DEF Endings, OutcomesSeen
  <2>3. [m EXCEPT !.pc = "bind", !.reason[c] = ending] \in PipelineStates
    BY <1>1, <1>4, <2>10 DEF PipelineStates
  <2>4. /\ pipeline' \in [Pipelines -> PipelineStates]
        /\ \A q \in Pipelines \ {p} : pipeline'[q] = pipeline[q]
        /\ n.pc = "bind" /\ n.at = c /\ n.cases = m.cases /\ n.metrics = m.metrics
        /\ \A i \in Circuits : n.reason[i] = IF i = c THEN ending ELSE m.reason[i]
    BY <1>0, <1>1, <2>1, <2>3 DEF PipelineStates
  <2>5. KeyOf(p, c, zkey[c])' /\ ProofOf(p, artifact[c])'
    BY <1>3, <1>16, <1>5, <1>6, <2>1 DEF WithKey, WithVkey, WithProof
  <2>6. /\ m.metrics \in Versions /\ (c \notin edited[p] => m.metrics = source[c])
        /\ artifact[c].vkey = zkey[c]
        /\ artifact[c].proof.witness = artifact[c].vkey.circuit
        /\ artifact[c].tampered = Mutate(artifact[c].public)
    BY <1>16, <2>1 DEF WithKey, WithVkey, WithProof, WithOutcome
  <2>7. CaseProgress(p, c, pipeline[p])'
    BY <2>1, <2>4, <2>5, <2>6, <2>10 DEF CaseProgress, Endings, genesisVars
  <2>8. m.pc \in {"info", "setup"} \cup WithKey /\ n.pc \in {"setup"} \cup WithKey
    BY <2>1, <2>4 DEF WithKey
  <2>9. \A i \in Circuits \ {c} : n.reason[i] = m.reason[i]
    BY <2>4
  <2> QED BY <1>0, <1>1, <2>1, <2>4, <2>7, <2>8, <2>9, CasePreserves
<1> QED BY <1>8, <1>9, <1>10, <1>11, <1>12, <1>13, <1>14

LEMMA NextCircuitOfPipeline ==
    ASSUME NEW m \in PipelineStates, NEW pc \in PipelinePhases, NEW after \in PipelinePhases
    PROVE  LET n == NextCircuit(m, pc, after)
           IN  /\ n \in PipelineStates /\ n.cases = m.cases /\ n.reason = m.reason
               /\ \/ n.pc = pc /\ m.at < NCircuits /\ n.at = m.at + 1
                  \/ n.pc = after /\ m.at = NCircuits /\ n.at = 1
<1>0. m.at \in 1..NCircuits /\ NCircuits \in Nat \ {0}
  BY GenesisAssumption DEF PipelineStates, Circuits
<1>1. CASE m.at < NCircuits
  <2> DEFINE next == m.at + 1
  <2>1. next \in Circuits
    BY <1>0, <1>1 DEF Circuits
  <2>2. NextCircuit(m, pc, after) = [m EXCEPT !.pc = pc, !.at = next]
    BY <1>1 DEF NextCircuit
  <2> HIDE DEF next
  <2>3. LET n == NextCircuit(m, pc, after)
        IN  /\ n \in PipelineStates /\ n.cases = m.cases /\ n.reason = m.reason
            /\ n.pc = pc /\ n.at = next
    BY <2>1, <2>2 DEF PipelineStates
  <2> QED BY <1>1, <2>3 DEF next
<1>2. CASE ~ (m.at < NCircuits)
  <2>1. 1 \in Circuits /\ m.at = NCircuits
    BY <1>0, <1>2 DEF Circuits
  <2> QED BY <1>2, <2>1 DEF NextCircuit, PipelineStates
<1> QED BY <1>1, <1>2

\* When a circuit is recorded, the record is one piece, of this pipeline.
LEMMA BindPreserves ==
    ASSUME ProofInv, NEW p \in Pipelines, UNCHANGED <<verifier, edited>>, calm' = FALSE,
           Bind(p)
    PROVE  ProofInv'
<1>0. PICK c \in Circuits : c = pipeline[p].at
  BY PipelineHere
<1> DEFINE m == pipeline[p]
           n == pipeline'[p]
           r == CaseReport(p, c)
           k == [m EXCEPT !.cases[c] = r]
<1>1. /\ pipeline \in [Pipelines -> PipelineStates] /\ m \in PipelineStates
      /\ artifact[c] \in Artifacts
      /\ r1cs[c] \in Versions \cup {NotBuilt} /\ witness[c] \in Versions \cup {NotBuilt}
      /\ EvidenceTypeOK /\ tau \in Pipelines \cup {None} /\ owner \in Pipelines \cup {None}
      /\ zkey \in [Circuits -> Keys \cup {None}] /\ OldReportIsBroken
  BY PipelineHere DEF ProofInv, TypeOK, EvidenceTypeOK, PipelineTypeOK, GenesisTypeOK
<1>2. /\ m.pc = "bind" /\ r1cs[c] # NotBuilt /\ witness[c] # NotBuilt
      /\ None \notin {artifact[c].vkey, artifact[c].proof, artifact[c].public,
                     artifact[c].tampered}
      /\ pipeline' = [pipeline EXCEPT ![p] = NextCircuit(k, "info", "bindManifest")]
      /\ UNCHANGED <<genesisVars, artifact, report, tau, zkey, owner>>
  BY <1>0 DEF Bind, At, Ready, Kinds, evidenceVars, workVars
<1>3. /\ PipelineActive(p) /\ genesis[p].pc = "passed"
      /\ owner = p /\ report = None /\ tau = p /\ m.metrics \in Versions
      /\ \A i \in Circuits : i < c => RecordOf(p, i, m.cases[i], m.reason[i])
      /\ c \notin edited[p] => m.metrics = source[c]
      /\ m.reason[c] \in Endings("invalid")
      /\ KeyOf(p, c, zkey[c]) /\ artifact[c].vkey = zkey[c] /\ ProofOf(p, artifact[c])
      /\ artifact[c].proof.witness = artifact[c].vkey.circuit
      /\ artifact[c].tampered = Mutate(artifact[c].public)
  <2>1. m.pc \in {"info", "setup"} \cup WithKey /\ m.pc # "info"
    BY <1>2 DEF WithKey
  <2>2. CaseProgress(p, c, m)
    BY <1>0, <2>1, CaseHere
  <2> QED BY <1>0, <1>2, <2>1, <2>2, CaseHere
          DEF CaseProgress, WithKey, WithVkey, WithProof, WithOutcome
<1>4. r \in CaseReports
  BY <1>1, <1>2, <1>3 DEF CaseReport, CaseReports, Artifacts
<1>5. RecordOf(p, c, r, m.reason[c])
  <2>1. PieceOf(p, c, r)
    BY <1>3 DEF PieceOf, ProofOf, CaseReport
  <2>2. c \notin edited[p] => r1cs[c] = source[c]
    BY <1>2, <1>3 DEF ProofInv, ArtifactsAreFresh, Rebuilt
  <2> QED BY <1>3, <1>4, <2>1, <2>2 DEF RecordOf, CaseReport
<1> HIDE DEF r
<1>6. /\ k \in PipelineStates /\ k.at = c /\ k.reason = m.reason
      /\ \A i \in Circuits : k.cases[i] = IF i = c THEN r ELSE m.cases[i]
  BY <1>0, <1>1, <1>4 DEF PipelineStates
<1> HIDE DEF k
<1>7. /\ n \in PipelineStates /\ n.cases = k.cases /\ n.reason = m.reason
      /\ \/ n.pc = "info" /\ c < NCircuits /\ n.at = c + 1
         \/ n.pc = "bindManifest" /\ c = NCircuits /\ n.at = 1
      /\ pipeline' \in [Pipelines -> PipelineStates]
      /\ \A q \in Pipelines \ {p} : pipeline'[q] = pipeline[q]
  <2>1. {"info", "bindManifest"} \subseteq PipelinePhases
    BY DEF PipelinePhases
  <2>2. LET j == NextCircuit(k, "info", "bindManifest")
        IN  /\ j \in PipelineStates /\ j.cases = k.cases /\ j.reason = k.reason
            /\ \/ j.pc = "info" /\ k.at < NCircuits /\ j.at = k.at + 1
               \/ j.pc = "bindManifest" /\ k.at = NCircuits /\ j.at = 1
    BY <1>6, <2>1, NextCircuitOfPipeline
  <2> QED BY <1>1, <1>2, <1>6, <2>2
<1>8. \A i \in Circuits : Bound(n, i) => i < c \/ i = c
  BY <1>0, <1>7, GenesisAssumption DEF Bound, Circuits
<1>9. \A i \in Circuits : Bound(n, i) => RecordOf(p, i, n.cases[i], n.reason[i])
  <2>1. \A i \in Circuits : i < c => i # c
    BY DEF Circuits
  <2> QED BY <1>3, <1>5, <1>6, <1>7, <1>8, <2>1
<1>10. Progress(p, pipeline[p])'
  <2>1. n.pc \in {"info", "bindManifest"}
    BY <1>7
  <2>2. \A i \in Circuits : Bound(n, i) =>
          RecordOf(p, i, pipeline[p].cases[i], pipeline[p].reason[i])'
    BY <1>2, <1>9 DEF RecordOf, PieceOf, KeyOf, ProofOf, genesisVars
  <2> QED BY <1>2, <1>3, <1>9, <2>1, <2>2
          DEF Progress, AfterGenesis, AfterClear, WithKey, WithVkey, WithProof, WithOutcome,
              Bound, genesisVars
<1>11. EvidenceTypeOK' /\ OldReportIsBroken'
  BY <1>1, <1>2 DEF EvidenceTypeOK, OldReportIsBroken
<1> QED BY <1>1, <1>2, <1>3, <1>7, <1>10, <1>11, PipelinePreserves

\* The last two steps: from all the records to the report.
LEMMA EndPreserves ==
    ASSUME ProofInv, NEW p \in Pipelines, UNCHANGED <<verifier, edited>>, calm' = FALSE,
           BindManifest(p) \/ WriteReport(p)
    PROVE  ProofInv'
<1> DEFINE m == pipeline[p]
           n == pipeline'[p]
<1>1. /\ pipeline \in [Pipelines -> PipelineStates] /\ m \in PipelineStates
      /\ Progress(p, m) /\ EvidenceTypeOK /\ manifest \in Manifests \cup {None}
      /\ tau \in Pipelines \cup {None} /\ owner \in Pipelines \cup {None}
      /\ zkey \in [Circuits -> Keys \cup {None}]
  BY PipelineHere DEF ProofInv, TypeOK, EvidenceTypeOK, PipelineTypeOK, GenesisTypeOK
<1>2. m.pc \in {"bindManifest", "write"}
  BY DEF BindManifest, WriteReport
<1>3. /\ PipelineActive(p) /\ genesis[p].pc = "passed"
      /\ owner = p /\ report = None /\ tau = p
      /\ \A i \in Circuits : RecordOf(p, i, m.cases[i], m.reason[i])
      /\ m.pc = "write" => m.genesis \in Manifests /\ NamesTheSources(m.genesis)
  BY <1>1, <1>2 DEF Progress, AfterGenesis, AfterClear, PipelinePhases, Bound,
                    PipelineActive, PipelineEnded
<1>4. ASSUME /\ n.pc \in {"write", "done"} /\ n.cases = m.cases /\ n.reason = m.reason
             /\ n.genesis \in Manifests /\ NamesTheSources(n.genesis)
             /\ UNCHANGED <<genesisVars, tau, owner>>
             /\ n.pc = "write" => report' = None
      PROVE  Progress(p, pipeline[p])'
  <2>1. \A i \in Circuits : RecordOf(p, i, pipeline[p].cases[i], pipeline[p].reason[i])'
    BY <1>3, <1>4 DEF RecordOf, PieceOf, KeyOf, ProofOf, genesisVars
  <2>2. NamesTheSources(pipeline[p].genesis)'
    BY <1>4 DEF NamesTheSources, genesisVars
  <2> QED BY <1>3, <1>4, <2>1, <2>2 DEF Progress, AfterGenesis, AfterClear, WithKey, WithVkey,
             WithProof, WithOutcome, genesisVars
<1>5. CASE BindManifest(p)
  <2>1. /\ manifest \in Manifests
        /\ pipeline' = [pipeline EXCEPT ![p].pc = "write", ![p].genesis = manifest]
        /\ UNCHANGED <<genesisVars, artifact, report, tau, zkey, owner>>
    BY <1>1, <1>5 DEF BindManifest, Ready, evidenceVars, workVars
  <2>2. [m EXCEPT !.pc = "write", !.genesis = manifest] \in PipelineStates
    BY <1>1, <2>1 DEF PipelineStates, PipelinePhases
  <2>3. /\ pipeline' \in [Pipelines -> PipelineStates]
        /\ \A q \in Pipelines \ {p} : pipeline'[q] = pipeline[q]
        /\ n.pc = "write" /\ n.cases = m.cases /\ n.reason = m.reason
        /\ n.genesis = manifest
    BY <1>1, <2>1, <2>2 DEF PipelineStates
  <2>4. Progress(p, pipeline[p])'
    BY <1>3, <1>4, <2>1, <2>3 DEF ProofInv, SourcesAreNamed
  <2>5. EvidenceTypeOK' /\ OldReportIsBroken'
    BY <1>1, <1>3, <2>1 DEF EvidenceTypeOK, OldReportIsBroken
  <2> QED BY <1>1, <1>3, <2>1, <2>3, <2>4, <2>5, PipelinePreserves
<1>6. CASE WriteReport(p)
  <2>1. /\ m.pc = "write" /\ report' = Report(p) /\ Go(p, "done")
        /\ UNCHANGED <<genesisVars, artifact, tau, zkey, owner>>
    BY <1>6 DEF WriteReport, workVars
  <2>2. /\ pipeline' \in [Pipelines -> PipelineStates]
        /\ \A q \in Pipelines \ {p} : pipeline'[q] = pipeline[q]
        /\ n.pc = "done" /\ n.cases = m.cases /\ n.genesis = m.genesis /\ n.reason = m.reason
    BY <1>1, <2>1, GoEffect DEF PipelinePhases
  <2>3. Progress(p, pipeline[p])'
    BY <1>3, <1>4, <2>1, <2>2
  <2>4. report' = Report(p)'
    BY <2>1, <2>2 DEF Report
  <2>5. m.cases \in [Circuits -> CaseReports]
    BY <1>1, <1>3 DEF PipelineStates, RecordOf
  <2>6. report' \in Reports /\ report'.by = p
    BY <1>3, <2>1, <2>5 DEF Report, Reports
  <2>7. EvidenceTypeOK' /\ OldReportIsBroken'
    BY <1>1, <1>3, <2>1, <2>6 DEF EvidenceTypeOK, OldReportIsBroken
  <2> QED BY <1>1, <1>3, <2>1, <2>2, <2>3, <2>4, <2>7, PipelinePreserves
<1> QED BY <1>5, <1>6

\* A pipeline that dies has nothing, and leaves what is on the disk.
LEMMA DeathPreserves ==
    ASSUME ProofInv, NEW p \in Pipelines, UNCHANGED <<verifier, edited>>, calm' = FALSE,
           PipelineThrow(p) \/ PipelineKill(p)
    PROVE  ProofInv'
<1>1. /\ PipelineActive(p) /\ pipeline' = [pipeline EXCEPT ![p] = Idle("dead")]
      /\ UNCHANGED <<genesisVars, artifact, report, tau, zkey, owner>>
  BY DEF PipelineThrow, PipelineKill, PipelineDie, PipelineActive, PipelineEnded, Ready,
         evidenceVars, workVars
<1>2. Idle("dead") \in PipelineStates /\ Idle("dead").pc = "dead"
  BY GenesisAssumption DEF Idle, PipelineStates, OutcomesSeen, PipelinePhases, Circuits
<1>3. /\ pipeline' \in [Pipelines -> PipelineStates] /\ pipeline'[p].pc = "dead"
      /\ \A q \in Pipelines \ {p} : pipeline'[q] = pipeline[q]
  BY <1>1, <1>2, PipelineHere
<1>4. Progress(p, pipeline[p])'
  BY <1>3 DEF Progress, AfterGenesis, AfterClear, WithKey, WithVkey, WithProof, WithOutcome
<1>5. /\ EvidenceTypeOK' /\ OldReportIsBroken'
      /\ tau' \in Pipelines \cup {None} /\ owner' \in Pipelines \cup {None}
      /\ zkey' \in [Circuits -> Keys \cup {None}]
  BY <1>1 DEF ProofInv, TypeOK, EvidenceTypeOK, PipelineTypeOK, OldReportIsBroken
<1> QED BY <1>1, <1>3, <1>4, <1>5, PipelinePreserves

LEMMA PipelineMovePreserves ==
    ASSUME ProofInv, NEW p \in Pipelines, PipelineMove(p)
    PROVE  ProofInv'
<1>1. UNCHANGED <<verifier, edited>> /\ calm' = FALSE /\ (PipelineWork(p) \/ PipelineKill(p))
  BY DEF PipelineMove, Beside
<1> QED BY <1>1, BeforeCasesPreserves, CaseStepPreserves, BindPreserves, EndPreserves,
           DeathPreserves DEF PipelineWork

\* A pipeline starts with nothing, when no other is under way.
LEMMA BeginPreserves ==
    ASSUME ProofInv, Exclusive, NEW p \in Pipelines, BeginPipeline(p)
    PROVE  ProofInv'
<1>1. /\ pipeline \in [Pipelines -> PipelineStates] /\ pipeline[p].pc = "idle"
      /\ \A q \in Pipelines : ~ PipelineActive(q)
      /\ Go(p, "genesis") /\ genesis' = [genesis EXCEPT ![p].pc = "clear"]
      /\ UNCHANGED <<source, r1cs, witness, aggregate, manifest, artifact, report, tau,
                     zkey, owner, verifier>>
      /\ edited' = [edited EXCEPT ![p] = {}] /\ calm' = FALSE
  BY PipelineHere DEF BeginPipeline, Beside, Begin, artifactVars, genesisFiles, evidenceVars,
                      workVars
<1>2. /\ pipeline' \in [Pipelines -> PipelineStates] /\ pipeline'[p].pc = "genesis"
      /\ pipeline'[p].at = pipeline[p].at
      /\ \A q \in Pipelines \ {p} : pipeline'[q] = pipeline[q]
  BY <1>1, GoEffect DEF PipelinePhases
<1>3. /\ p \in Runners /\ genesis \in [Runners -> GenesisStates]
      /\ genesis[p].pc = "idle" /\ edited \in [Runners -> SUBSET Circuits]
  BY <1>1, PipelineHere DEF Runners, ProofInv, TypeOK, GenesisTypeOK, Progress
<1>4. /\ genesis' \in [Runners -> GenesisStates] /\ genesis'[p].pc = "clear"
      /\ \A h \in Runners \ {p} : genesis'[h] = genesis[h]
  <2>1. [genesis[p] EXCEPT !.pc = "clear"] \in GenesisStates
    BY <1>3 DEF GenesisStates, GenesisPhases
  <2> QED BY <1>1, <1>3, <2>1 DEF GenesisStates
<1>5. TypeOK'
  <2>1. GenesisTypeOK'
    BY <1>1, <1>3, <1>4 DEF ProofInv, TypeOK, GenesisTypeOK
  <2>2. EvidenceTypeOK' /\ PipelineTypeOK' /\ VerifierTypeOK'
    BY <1>1, <1>2 DEF ProofInv, TypeOK, EvidenceTypeOK, PipelineTypeOK, VerifierTypeOK
  <2>3. edited' \in [Runners -> SUBSET Circuits] /\ calm' \in BOOLEAN
    BY <1>1 DEF ProofInv, TypeOK
  <2> QED BY <2>1, <2>2, <2>3 DEF TypeOK
<1>6. OneAtATime'
  BY <1>1, <1>2 DEF OneAtATime, PipelineActive, PipelineEnded
<1>7. PipelinesProgress'
  <2>1. ASSUME NEW q \in Pipelines, q # p PROVE Progress(q, pipeline[q])'
    <3>1. pipeline[q].pc \in {"idle", "dead", "done"} /\ Progress(q, pipeline[q])
      BY <1>1, PipelineHere DEF PipelineActive, PipelineEnded
    <3> DEFINE m == pipeline[q]
    <3>2. m.pc \in {"idle", "dead", "done"} /\ Progress(q, m)
      BY <3>1
    <3>3. m = pipeline'[q]
      BY <1>2, <2>1
    <3>4. /\ genesis'[q] = genesis[q] /\ edited'[q] = edited[q] /\ source' = source
          /\ \A h \in Runners : genesis[h].pc # "idle" =>
               genesis'[h].pc # "idle" /\ edited'[h] = edited[h]
      BY <1>1, <1>3, <1>4, <2>1 DEF Runners
    <3> QED BY <3>2, <3>3, <3>4, RestingProgress
  <2>2. Progress(p, pipeline[p])'
    <3>1. pipeline[p].at = 1
      BY <1>1, PipelineHere DEF Progress
    <3> QED BY <1>2, <3>1 DEF Progress, AfterGenesis, AfterClear, WithKey, WithVkey,
               WithProof, WithOutcome
  <2> QED BY <2>1, <2>2 DEF PipelinesProgress
<1>8. ArtifactsAreFresh'
  <2>1. ASSUME NEW q \in Pipelines, genesis'[q].pc \in Rebuilt,
               NEW c \in Circuits \ edited'[q]
        PROVE  r1cs'[c] \in {NotBuilt, source'[c]}
    <3>1. q # p
      BY <1>4, <2>1 DEF Rebuilt
    <3> QED BY <1>1, <1>4, <2>1, <3>1 DEF ProofInv, TypeOK, ArtifactsAreFresh, Runners
  <2> QED BY <2>1 DEF ArtifactsAreFresh
<1>11. SourcesAreNamed'
  <2>1. manifest # None => manifest.run \in Runners
    BY DEF ProofInv, TypeOK, GenesisTypeOK, Manifests
  <2> QED BY <1>1, <1>3, <1>4, <2>1 DEF ProofInv, SourcesAreNamed, NamesTheSources
<1>9. OfItsPipeline(report)' /\ OldReportIsBroken'
  <2>1. report # None => report.by \in Pipelines
    BY DEF ProofInv, TypeOK, EvidenceTypeOK, Reports
  <2> QED BY <1>1, <1>2, <2>1 DEF ProofInv, OfItsPipeline, Report, OldReportIsBroken
<1>10. FollowsReport(verifier)'
  <2>1. verifier.report # None => verifier.report.by \in Pipelines
    BY DEF ProofInv, TypeOK, VerifierTypeOK, VerifierStates, Reports
  <2> QED BY <1>1, <1>2, <2>1 DEF ProofInv, FollowsReport, OfItsPipeline, Report, Compared
<1> QED BY <1>5, <1>6, <1>7, <1>8, <1>9, <1>10, <1>11 DEF ProofInv

-----------------------------------------------------------------------------
(* The verification. *)

LEMMA NextCircuitOfVerifier ==
    ASSUME NEW m \in VerifierStates, NEW pc \in VerifierPhases, NEW after \in VerifierPhases
    PROVE  LET n == NextCircuit(m, pc, after)
           IN  /\ n \in VerifierStates /\ n.kind = m.kind
               /\ n.report = m.report /\ n.read = m.read /\ n.reason = m.reason
               /\ \/ n.pc = pc /\ m.at < NCircuits /\ n.at = m.at + 1
                  \/ n.pc = after /\ m.at = NCircuits /\ n.at = 1
<1>0. m.at \in 1..NCircuits /\ NCircuits \in Nat \ {0}
  BY GenesisAssumption DEF VerifierStates, Circuits
<1>1. CASE m.at < NCircuits
  <2> DEFINE next == m.at + 1
  <2>1. next \in Circuits
    BY <1>0, <1>1 DEF Circuits
  <2>2. NextCircuit(m, pc, after) = [m EXCEPT !.pc = pc, !.at = next]
    BY <1>1 DEF NextCircuit
  <2> HIDE DEF next
  <2>3. LET n == NextCircuit(m, pc, after)
        IN  /\ n \in VerifierStates /\ n.kind = m.kind /\ n.report = m.report
            /\ n.read = m.read /\ n.reason = m.reason /\ n.pc = pc /\ n.at = next
    BY <2>1, <2>2 DEF VerifierStates
  <2> QED BY <1>1, <2>3 DEF next
<1>2. CASE ~ (m.at < NCircuits)
  <2>1. 1 \in Circuits /\ m.at = NCircuits
    BY <1>0, <1>2 DEF Circuits
  <2> QED BY <1>2, <2>1 DEF NextCircuit, VerifierStates
<1> QED BY <1>1, <1>2

\* A verification that throws, or has not begun, claims nothing.
LEMMA UnreadFollows ==
    ASSUME NEW pc \in {"idle", "fail"}
    PROVE  Unread(pc) \in VerifierStates /\ FollowsReport(Unread(pc))
<1>1. Unread(pc) \in VerifierStates
  BY GenesisAssumption DEF Unread, VerifierStates, OutcomesSeen, VerifierPhases, Artifacts,
                           NoArtifacts, Kinds, Circuits
<1>2. FollowsReport(Unread(pc))
  BY DEF Unread, FollowsReport, Compared
<1> QED BY <1>1, <1>2

\* A step of the verification keeps the invariant if what it leaves in memory
\* follows the report.
LEMMA VerifierPreserves ==
    ASSUME ProofInv, verifier' \in VerifierStates, FollowsReport(verifier)',
           calm' \in BOOLEAN, UNCHANGED <<genesisVars, evidenceVars, pipelineVars, edited>>
    PROVE  ProofInv'
<1> USE DEF genesisVars, artifactVars, genesisFiles, evidenceVars, pipelineVars, workVars
<1>1. TypeOK'
  BY DEF ProofInv, TypeOK, GenesisTypeOK, EvidenceTypeOK, PipelineTypeOK, VerifierTypeOK
<1>2. OneAtATime' /\ ArtifactsAreFresh'
  BY DEF ProofInv, OneAtATime, PipelineActive, PipelineEnded, ArtifactsAreFresh
<1>3. PipelinesProgress'
  BY DEF ProofInv, PipelinesProgress, Progress, CaseProgress, Bound, RecordOf, PieceOf, KeyOf,
         ProofOf, NamesTheSources
<1>8. SourcesAreNamed'
  BY DEF ProofInv, SourcesAreNamed, NamesTheSources
<1>4. OfItsPipeline(report)' /\ OldReportIsBroken'
  BY DEF ProofInv, OfItsPipeline, Report, OldReportIsBroken
<1> QED BY <1>1, <1>2, <1>3, <1>4, <1>8 DEF ProofInv

LEMMA VerificationPreserves ==
    ASSUME ProofInv, Verification
    PROVE  ProofInv'
<1> DEFINE v == verifier
           w == verifier'
<1>1. /\ v \in VerifierStates /\ FollowsReport(v) /\ report \in Reports \cup {None}
      /\ artifact \in [Circuits -> Artifacts]
      /\ UNCHANGED <<artifact, report, pipeline>>
      /\ UNCHANGED <<genesisVars, evidenceVars, pipelineVars, edited>>
      /\ calm \in BOOLEAN /\ calm' = (calm \/ v.pc = "idle") /\ VerifyStep
  BY DEF ProofInv, TypeOK, VerifierTypeOK, EvidenceTypeOK, Verification, evidenceVars,
         pipelineVars
<1>2. v.at \in 1..NCircuits /\ v.kind \in 1..4 /\ v.read \in [Circuits -> Artifacts]
  BY <1>1 DEF VerifierStates, Circuits
<1>3. calm' \in BOOLEAN
  BY <1>1
<1>4. \A pc \in VerifierPhases : [v EXCEPT !.pc = pc] \in VerifierStates
  BY <1>1 DEF VerifierStates
<1>5. {"report", "case", "artifact", "signals", "valid", "tampered", "pass"}
        \subseteq VerifierPhases
  BY DEF VerifierPhases
<1>6. \A r : OfItsPipeline(r)' <=> OfItsPipeline(r)
  BY <1>1 DEF OfItsPipeline, Report
<1> SUFFICES verifier' \in VerifierStates /\ FollowsReport(verifier)'
  BY <1>1, <1>3, VerifierPreserves
<1>7. CASE w = Unread("fail")
  BY <1>7, UnreadFollows DEF FollowsReport, Compared, Unread
<1>8. CASE ListEvidence /\ w # Unread("fail")
  <2>1. /\ v.pc = "idle" /\ w = [v EXCEPT !.pc = "report"]
        /\ \A c \in Circuits, k \in Kinds : artifact[c][k] # None
    BY <1>8 DEF ListEvidence, Check
  <2>2. w \in VerifierStates
    BY <1>4, <1>5, <2>1
  <2>3. w.pc = "report" /\ w.at = v.at /\ w.kind = v.kind /\ w.report = v.report
    BY <1>1, <2>1 DEF VerifierStates
  <2> QED BY <1>1, <1>6, <2>1, <2>2, <2>3, GenesisAssumption DEF FollowsReport, Compared, Circuits
<1>9. CASE ReadReport /\ w # Unread("fail")
  <2>1. /\ v.pc = "report" /\ w = [v EXCEPT !.pc = "case", !.report = report]
        /\ report # None
    BY <1>9 DEF ReadReport, Check
  <2>2. w \in VerifierStates
    BY <1>1, <1>5, <2>1 DEF VerifierStates
  <2>3. w.pc = "case" /\ w.at = v.at /\ w.kind = v.kind /\ w.report = report
    BY <1>1, <2>1 DEF VerifierStates
  <2>4. v.at = 1 /\ OfItsPipeline(report)'
    BY <1>1, <1>6, <2>1 DEF FollowsReport, ProofInv
  <2> QED BY <1>1, <2>1, <2>2, <2>3, <2>4, GenesisAssumption DEF FollowsReport, Compared, Circuits
<1>10. CASE CheckCase /\ w # Unread("fail")
  <2>1. v.pc = "case" /\ w = [v EXCEPT !.pc = "artifact"]
    BY <1>10 DEF CheckCase, Check
  <2>2. w \in VerifierStates
    BY <1>4, <1>5, <2>1
  <2>3. /\ w.pc = "artifact" /\ w.at = v.at /\ w.kind = v.kind /\ w.report = v.report
        /\ w.read = v.read /\ w.reason = v.reason
    BY <1>1, <2>1 DEF VerifierStates
  <2> QED BY <1>1, <1>6, <2>1, <2>2, <2>3 DEF FollowsReport, Compared
<1>11. CASE CheckArtifact /\ w # Unread("fail")
  <2>1. PICK c \in Circuits, k \in Kinds :
          /\ v.pc = "artifact" /\ v.at = c /\ KindOrder[v.kind] = k
          /\ artifact[c][k] = Case(c)[k] /\ w = NextArtifact(c, k)
    BY <1>11 DEF CheckArtifact, Check
  <2> DEFINE read == [v.read EXCEPT ![c][k] = artifact[c][k]]
  <2>2. /\ read \in [Circuits -> Artifacts]
        /\ \A d \in Circuits, j \in Kinds :
             read[d][j] = IF d = c /\ j = k THEN v.report.cases[c][k] ELSE v.read[d][j]
    <3>1. [v.read[c] EXCEPT ![k] = artifact[c][k]] \in Artifacts
      BY <1>1, <1>2, <2>1 DEF Artifacts, Kinds
    <3> QED BY <1>2, <2>1, <3>1 DEF Case, Artifacts, Kinds
  <2>3. /\ w \in VerifierStates /\ w.read = read /\ w.at = c /\ w.report = v.report
        /\ w.reason = v.reason
        /\ \/ v.kind < 4 /\ w.pc = "artifact" /\ w.kind = v.kind + 1
           \/ v.kind = 4 /\ w.pc = "signals" /\ w.kind = 1
    <3> HIDE DEF read
    <3>1. CASE v.kind < 4
      <4> DEFINE next == v.kind + 1
      <4>1. w = [v EXCEPT !.read = read, !.kind = next] /\ next \in 1..4
        BY <1>1, <1>2, <2>1, <3>1 DEF NextArtifact, read, VerifierStates
      <4> HIDE DEF next
      <4>2. w \in VerifierStates /\ w.read = read /\ w.at = c /\ w.report = v.report
            /\ w.reason = v.reason /\ w.pc = "artifact" /\ w.kind = next
        BY <1>1, <2>1, <2>2, <4>1 DEF VerifierStates
      <4> QED BY <3>1, <4>2 DEF next
    <3>2. CASE v.kind = 4
      <4>1. w = [v EXCEPT !.read = read, !.kind = 1, !.pc = "signals"]
        BY <1>1, <2>1, <3>2 DEF NextArtifact, read, VerifierStates
      <4>2. "signals" \in VerifierPhases /\ 1 \in 1..4
        BY <1>5
      <4>3. w \in VerifierStates /\ w.read = read /\ w.at = c /\ w.report = v.report
            /\ w.reason = v.reason /\ w.pc = "signals" /\ w.kind = 1
        BY <1>1, <2>1, <2>2, <4>1, <4>2 DEF VerifierStates
      <4> QED BY <3>2, <4>3
    <3> QED BY <1>2, <3>1, <3>2
  <2> HIDE DEF read
  <2>4. \A j \in Kinds, i \in 1..4 : KindOrder[i] = j /\ i \in 1..(v.kind - 1)
                                       => Compared(v, c, j)
    BY <2>1 DEF Compared
  <2>5. ASSUME NEW d \in Circuits, NEW j \in Kinds, Compared(w, d, j)
        PROVE  (d = c /\ j = k) \/ Compared(v, d, j)
    <3>1. \E i \in 1..4 : KindOrder[i] = j
      BY DEF KindOrder, Kinds
    <3> QED BY <1>2, <2>1, <2>3, <2>5, <3>1 DEF Compared, Circuits
  <2>6. \A d \in Circuits, j \in Kinds : Compared(w, d, j) => w.read[d][j] = w.report.cases[d][j]
    BY <1>1, <2>2, <2>3, <2>5 DEF FollowsReport
  <2> QED BY <1>1, <1>6, <2>1, <2>3, <2>6 DEF FollowsReport, Compared
<1>12. CASE (CheckSignals \/ (CheckValid /\ w.pc # "fail")) /\ w # Unread("fail")
  <2>1. \/ v.pc = "signals" /\ w = [v EXCEPT !.pc = "valid"]
        \/ v.pc = "valid" /\ w = [v EXCEPT !.pc = "tampered"]
    <3>1. CASE CheckSignals
      BY <1>12, <3>1 DEF CheckSignals, Check
    <3>2. CASE CheckValid /\ w.pc # "fail"
      <4>1. PICK c \in Circuits, ending \in OutcomesSeen :
              /\ v.pc = "valid"
              /\ w = IF ending = "OK" THEN [v EXCEPT !.pc = "tampered"]
                     ELSE [Unread("fail") EXCEPT !.reason[c] = ending]
        BY <3>2, EndingsAreSeen DEF CheckValid
      <4>2. [Unread("fail") EXCEPT !.reason[c] = ending].pc = "fail"
        BY DEF Unread
      <4> QED BY <3>2, <4>1, <4>2
    <3> QED BY <1>12, <3>1, <3>2
  <2>2. w \in VerifierStates
    BY <1>4, <1>5, <2>1
  <2>3. /\ w.pc \in {"valid", "tampered"} /\ w.at = v.at /\ w.kind = v.kind
        /\ w.report = v.report /\ w.read = v.read /\ w.reason = v.reason
    BY <1>1, <2>1 DEF VerifierStates
  <2> QED BY <1>1, <1>6, <2>1, <2>2, <2>3 DEF FollowsReport, Compared
<1>13. CASE CheckTampered /\ w # Unread("fail")
  <2>1. PICK c \in Circuits, ending \in OutcomesSeen :
          /\ ending \in Endings(TamperedVerified(c))
          /\ v.pc = "tampered" /\ v.at = c /\ ending # "OK"
          /\ w = NextCircuit([v EXCEPT !.reason[c] = ending], "case", "pass")
    BY <1>13, EndingsAreSeen DEF CheckTampered, Check
  <2> DEFINE k == [v EXCEPT !.reason[c] = ending]
  <2>3. /\ k \in VerifierStates /\ k.kind = v.kind /\ k.report = v.report
        /\ k.read = v.read /\ k.at = c
        /\ \A d \in Circuits : k.reason[d] = IF d = c THEN ending ELSE v.reason[d]
    BY <1>1, <2>1 DEF VerifierStates
  <2> HIDE DEF k
  <2>4. /\ w \in VerifierStates /\ w.kind = v.kind
        /\ w.report = v.report /\ w.read = v.read /\ w.reason = k.reason
        /\ \/ w.pc = "case" /\ c < NCircuits /\ w.at = c + 1
           \/ w.pc = "pass" /\ c = NCircuits /\ w.at = 1
    <3>1. "case" \in VerifierPhases /\ "pass" \in VerifierPhases
      BY <1>5
    <3>2. LET n == NextCircuit(k, "case", "pass")
          IN  /\ n \in VerifierStates /\ n.kind = k.kind
              /\ n.report = k.report /\ n.read = k.read /\ n.reason = k.reason
              /\ \/ n.pc = "case" /\ k.at < NCircuits /\ n.at = k.at + 1
                 \/ n.pc = "pass" /\ k.at = NCircuits /\ n.at = 1
      BY <2>3, <3>1, NextCircuitOfVerifier
    <3>3. w = NextCircuit(k, "case", "pass")
      BY <2>1 DEF k
    <3> QED BY <2>3, <3>2, <3>3
  <2>5. ASSUME NEW d \in Circuits, NEW j \in Kinds, Compared(w, d, j)
        PROVE  Compared(v, d, j)
    BY <1>2, <2>1, <2>4, <2>5, GenesisAssumption DEF Compared, Circuits
  <2>6. ASSUME calm, NEW d \in Circuits, w.pc = "pass" \/ d < w.at
        PROVE  w.reason[d] \in Endings("invalid")
    <3>1. CASE d = c
      <4>1. /\ artifact[c].vkey # None /\ artifact[c].tampered # None
            /\ artifact[c].proof # None
        BY <1>1, <2>1, <2>6 DEF FollowsReport, Kinds
      <4>2. TamperedVerified(c) \in {"OK", "invalid"}
        BY <4>1 DEF TamperedVerified, Outcome
      <4>3. ending \in Endings("invalid")
        BY <2>1, <4>2 DEF Endings
      <4> QED BY <2>3, <2>4, <3>1, <4>3
    <3>2. CASE d # c
      <4>1. d < v.at
        BY <1>2, <2>1, <2>4, <2>6, <3>2, GenesisAssumption DEF Circuits
      <4>2. v.reason[d] \in Endings("invalid")
        BY <1>1, <2>1, <2>6, <4>1 DEF FollowsReport
      <4> QED BY <2>3, <2>4, <3>2, <4>2
    <3> QED BY <3>1, <3>2
  <2>7. calm' = calm
    BY <1>1, <2>1
  <2> QED BY <1>1, <1>6, <2>1, <2>4, <2>5, <2>6, <2>7 DEF FollowsReport, Compared
<1>14. CASE CheckValid /\ w.pc = "fail"
  <2>1. PICK c \in Circuits, ending \in OutcomesSeen :
          w = IF ending = "OK" THEN [v EXCEPT !.pc = "tampered"]
              ELSE [Unread("fail") EXCEPT !.reason[c] = ending]
    BY <1>14, EndingsAreSeen DEF CheckValid
  <2>3. w = [Unread("fail") EXCEPT !.reason[c] = ending]
    BY <1>1, <1>14, <2>1 DEF VerifierStates
  <2>4. Unread("fail") \in VerifierStates /\ FollowsReport(Unread("fail"))
    BY UnreadFollows
  <2>5. w \in VerifierStates
    BY <2>3, <2>4 DEF VerifierStates
  <2> QED BY <2>3, <2>5 DEF Unread, FollowsReport, Compared
<1> QED BY <1>1, <1>7, <1>8, <1>9, <1>10, <1>11, <1>12, <1>13, <1>14 DEF VerifyStep, VerifyOn

-----------------------------------------------------------------------------
(* The theorems. *)

LEMMA InitHolds == Init => ProofInv
<1> SUFFICES ASSUME Init PROVE ProofInv
  OBVIOUS
<1>0. 1 \in Circuits /\ 1 \in Versions
  BY GenesisAssumption DEF Circuits, Versions
<1>1. GenesisTypeOK
  <2>1. Fresh("idle") \in GenesisStates /\ Fresh("idle").pc = "idle"
    BY <1>0 DEF Fresh, GenesisStates, GenesisPhases
  <2> QED BY <1>0, <2>1 DEF Init, GenesisInit, GenesisTypeOK
<1>2. EvidenceTypeOK
  BY DEF Init, EvidenceInit, EvidenceTypeOK, NoArtifacts, Artifacts, Kinds
<1>3. Idle("idle") \in PipelineStates /\ Idle("idle").pc = "idle" /\ Idle("idle").at = 1
  BY <1>0 DEF Idle, PipelineStates, OutcomesSeen, PipelinePhases
<1>4. PipelineTypeOK /\ OneAtATime
  BY <1>3 DEF Init, PipelineInit, PipelineTypeOK, OneAtATime, PipelineActive
<1>5. VerifierTypeOK /\ FollowsReport(verifier)
  BY UnreadFollows DEF Init, VerifierInit, VerifierTypeOK
<1>6. PipelinesProgress
  <2>1. \A p \in Pipelines : genesis[p].pc = "idle"
    BY DEF Init, GenesisInit, Runners, Fresh
  <2> QED BY <1>3, <2>1 DEF Init, PipelineInit, PipelinesProgress, Progress, AfterGenesis,
             AfterClear, WithKey
<1>7. ArtifactsAreFresh /\ SourcesAreNamed /\ OfItsPipeline(report) /\ OldReportIsBroken
  BY DEF Init, GenesisInit, EvidenceInit, ArtifactsAreFresh, SourcesAreNamed, NamesTheSources,
         OfItsPipeline, OldReportIsBroken, Fresh
<1>8. edited \in [Runners -> SUBSET Circuits] /\ calm \in BOOLEAN
  BY DEF Init
<1> QED BY <1>1, <1>2, <1>4, <1>5, <1>6, <1>7, <1>8 DEF ProofInv, TypeOK

LEMMA NextPreserves == Exclusive /\ ProofInv /\ [Next]_vars => ProofInv'
<1> SUFFICES ASSUME Exclusive, ProofInv, [Next]_vars PROVE ProofInv'
  OBVIOUS
<1>1. CASE UNCHANGED vars
  <2>1. verifier' \in VerifierStates /\ calm' \in BOOLEAN
        /\ UNCHANGED <<genesisVars, evidenceVars, pipelineVars, edited>>
    BY <1>1 DEF vars, ProofInv, TypeOK, VerifierTypeOK
  <2>2. FollowsReport(verifier)'
    BY <1>1 DEF vars, evidenceVars, pipelineVars, ProofInv, FollowsReport, OfItsPipeline,
                Report, Compared
  <2> QED BY <2>1, <2>2, VerifierPreserves
<1> QED BY <1>1, TestPreserves, GenesisMovePreserves, BeginPreserves, PipelineMovePreserves,
           EditPreserves, VerificationPreserves DEF Next

\* However pipelines and runs die, whatever is edited meanwhile, and whenever a
\* verification looks: a pipeline has made itself all that it records, the
\* report is its last file, and a verification accepts only what it names.
THEOREM ProofInvariant == ASSUME Exclusive PROVE Spec => []ProofInv
<1>1. Init => ProofInv
  BY InitHolds
<1>2. ProofInv /\ [Next]_vars => ProofInv'
  BY NextPreserves
<1> QED BY <1>1, <1>2, PTL DEF Spec

\* What a verification that passes has accepted: a record of the pipeline for
\* each circuit, and the files the record names.
LEMMA AcceptedRecords ==
    ASSUME ProofInv, Passed, NEW c \in Circuits
    PROVE  /\ Accepted.by \in Pipelines /\ pipeline[Accepted.by].pc = "done"
           /\ RecordOf(Accepted.by, c, Accepted.cases[c], pipeline[Accepted.by].reason[c])
           /\ Accepted.genesis \in Manifests /\ NamesTheSources(Accepted.genesis)
           /\ \A k \in Kinds : verifier.read[c][k] = Accepted.cases[c][k]
<1>1. /\ Accepted \in Reports /\ Accepted # None /\ OfItsPipeline(Accepted)
      /\ \A k \in Kinds : verifier.read[c][k] = Accepted.cases[c][k]
  BY DEF ProofInv, TypeOK, VerifierTypeOK, VerifierStates, FollowsReport, Compared, Passed,
         Accepted
<1>2. /\ Accepted.by \in Pipelines /\ pipeline[Accepted.by].pc = "done"
      /\ Accepted.cases = pipeline[Accepted.by].cases
      /\ Accepted.genesis = pipeline[Accepted.by].genesis
  BY <1>1 DEF Reports, OfItsPipeline, Report
<1>3. Progress(Accepted.by, pipeline[Accepted.by])
  BY <1>2, PipelineHere
<1>4. /\ RecordOf(Accepted.by, c, Accepted.cases[c], pipeline[Accepted.by].reason[c])
      /\ Accepted.genesis \in Manifests /\ NamesTheSources(Accepted.genesis)
  BY <1>2, <1>3 DEF Progress, Bound, AfterGenesis, PipelinePhases
<1> QED BY <1>1, <1>2, <1>4

\* What a verification that passes has read: one piece for each circuit.
LEMMA AcceptedPieces ==
    ASSUME ProofInv, Passed, NEW c \in Circuits
    PROVE  /\ Accepted.by \in Pipelines /\ pipeline[Accepted.by].pc = "done"
           /\ PieceOf(Accepted.by, c, verifier.read[c])
<1>1. PieceOf(Accepted.by, c, Accepted.cases[c])
  BY AcceptedRecords DEF RecordOf
<1>2. /\ verifier.read[c].vkey = Accepted.cases[c].vkey
      /\ verifier.read[c].proof = Accepted.cases[c].proof
      /\ verifier.read[c].public = Accepted.cases[c].public
      /\ verifier.read[c].tampered = Accepted.cases[c].tampered
  BY AcceptedRecords DEF Kinds
<1> QED BY <1>1, <1>2, AcceptedRecords DEF PieceOf, ProofOf

\* However the processes before it died, a verification never accepts the files
\* of two ceremonies together, nor a proof that does not hold.
THEOREM AcceptedFromOneCeremony == ASSUME Exclusive PROVE Spec => []AcceptedOfOneCeremony
<1>1. ProofInv => AcceptedOfOneCeremony
  <2> SUFFICES ASSUME ProofInv, Passed PROVE AcceptedOfOneCeremony
    BY DEF AcceptedOfOneCeremony
  <2>1. pipeline[Accepted.by].pc = "done"
    BY AcceptedPieces, GenesisAssumption DEF Circuits
  <2>2. ASSUME NEW c \in Circuits
        PROVE  LET f == verifier.read[c]
               IN  /\ {f.vkey.by, f.vkey.tau, f.proof.by} = {Accepted.by}
                   /\ Outcome(f.vkey, f.public, f.proof) = "OK"
                   /\ f.tampered = Mutate(f.public)
    <3> DEFINE f == verifier.read[c]
    <3>1. PieceOf(Accepted.by, c, f)
      BY AcceptedPieces
    <3>2. None \notin {f.vkey, f.public, f.proof}
      BY <3>1 DEF PieceOf, KeyOf, ProofOf, Keys, Proofs, PublicSignals, None
    <3> QED BY <3>1, <3>2 DEF PieceOf, KeyOf, ProofOf, Outcome
  <2> QED BY <2>1, <2>2 DEF AcceptedOfOneCeremony
<1> QED BY <1>1, ProofInvariant, PTL

\* The proofs accepted are of the circuits in the tree, unless these were edited
\* since the pipeline began.
THEOREM StaleOnlyByEdits == ASSUME Exclusive PROVE Spec => []ProofsGoStaleByEdits
<1>1. ProofInv => ProofsGoStaleByEdits
  BY AcceptedPieces DEF ProofsGoStaleByEdits, PieceOf, KeyOf
<1> QED BY <1>1, ProofInvariant, PTL

\* Once a pipeline has begun to clear the old proofs, they are not accepted again.
THEOREM StaleProofsAreRefused == ASSUME Exclusive PROVE Spec => []NoStaleProofs
<1>1. ProofInv => NoStaleProofs
  <2> SUFFICES ASSUME ProofInv, Passed, calm PROVE Accepted.by = owner
    BY DEF NoStaleProofs
  <2>1. /\ verifier.pc = "pass" /\ verifier.report # None /\ verifier.report = report
        /\ \A c \in Circuits, k \in Kinds : artifact[c][k] # None
    BY DEF ProofInv, FollowsReport, Passed
  <2> QED BY <2>1 DEF ProofInv, OldReportIsBroken, Accepted
<1> QED BY <1>1, ProofInvariant, PTL

\* The report names the circuit its key was made for, unless it was edited while
\* the pipeline ran.
THEOREM RecordNamesTheCircuit == ASSUME Exclusive PROVE Spec => []RecordedCircuitWasProved
<1>1. ProofInv => RecordedCircuitWasProved
  BY AcceptedRecords DEF RecordedCircuitWasProved, RecordOf, PieceOf, KeyOf
<1> QED BY <1>1, ProofInvariant, PTL

\* The Genesis evidence the report names, of whatever run, is about the circuits
\* proved, unless they were edited meanwhile.
THEOREM RecordNamesTheEvidence == ASSUME Exclusive PROVE Spec => []RecordedGenesisIsAboutIt
<1>1. ProofInv => RecordedGenesisIsAboutIt
  <2> SUFFICES ASSUME ProofInv, Passed,
                      NEW c \in Circuits \ (edited[Accepted.by] \cup edited[Accepted.genesis.run])
               PROVE  Accepted.genesis.sources[c] = Accepted.cases[c].vkey.circuit
    BY DEF RecordedGenesisIsAboutIt
  <2>1. Accepted.genesis # None
    BY AcceptedRecords DEF Manifests, None
  <2>2. Accepted.genesis.sources[c] = source[c]
    BY <2>1, AcceptedRecords DEF NamesTheSources
  <2>3. Accepted.cases[c].vkey.circuit = source[c]
    BY AcceptedRecords DEF RecordOf, PieceOf, KeyOf
  <2> QED BY <2>2, <2>3
<1> QED BY <1>1, ProofInvariant, PTL

\* What is accepted as rejected is: the proof does not hold for the changed signals.
\* The rejection recorded and, undisturbed, the one seen came of that, unless snarkjs
\* crashed.
THEOREM RejectionsAreDue == ASSUME Exclusive PROVE Spec => []RejectionIsDue
<1>1. ProofInv => RejectionIsDue
  <2> SUFFICES ASSUME ProofInv, Passed, NEW c \in Circuits
               PROVE  /\ Outcome(verifier.read[c].vkey, verifier.read[c].tampered,
                                 verifier.read[c].proof) = "invalid"
                      /\ pipeline[Accepted.by].reason[c] \in Endings("invalid")
                      /\ calm => verifier.reason[c] \in Endings("invalid")
    BY DEF RejectionIsDue
  <2> DEFINE f == verifier.read[c]
  <2>1. /\ f.vkey \in Keys /\ f.proof \in Proofs
        /\ f.tampered = Mutate(PublicSignals(f.proof.witness))
    BY AcceptedPieces DEF PieceOf, KeyOf, ProofOf
  <2> HIDE DEF f
  <2>2. Outcome(f.vkey, f.tampered, f.proof) = "invalid"
    <3>1. /\ f.tampered.kind = "signals" /\ f.tampered.mutated
          /\ f.vkey.kind = "key" /\ f.proof.kind = "proof"
      BY <2>1 DEF Mutate, PublicSignals, Keys, Proofs
    <3> QED BY <3>1 DEF Outcome, PublicSignals, None
  <2>3. pipeline[Accepted.by].reason[c] \in Endings("invalid")
    BY AcceptedRecords DEF RecordOf
  <2> QED BY <2>2, <2>3 DEF f, ProofInv, FollowsReport, Passed
<1> QED BY <1>1, ProofInvariant, PTL

-----------------------------------------------------------------------------
(* What stands is accepted. *)

\* A step that leaves the owner, its memory and the public evidence.
LEMMA RestingHolds ==
    ASSUME OwnerHolds, UNCHANGED <<owner, artifact, report>>,
           owner # None => \/ pipeline'[owner] = pipeline[owner]
                           \/ pipeline'[owner].pc \notin AfterClear \cup {"done"}
    PROVE  OwnerHolds'
<1>1. AfterClear' = AfterClear /\ "done" \in AfterClear \cup {"done"}
  OBVIOUS
<1>2. CASE owner # None /\ pipeline'[owner] = pipeline[owner]
  <2> DEFINE m == pipeline[owner]
  <2>1. m = pipeline'[owner]
    BY <1>2
  <2>2. m.pc \in AfterClear \cup {"done"} =>
          \A c \in Circuits, k \in Kinds : Bound(m, c) => artifact[c][k] = m.cases[c][k]
    BY <1>2 DEF OwnerHolds
  <2>3. m.pc = "done" => report = [kind |-> "report", by |-> owner, cases |-> m.cases,
                                  genesis |-> m.genesis]
    BY <1>2 DEF OwnerHolds, Report
  <2> HIDE DEF m
  <2> QED BY <1>2, <2>1, <2>2, <2>3 DEF OwnerHolds, Report
<1>3. CASE owner # None /\ pipeline'[owner].pc \notin AfterClear \cup {"done"}
  BY <1>3 DEF OwnerHolds
<1> QED BY <1>2, <1>3 DEF OwnerHolds

\* A step of the owner, p, that leaves what it has recorded, in its memory and on
\* the disk.
LEMMA OwnerGoesOn ==
    ASSUME OwnerHolds, NEW p \in Pipelines, owner' = p, owner = p,
           pipeline[p].pc \in AfterClear,
           pipeline'[p].pc # "done",
           \A c \in Circuits : Bound(pipeline'[p], c) =>
             \/ /\ Bound(pipeline[p], c)
                /\ artifact'[c] = artifact[c]
                /\ pipeline'[p].cases[c] = pipeline[p].cases[c]
             \/ \A k \in Kinds : artifact'[c][k] = pipeline'[p].cases[c][k]
    PROVE  OwnerHolds'
<1> SUFFICES ASSUME p # None PROVE OwnerHolds'
  BY DEF OwnerHolds
<1>1. \A c \in Circuits, k \in Kinds :
        Bound(pipeline[p], c) => artifact[c][k] = pipeline[p].cases[c][k]
  BY DEF OwnerHolds
<1>2. \A c \in Circuits, k \in Kinds :
        Bound(pipeline'[p], c) => artifact'[c][k] = pipeline'[p].cases[c][k]
  BY <1>1
<1> QED BY <1>2 DEF OwnerHolds, Bound

\* Before it has cleared the old proofs, a pipeline is not the owner, or has
\* recorded nothing.
LEMMA ClearingHolds ==
    ASSUME ProofInv, OwnerHolds, NEW p \in Pipelines,
           AwaitGenesis(p) \/ RemoveEvidence(p) \/ EvidenceRemoved(p)
    PROVE  OwnerHolds'
<1>1. /\ pipeline \in [Pipelines -> PipelineStates] /\ Progress(p, pipeline[p])
      /\ owner \in Pipelines \cup {None}
  BY PipelineHere DEF ProofInv, TypeOK, PipelineTypeOK
<1>2. CASE AwaitGenesis(p)
  <2>1. Go(p, "clear") /\ UNCHANGED <<owner, artifact, report>>
    BY <1>2 DEF AwaitGenesis, evidenceVars
  <2>2. \A q \in Pipelines \ {p} : pipeline'[q] = pipeline[q]
    BY <1>1, <2>1, GoEffect DEF PipelinePhases
  <2>3. pipeline'[p].pc = "clear"
    BY <1>1, <2>1, GoEffect DEF PipelinePhases
  <2> QED BY <1>1, <2>1, <2>2, <2>3, RestingHolds DEF AfterClear
<1>3. CASE RemoveEvidence(p)
  <2>1. owner' = p /\ pipeline'[p].pc = "clear"
    BY <1>3 DEF RemoveEvidence
  <2> QED BY <2>1 DEF OwnerHolds, AfterClear
<1>4. CASE EvidenceRemoved(p)
  <2>1. owner' = p /\ pipeline[p].pc = "clear" /\ Go(p, "ceremony")
    BY <1>4 DEF EvidenceRemoved
  <2>2. pipeline'[p].pc = "ceremony" /\ pipeline'[p].at = 1
    BY <1>1, <2>1, GoEffect DEF PipelinePhases, Progress
  <2>3. \A c \in Circuits : ~ Bound(pipeline'[p], c)
    BY <2>2 DEF Bound, Circuits
  <2> QED BY <2>1, <2>2, <2>3 DEF OwnerHolds
<1> QED BY <1>2, <1>3, <1>4

\* While it makes the files of a circuit, a pipeline leaves those of the others.
LEMMA CaseHolds ==
    ASSUME ProofInv, OwnerHolds, NEW p \in Pipelines,
           \/ Ceremony(p) \/ ReadInfo(p) \/ Setup(p) \/ VerifyKey(p) \/ ExportKey(p)
           \/ Prove(p) \/ Verify(p) \/ Tamper(p) \/ Reject(p) \/ Bind(p)
    PROVE  OwnerHolds'
<1> DEFINE m == pipeline[p]
           n == pipeline'[p]
           c == m.at
           steps == {"ceremony", "info", "setup", "verifyKey", "export", "prove", "verify",
                     "tamper", "reject", "bind"}
<1>1. /\ pipeline \in [Pipelines -> PipelineStates] /\ m \in PipelineStates
      /\ c \in Circuits /\ Progress(p, m) /\ artifact \in [Circuits -> Artifacts]
  BY PipelineHere DEF ProofInv, TypeOK, EvidenceTypeOK
<1>2. m.pc \in steps
  BY DEF Ceremony, ReadInfo, Setup, VerifyKey, ExportKey, Prove, Verify, Tamper, Reject,
         Bind, At
<1>3. m.pc \in AfterClear /\ owner = p /\ report = None
  BY <1>1, <1>2 DEF Progress, AfterClear, AfterGenesis, PipelinePhases
<1>4. CASE Ceremony(p)
  <2>1. Go(p, "info") /\ owner' = p /\ c = 1
    BY <1>1, <1>3, <1>4 DEF Ceremony, Progress
  <2>2. n.pc = "info" /\ n.at = 1
    BY <1>1, <2>1, GoEffect DEF PipelinePhases
  <2>3. \A i \in Circuits : ~ Bound(n, i)
    BY <2>2 DEF Bound, Circuits
  <2> QED BY <1>3, <2>1, <2>2, <2>3, OwnerGoesOn
<1>5. ASSUME n.pc \in steps, n.at = c, n.cases = m.cases, owner' = owner,
             \A i \in Circuits \ {c} : artifact'[i] = artifact[i]
      PROVE  OwnerHolds'
  <2>1. \A i \in Circuits : Bound(n, i) => i < c /\ i # c /\ Bound(m, i)
    BY <1>1, <1>5 DEF Bound, Circuits
  <2>2. n.pc # "done"
    BY <1>5
  <2> QED BY <1>3, <1>5, <2>1, <2>2, OwnerGoesOn
<1>6. \A pc \in steps : Go(p, pc) => n.pc = pc /\ n.at = c /\ n.cases = m.cases
  <2>1. steps \subseteq PipelinePhases
    BY DEF PipelinePhases
  <2> QED BY <1>1, <2>1, GoEffect
<1>7. CASE ReadInfo(p)
  <2>1. /\ pipeline' = [pipeline EXCEPT ![p].pc = "setup", ![p].metrics = r1cs[c]]
        /\ UNCHANGED <<artifact, owner>>
    BY <1>7 DEF ReadInfo, evidenceVars
  <2>2. n.pc = "setup" /\ n.at = c /\ n.cases = m.cases
    BY <1>1, <2>1 DEF PipelineStates
  <2> QED BY <1>5, <2>1, <2>2
<1>8. CASE Setup(p) \/ VerifyKey(p) \/ Verify(p)
  <2>1. /\ \E pc \in steps : Go(p, pc)
        /\ UNCHANGED <<artifact, owner>>
    BY <1>8 DEF Setup, VerifyKey, Verify, evidenceVars
  <2> QED BY <1>5, <1>6, <2>1
<1>9. CASE ExportKey(p) \/ Prove(p) \/ Tamper(p)
  <2>1. /\ \E pc \in steps : Go(p, pc)
        /\ \A i \in Circuits \ {c} : artifact'[i] = artifact[i]
        /\ UNCHANGED owner
    BY <1>1, <1>9 DEF ExportKey, Prove, Tamper, At
  <2> QED BY <1>5, <1>6, <2>1
<1>10. CASE Reject(p)
  <2>1. PICK ending \in OutcomesSeen :
          /\ pipeline' = [pipeline EXCEPT ![p].pc = "bind", ![p].reason[c] = ending]
          /\ UNCHANGED <<artifact, owner>>
    BY <1>1, <1>10, EndingsAreSeen DEF Reject, At, evidenceVars
  <2>2. n.pc = "bind" /\ n.at = c /\ n.cases = m.cases
    BY <1>1, <2>1 DEF PipelineStates
  <2> QED BY <1>5, <2>1, <2>2
<1>11. CASE Bind(p)
  <2> DEFINE r == CaseReport(p, c)
             next == [m EXCEPT !.cases[c] = r]
  <2>1. /\ m.pc = "bind" /\ UNCHANGED <<artifact, owner>>
        /\ \A k \in Kinds : artifact[c][k] # None
        /\ pipeline' = [pipeline EXCEPT ![p] = NextCircuit(next, "info", "bindManifest")]
    BY <1>11 DEF Bind, At, Ready, evidenceVars
  <2>2. /\ m.cases \in [Circuits -> CaseReports \cup {None}]
        /\ \A k \in Kinds : r[k] = artifact[c][k]
    BY <1>1 DEF PipelineStates, CaseReport, Kinds
  <2>3. /\ next.at = c
        /\ \A i \in Circuits : next.cases[i] = IF i = c THEN r ELSE m.cases[i]
    BY <1>1, <2>2 DEF PipelineStates
  <2> HIDE DEF r
  <2>4. /\ n = NextCircuit(next, "info", "bindManifest")
        /\ n.cases = next.cases
        /\ \/ n.pc = "info" /\ n.at = c + 1
           \/ n.pc = "bindManifest" /\ c = NCircuits
    <3>1. c \in 1..NCircuits /\ NCircuits \in Nat
      BY <1>1, GenesisAssumption DEF Circuits
    <3>2. n = NextCircuit(next, "info", "bindManifest")
      BY <1>1, <2>1
    <3>3. CASE c < NCircuits
      <4>1. NextCircuit(next, "info", "bindManifest")
              = [next EXCEPT !.pc = "info", !.at = c + 1]
        BY <2>3, <3>3 DEF NextCircuit
      <4> QED BY <1>1, <3>2, <4>1 DEF PipelineStates
    <3>4. CASE ~ (c < NCircuits)
      <4>1. NextCircuit(next, "info", "bindManifest")
              = [next EXCEPT !.pc = "bindManifest", !.at = 1]
        BY <2>3, <3>4 DEF NextCircuit
      <4>2. c = NCircuits
        BY <3>1, <3>4
      <4> QED BY <1>1, <3>2, <4>1, <4>2 DEF PipelineStates
    <3> QED BY <3>3, <3>4
  <2> HIDE DEF next
  <2>5. n.pc # "done" /\ owner' = p
    BY <1>3, <2>1, <2>4
  <2>6. \A i \in Circuits : Bound(n, i) => i = c \/ (i # c /\ Bound(m, i))
    <3>1. c \in Nat /\ NCircuits \in Nat /\ Circuits = 1..NCircuits
      BY <1>1, GenesisAssumption DEF Circuits
    <3> QED BY <2>4, <3>1 DEF Bound
  <2>7. ASSUME NEW i \in Circuits, Bound(n, i)
        PROVE  \/ Bound(m, i) /\ artifact'[i] = artifact[i] /\ n.cases[i] = m.cases[i]
               \/ \A k \in Kinds : artifact'[i][k] = n.cases[i][k]
    BY <2>1, <2>2, <2>3, <2>4, <2>6, <2>7
  <2> QED BY <1>3, <2>5, <2>7, OwnerGoesOn
<1> QED BY <1>4, <1>7, <1>8, <1>9, <1>10, <1>11

\* The report is of what is recorded.
LEMMA EndHolds ==
    ASSUME ProofInv, OwnerHolds, NEW p \in Pipelines, BindManifest(p) \/ WriteReport(p)
    PROVE  OwnerHolds'
<1> DEFINE m == pipeline[p]
           n == pipeline'[p]
<1>1. /\ pipeline \in [Pipelines -> PipelineStates] /\ m \in PipelineStates
      /\ Progress(p, m)
  BY PipelineHere
<1>2. m.pc \in {"bindManifest", "write"}
  BY DEF BindManifest, WriteReport
<1>3. m.pc \in AfterClear /\ owner = p /\ \A c \in Circuits : Bound(m, c)
  BY <1>1, <1>2 DEF Progress, AfterClear, AfterGenesis, PipelinePhases, Bound
<1>4. CASE BindManifest(p)
  <2>1. /\ pipeline' = [pipeline EXCEPT ![p].pc = "write", ![p].genesis = manifest]
        /\ UNCHANGED <<artifact, owner>>
    BY <1>4 DEF BindManifest, evidenceVars
  <2>2. n.pc = "write" /\ n.cases = m.cases
    BY <1>1, <2>1 DEF PipelineStates
  <2> QED BY <1>3, <2>1, <2>2, OwnerGoesOn
<1>5. CASE WriteReport(p)
  <2>1. Go(p, "done") /\ report' = Report(p) /\ UNCHANGED <<artifact, owner>>
    BY <1>5 DEF WriteReport
  <2>2. n.pc = "done" /\ n.cases = m.cases /\ n.genesis = m.genesis
    BY <1>1, <2>1, GoEffect DEF PipelinePhases
  <2>3. report' = Report(p)'
    BY <2>1, <2>2 DEF Report
  <2>4. owner # None => \A c \in Circuits, k \in Kinds : artifact'[c][k] = n.cases[c][k]
    BY <1>3, <2>1, <2>2 DEF OwnerHolds
  <2> QED BY <1>3, <2>1, <2>3, <2>4 DEF OwnerHolds
<1> QED BY <1>4, <1>5

LEMMA PipelineMoveHolds ==
    ASSUME ProofInv, OwnerHolds, NEW p \in Pipelines, PipelineMove(p)
    PROVE  OwnerHolds'
<1>1. PipelineWork(p) \/ PipelineKill(p)
  BY DEF PipelineMove, Beside
<1>2. CASE PipelineThrow(p) \/ PipelineKill(p)
  <2>1. /\ pipeline' = [pipeline EXCEPT ![p] = Idle("dead")]
        /\ UNCHANGED <<owner, artifact, report>>
    BY <1>2 DEF PipelineThrow, PipelineKill, PipelineDie, evidenceVars
  <2>2. pipeline'[p].pc = "dead" /\ \A q \in Pipelines \ {p} : pipeline'[q] = pipeline[q]
    BY <2>1, PipelineHere DEF Idle
  <2>3. owner \in Pipelines \cup {None}
    BY DEF ProofInv, TypeOK, PipelineTypeOK
  <2> QED BY <2>1, <2>2, <2>3, RestingHolds DEF AfterClear, AfterGenesis
<1> QED BY <1>1, <1>2, ClearingHolds, CaseHolds, EndHolds DEF PipelineWork

LEMMA NextHolds == ProofInv /\ OwnerHolds /\ [Next]_vars => OwnerHolds'
<1> SUFFICES ASSUME ProofInv, OwnerHolds, [Next]_vars PROVE OwnerHolds'
  OBVIOUS
<1>1. ASSUME UNCHANGED <<pipeline, owner, artifact, report>> PROVE OwnerHolds'
  BY <1>1, RestingHolds
<1>2. CASE UNCHANGED vars
  BY <1>1, <1>2 DEF vars, evidenceVars, pipelineVars
<1>3. ASSUME NEW g \in Runs, Test(g) PROVE OwnerHolds'
  BY <1>1, <1>3 DEF Test, evidenceVars, pipelineVars
<1>4. ASSUME NEW g \in Runners, GenesisMove(g) PROVE OwnerHolds'
  BY <1>1, <1>4 DEF GenesisMove, evidenceVars, pipelineVars
<1>5. ASSUME NEW c \in Circuits, Edit(c) PROVE OwnerHolds'
  BY <1>1, <1>5 DEF Edit, evidenceVars, pipelineVars
<1>6. CASE Verification
  BY <1>1, <1>6 DEF Verification, evidenceVars, pipelineVars
<1>7. ASSUME NEW p \in Pipelines, BeginPipeline(p) PROVE OwnerHolds'
  <2>1. Go(p, "genesis") /\ UNCHANGED <<owner, artifact, report>>
    BY <1>7 DEF BeginPipeline, Beside, Begin, evidenceVars
  <2>2. /\ pipeline'[p].pc = "genesis"
        /\ \A q \in Pipelines \ {p} : pipeline'[q] = pipeline[q]
    BY <2>1, PipelineHere, GoEffect DEF PipelinePhases
  <2>3. owner \in Pipelines \cup {None}
    BY DEF ProofInv, TypeOK, PipelineTypeOK
  <2> QED BY <2>1, <2>2, <2>3, RestingHolds DEF AfterClear, AfterGenesis
<1> QED BY <1>2, <1>3, <1>4, <1>5, <1>6, <1>7, PipelineMoveHolds DEF Next

\* What a pipeline has recorded since it cleared the old proofs is on the disk,
\* whatever runs, edits and verifications do beside it.
THEOREM RecordsAreOnTheDisk == ASSUME Exclusive PROVE Spec => []OwnerHolds
<1>1. Init => OwnerHolds
  BY DEF Init, PipelineInit, OwnerHolds
<1> QED BY <1>1, NextHolds, ProofInvariant, PTL DEF Spec

\* Evidence that stands passes every check of the verifier.
LEMMA StandingIsWhole ==
    ASSUME ProofInv, OwnerHolds, Stands
    PROVE  /\ report # None /\ report = Report(owner)
           /\ \A c \in Circuits :
                /\ \A k \in Kinds : /\ artifact[c][k] = report.cases[c][k]
                                    /\ artifact[c][k] # None
                /\ <<c, report.cases[c].metrics>> \in Profile
                /\ artifact[c].tampered = [artifact[c].public EXCEPT !.mutated = TRUE]
                /\ artifact[c].tampered # artifact[c].public
                /\ Verified(c) = "OK"
                /\ TamperedVerified(c) # "OK"
<1>1. /\ owner # None /\ owner \in Pipelines /\ pipeline[owner].pc = "done"
      /\ \A c \in Circuits : <<c, pipeline[owner].cases[c].metrics>> \in Profile
  BY DEF Stands, ProofInv, TypeOK, PipelineTypeOK
<1>2. report = Report(owner)
  BY <1>1 DEF OwnerHolds
<1>3. report # None /\ report.cases = pipeline[owner].cases
  BY <1>2 DEF Report, None
<1>4. ASSUME NEW c \in Circuits
      PROVE  /\ \A k \in Kinds : /\ artifact[c][k] = report.cases[c][k]
                                 /\ artifact[c][k] # None
             /\ artifact[c].tampered = [artifact[c].public EXCEPT !.mutated = TRUE]
             /\ artifact[c].tampered # artifact[c].public
             /\ Verified(c) = "OK"
             /\ TamperedVerified(c) # "OK"
  <2> DEFINE f == report.cases[c]
  <2>1. \A k \in Kinds : artifact[c][k] = f[k]
    BY <1>1, <1>3 DEF OwnerHolds, Bound
  <2>2. PieceOf(owner, c, f)
    <3>1. Progress(owner, pipeline[owner])
      BY <1>1, PipelineHere
    <3> QED BY <1>1, <1>3, <3>1 DEF Progress, Bound, AfterGenesis, PipelinePhases, RecordOf
  <2> HIDE DEF f
  <2>3. /\ f.vkey \in Keys /\ f.proof \in Proofs /\ f.proof.key = f.vkey
        /\ f.public = PublicSignals(f.proof.witness)
        /\ f.proof.witness = f.vkey.circuit
        /\ f.tampered = Mutate(f.public)
    BY <2>2 DEF PieceOf, KeyOf, ProofOf
  <2>4. /\ artifact[c].vkey = f.vkey /\ artifact[c].proof = f.proof
        /\ artifact[c].public = f.public /\ artifact[c].tampered = f.tampered
    BY <2>1 DEF Kinds
  <2>5. /\ f.public.kind = "signals" /\ f.public.mutated = FALSE
        /\ f.tampered.kind = "signals" /\ f.tampered.mutated = TRUE
        /\ f.tampered = [f.public EXCEPT !.mutated = TRUE]
    <3> DEFINE w == f.proof.witness
    <3>1. f.public = [kind |-> "signals", of |-> w, mutated |-> FALSE]
      BY <2>3 DEF PublicSignals
    <3>2. f.tampered = [f.public EXCEPT !.mutated = TRUE]
      BY <2>3 DEF Mutate
    <3> HIDE DEF w
    <3>3. f.public.kind = "signals" /\ f.public.mutated = FALSE
      BY <3>1
    <3>4. f.tampered.kind = "signals" /\ f.tampered.mutated = TRUE
      BY <3>1, <3>2
    <3> QED BY <3>2, <3>3, <3>4
  <2>6. None \notin {f.vkey, f.proof, f.public, f.tampered}
    BY <2>3, <2>5 DEF Keys, Proofs, None
  <2>7. Verified(c) = "OK"
    BY <2>3, <2>4, <2>6 DEF Verified, Outcome
  <2>8. f.tampered # PublicSignals(f.proof.witness)
    BY <2>5 DEF PublicSignals
  <2>9. TamperedVerified(c) # "OK"
    BY <2>4, <2>6, <2>8 DEF TamperedVerified, Outcome
  <2>10. \A k \in Kinds : artifact[c][k] # None
    BY <2>1, <2>6, <2>4 DEF Kinds
  <2> QED BY <2>1, <2>4, <2>5, <2>7, <2>9, <2>10 DEF f
<1> QED BY <1>1, <1>2, <1>3, <1>4

\* A verification that nothing disturbs refuses no evidence that stands.
LEMMA StandingPasses ==
    ASSUME ProofInv, OwnerHolds, NoFalseRefusal, Verification
    PROVE  NoFalseRefusal'
<1> SUFFICES ASSUME verifier'.pc = "fail", calm', Stands',
                    \A c \in Circuits : verifier'.reason[c] # "crash"
             PROVE  FALSE
  BY DEF NoFalseRefusal
<1>1. /\ UNCHANGED <<artifact, report, pipeline, owner>>
      /\ calm' = (calm \/ verifier.pc = "idle")
      /\ VerifyStep
      /\ verifier \in VerifierStates
  BY DEF Verification, evidenceVars, pipelineVars, ProofInv, TypeOK, VerifierTypeOK
<1>2. Stands
  BY <1>1 DEF Stands
<1>3. /\ report # None
      /\ \A c \in Circuits :
           /\ \A k \in Kinds : /\ artifact[c][k] = report.cases[c][k]
                               /\ artifact[c][k] # None
           /\ <<c, report.cases[c].metrics>> \in Profile
           /\ artifact[c].tampered = [artifact[c].public EXCEPT !.mutated = TRUE]
           /\ artifact[c].tampered # artifact[c].public
           /\ Verified(c) = "OK"
           /\ TamperedVerified(c) # "OK"
  BY <1>2, StandingIsWhole
<1>4. verifier.pc \notin {"idle", "report", "fail"} => verifier.report = report
  BY <1>1 DEF ProofInv, FollowsReport
<1>5. CASE ListEvidence
  BY <1>1, <1>3, <1>5 DEF ListEvidence, Check, VerifierStates
<1>6. CASE ReadReport
  BY <1>1, <1>3, <1>6 DEF ReadReport, Check, VerifierStates
<1>7. CASE CheckCase
  BY <1>1, <1>3, <1>4, <1>7 DEF CheckCase, Check, Case, VerifierStates
<1>8. CASE CheckArtifact
  <2>1. PICK c \in Circuits, k \in Kinds :
          /\ verifier.pc = "artifact"
          /\ Check(artifact[c][k] = Case(c)[k], NextArtifact(c, k))
    BY <1>8 DEF CheckArtifact
  <2>2. artifact[c][k] = Case(c)[k]
    BY <1>3, <1>4, <2>1 DEF Case
  <2>3. verifier' = NextArtifact(c, k)
    BY <2>1, <2>2 DEF Check
  <2>4. NextArtifact(c, k).pc \in {"artifact", "signals"}
    BY <1>1, <2>1 DEF NextArtifact, VerifierStates
  <2> QED BY <2>3, <2>4
<1>9. CASE CheckSignals
  BY <1>1, <1>3, <1>9 DEF CheckSignals, Check, Kinds, VerifierStates
<1>10. CASE CheckValid
  <2>1. PICK c \in Circuits, ending \in Endings("OK") :
          verifier' = IF ending = "OK" THEN [verifier EXCEPT !.pc = "tampered"]
                      ELSE [Unread("fail") EXCEPT !.reason[c] = ending]
    BY <1>3, <1>10 DEF CheckValid
  <2>2. [verifier EXCEPT !.pc = "tampered"].pc = "tampered"
    BY <1>1 DEF VerifierStates
  <2>3. [Unread("fail") EXCEPT !.reason[c] = ending].reason[c] = ending
    BY DEF Unread
  <2> QED BY <2>1, <2>2, <2>3 DEF Endings
<1>11. CASE CheckTampered
  <2>1. PICK c \in Circuits, ending \in OutcomesSeen :
          /\ ending \in Endings(TamperedVerified(c))
          /\ Check(ending # "OK",
                   NextCircuit([verifier EXCEPT !.reason[c] = ending], "case", "pass"))
    BY <1>11, EndingsAreSeen DEF CheckTampered
  <2>2. ending # "OK"
    BY <1>3, <2>1 DEF Endings
  <2> QED BY <1>1, <2>1, <2>2 DEF Check, NextCircuit, VerifierStates
<1> QED BY <1>1, <1>5, <1>6, <1>7, <1>8, <1>9, <1>10, <1>11 DEF VerifyStep, VerifyOn

\* A pipeline that ends leaves proofs that an undisturbed verification accepts, as
\* long as the circuits had the frozen metrics: the verifier asks for nothing
\* the pipeline does not write.
THEOREM StandingProofsPass == ASSUME Exclusive PROVE Spec => []NoFalseRefusal
<1>1. Init => NoFalseRefusal
  BY DEF Init, NoFalseRefusal
<1>2. ASSUME ProofInv, OwnerHolds, NoFalseRefusal, [Next]_vars PROVE NoFalseRefusal'
  <2>1. CASE Verification
    BY <1>2, <2>1, StandingPasses
  <2>2. CASE UNCHANGED vars
    BY <1>2, <2>2 DEF vars, pipelineVars, NoFalseRefusal, Stands
  <2>3. CASE ~ Verification /\ ~ UNCHANGED vars
    <3>1. calm' = FALSE
      BY <1>2, <2>3 DEF Next, Test, GenesisMove, BeginPipeline, PipelineMove, Edit, Beside
    <3> QED BY <3>1 DEF NoFalseRefusal
  <2> QED BY <2>1, <2>2, <2>3
<1> QED BY <1>1, <1>2, ProofInvariant, RecordsAreOnTheDisk, PTL DEF Spec

-----------------------------------------------------------------------------
(* The SDK. *)

\* A client does to the working tree nothing the commands do not.
THEOREM ClientCallsTheTools == SdkSpec => Spec
<1>1. SdkInit => Init
  BY DEF SdkInit
<1>2. [SdkNext]_sdkVars => [Next]_vars
  <2> SUFFICES ASSUME [SdkNext]_sdkVars, ~ UNCHANGED vars PROVE Next
    OBVIOUS
  <2>1. SdkNext
    BY DEF sdkVars
  <2>2. ClientRun \in Runs /\ ClientPipeline \in Pipelines
        /\ {ClientRun, ClientPipeline} \subseteq Runners /\ Runs \subseteq Runners
    BY ClientAssumption DEF Runners
  <2>3. CASE CallGenesis
    BY <2>2, <2>3 DEF CallGenesis, Next
  <2>4. CASE ClientWork
    BY <2>2, <2>4 DEF ClientWork, GenesisReturns, ReadReportFile, ReadManifestFile, CallProve,
       ProveReturns, ReadProofReport, CallEvidence, GenesisVerified, ProofsVerify,
       EvidenceReturns, Next
  <2>5. CASE ToolWork
    BY <2>2, <2>5 DEF ToolWork, Next
  <2>6. CASE Others
    BY <2>2, <2>6 DEF Others, Next
  <2> QED BY <2>1, <2>3, <2>4, <2>5, <2>6 DEF SdkNext
<1> QED BY <1>1, <1>2, PTL DEF SdkSpec, Spec

-----------------------------------------------------------------------------
(* The client, when it is alone and pipelines exclude each other.  A step is   *)
(* one of DevelopmentProof too, so ProofInv and OwnerHolds hold before and     *)
(* after it.                                                                   *)

\* What the client's own steps, which only read, leave as it was.
Reads == UNCHANGED <<source, r1cs, witness, aggregate, manifest, genesis, artifact, report,
                     tau, zkey, pipeline, owner, verifier>>

LEMMA ClientInRange ==
    /\ ClientRun \in Runners /\ ClientPipeline \in Runners /\ ClientPipeline \in Pipelines
    /\ ClientPipeline # None /\ ClientRun # ClientPipeline
BY ClientAssumption, GenesisAssumption DEF Runners

\* What the invariants say of the two processes the client starts.
LEMMA ClientHere ==
    ASSUME SdkInv, ProofInv
    PROVE  /\ client \in ClientStates
           /\ pipeline[ClientPipeline] \in PipelineStates
           /\ Progress(ClientPipeline, pipeline[ClientPipeline])
           /\ genesis[ClientRun] \in GenesisStates
           /\ aggregate \in Aggregates \cup {None} /\ manifest \in Manifests \cup {None}
           /\ report \in Reports \cup {None}
           /\ verifier \in VerifierStates
<1>1. TypeOK
  BY DEF ProofInv
<1> QED BY <1>1, ClientInRange, PipelineHere DEF SdkInv, SdkTypeOK, TypeOK, GenesisTypeOK,
           EvidenceTypeOK, VerifierTypeOK

\* runGenesis has returned or thrown, or has read a file.
LEMMA GenesisCallPreserves ==
    ASSUME SdkInv, ProofInv, TypeOK', Reads,
           GenesisReturns \/ ReadReportFile \/ ReadManifestFile
    PROVE  SdkInv'
<1> USE DEF Reads
<1>1. client \in ClientStates /\ ClientIsAlone /\ RunOfTheClient /\ PipelineOfTheClient
      /\ ResultIsOfTheCall /\ aggregate \in Aggregates \cup {None}
      /\ manifest \in Manifests \cup {None}
  BY ClientHere DEF SdkInv
<1>2. CASE GenesisReturns
  <2> DEFINE pc == IF genesis[ClientRun].pc = "passed" THEN "report" ELSE "thrown"
  <2>1. client.pc = "genesis" /\ client' = [client EXCEPT !.pc = pc] /\ GenesisEnded(ClientRun)
    BY <1>2 DEF GenesisReturns, Step, To
  <2>2. client' \in ClientStates
    BY <1>1, <2>1 DEF ClientStates, ClientPhases
  <2>3. client'.pc = pc /\ client'.report = client.report /\ client'.manifest = client.manifest
        /\ client'.proved = client.proved /\ client.proved = FALSE
    BY <1>1, <2>1 DEF ClientStates, PipelineOfTheClient
  <2>4. ClientIsAlone'
    BY <1>1, <2>1, <2>3 DEF ClientIsAlone, Busy, GenesisActive, GenesisEnded, PipelineActive,
       PipelineEnded
  <2>5. RunOfTheClient'
    BY <1>1, <2>1, <2>3 DEF RunOfTheClient
  <2>6. PipelineOfTheClient'
    BY <1>1, <2>1, <2>3 DEF PipelineOfTheClient, Busy, PipelineActive, PipelineEnded
  <2>7. ResultIsOfTheCall'
    BY <1>1, <2>3 DEF ResultIsOfTheCall
  <2> QED BY <2>2, <2>4, <2>5, <2>6, <2>7 DEF SdkInv, SdkTypeOK
<1>3. CASE ReadReportFile \/ ReadManifestFile
  <2>1. /\ client.pc \in {"report", "manifest"} /\ client'.pc \in {"manifest", "prove"}
        /\ client' \in ClientStates
        /\ client'.report \in {client.report, aggregate}
        /\ client'.manifest \in {client.manifest, manifest}
        /\ client'.proved = client.proved /\ client.proved = FALSE
    <3>1. client.proved = FALSE
      BY <1>1, <1>3 DEF PipelineOfTheClient, ReadReportFile, ReadManifestFile, Step, ClientStates
    <3>2. CASE ReadReportFile
      BY <1>1, <3>1, <3>2 DEF ReadReportFile, Step, ClientStates, ClientPhases
    <3>3. CASE ReadManifestFile
      BY <1>1, <3>1, <3>3 DEF ReadManifestFile, Step, ClientStates, ClientPhases
    <3> QED BY <1>3, <3>2, <3>3
  <2>4. ClientIsAlone'
    BY <1>1, <2>1 DEF ClientIsAlone, Busy, GenesisActive, GenesisEnded, PipelineActive,
       PipelineEnded
  <2>5. RunOfTheClient'
    BY <1>1, <2>1 DEF RunOfTheClient
  <2>6. PipelineOfTheClient'
    BY <1>1, <2>1 DEF PipelineOfTheClient, Busy, PipelineActive, PipelineEnded
  <2>7. ResultIsOfTheCall'
    BY <1>1, <2>1 DEF ResultIsOfTheCall, RunOfTheClient
  <2> QED BY <2>1, <2>4, <2>5, <2>6, <2>7 DEF SdkInv, SdkTypeOK
<1> QED BY <1>2, <1>3

\* generateDevelopmentProofs has returned or thrown, or has read the report; or
\* the first tool of verifyEvidence has begun or ended.
LEMMA ReadsPreserve ==
    ASSUME SdkInv, ProofInv, OwnerHolds, TypeOK', Reads,
           ProveReturns \/ ReadProofReport \/ CallEvidence \/ GenesisVerified
    PROVE  SdkInv'
<1> USE DEF Reads
<1>1. client \in ClientStates /\ ClientIsAlone /\ RunOfTheClient /\ PipelineOfTheClient
      /\ ResultIsOfTheCall /\ manifest \in Manifests \cup {None}
      /\ report \in Reports \cup {None}
  BY ClientHere DEF SdkInv
<1>2. /\ client' \in ClientStates
      /\ client'.report = client.report /\ client'.manifest = client.manifest
      /\ \/ /\ client.pc = "proving" /\ client'.pc = "proofReport" /\ client'.proved
            /\ pipeline[ClientPipeline].pc = "done"
         \/ /\ client.pc = "proving" /\ client'.pc = "evidence"
            /\ client'.proved = client.proved
            /\ pipeline[ClientPipeline].pc = "dead"
         \/ /\ client.pc = "proofReport" /\ client'.pc = "evidence"
            /\ client'.proved = client.proved /\ client'.proofReport = report
         \/ /\ client.pc = "evidence" /\ client'.pc = "verifyEvidence"
            /\ client'.proved = client.proved /\ client'.proofReport = client.proofReport
            /\ client'.verifying = manifest
         \/ /\ client.pc = "verifyEvidence" /\ client'.pc = "verifyProofs"
            /\ client'.proved = client.proved /\ client'.proofReport = client.proofReport
            /\ client'.verifying = client.verifying
  <2>1. CASE ProveReturns
    BY <1>1, <2>1 DEF ProveReturns, Step, To, PipelineEnded, ClientStates, ClientPhases
  <2>2. CASE ReadProofReport
    BY <1>1, <2>2 DEF ReadProofReport, Step, ClientStates, ClientPhases
  <2>3. CASE CallEvidence
    BY <1>1, <2>3 DEF CallEvidence, Step, ClientStates, ClientPhases
  <2>4. CASE GenesisVerified
    <3> DEFINE m == client.verifying
               ok == /\ m # None
                     /\ aggregate = [kind |-> "aggregate", run |-> m.run, passed |-> TRUE]
                     /\ m.sources = source
    <3>1. client.pc = "verifyEvidence" /\ ok \in BOOLEAN
          /\ client' = [client EXCEPT !.pc = "verifyProofs", !.genesisOk = ok]
      BY <2>4 DEF GenesisVerified, Step
    <3> HIDE DEF ok
    <3> QED BY <1>1, <3>1 DEF ClientStates, ClientPhases
  <2> QED BY <2>1, <2>2, <2>3, <2>4
<1>3. ClientIsAlone'
  BY <1>1, <1>2 DEF ClientIsAlone, Busy, GenesisActive, GenesisEnded, PipelineActive,
     PipelineEnded
<1>4. RunOfTheClient'
  BY <1>2 DEF RunOfTheClient
<1>5. PipelineOfTheClient'
  BY <1>1, <1>2 DEF PipelineOfTheClient, Busy, PipelineActive, PipelineEnded
<1>6. ResultIsOfTheCall'
  BY <1>1, <1>2 DEF ResultIsOfTheCall
<1> QED BY <1>2, <1>3, <1>4, <1>5, <1>6 DEF SdkInv, SdkTypeOK

\* The verification of the proofs goes on, or has come to its end.
LEMMA EvidencePreserves ==
    ASSUME SdkInv, ProofInv, OwnerHolds, TypeOK',
           UNCHANGED <<source, r1cs, witness, aggregate, manifest, genesis, artifact, report,
                       tau, zkey, pipeline, owner>>,
           ProofsVerify \/ (EvidenceReturns /\ UNCHANGED verifier)
    PROVE  SdkInv'
<1>1. client \in ClientStates /\ ClientIsAlone /\ RunOfTheClient /\ PipelineOfTheClient
      /\ ResultIsOfTheCall /\ client.pc = "verifyProofs" /\ verifier \in VerifierStates
  BY ClientHere DEF SdkInv, ProofsVerify, EvidenceReturns, Step
<1>2. CASE ProofsVerify
  <2>1. client' = client /\ Verification
    BY <1>2 DEF ProofsVerify
  <2>2. verifier'.pc \notin {"idle", "report", "fail"} =>
          \/ verifier'.report = report
          \/ /\ verifier.pc \notin {"idle", "report", "fail"}
             /\ verifier'.report = verifier.report
    <3>0. ASSUME NEW next, NEW ok, Check(ok, next)
          PROVE  verifier' = next \/ verifier'.pc = "fail"
      BY <3>0 DEF Check, Unread
    <3>1. CASE ListEvidence
      <4>1. [verifier EXCEPT !.pc = "report"].pc = "report"
        BY <1>1 DEF VerifierStates
      <4> QED BY <3>0, <3>1, <4>1 DEF ListEvidence
    <3>2. CASE ReadReport
      <4>1. [verifier EXCEPT !.pc = "case", !.report = report].report = report
        BY <1>1 DEF VerifierStates
      <4> QED BY <3>0, <3>2, <4>1 DEF ReadReport
    <3>3. CASE CheckCase \/ CheckSignals \/ CheckValid
      <4>1. \A pc : [verifier EXCEPT !.pc = pc].report = verifier.report
        BY <1>1 DEF VerifierStates
      <4>2. \A c, ending : [Unread("fail") EXCEPT !.reason[c] = ending].pc = "fail"
        BY DEF Unread
      <4> QED BY <3>0, <3>3, <4>1, <4>2 DEF CheckCase, CheckSignals, CheckValid
    <3>4. CASE CheckArtifact
      <4>1. PICK c \in Circuits, k \in Kinds :
              /\ verifier.pc = "artifact"
              /\ Check(artifact[c][k] = Case(c)[k], NextArtifact(c, k))
        BY <3>4 DEF CheckArtifact
      <4>2. NextArtifact(c, k).report = verifier.report
        BY <1>1 DEF NextArtifact, VerifierStates
      <4> QED BY <3>0, <4>1, <4>2
    <3>5. CASE CheckTampered
      <4>1. PICK c \in Circuits, ending \in OutcomesSeen :
              /\ verifier.pc = "tampered"
              /\ Check(ending # "OK",
                       NextCircuit([verifier EXCEPT !.reason[c] = ending], "case", "pass"))
        BY <3>5, EndingsAreSeen DEF CheckTampered
      <4> DEFINE k == [verifier EXCEPT !.reason[c] = ending]
      <4>2. NextCircuit(k, "case", "pass").report = k.report /\ k.report = verifier.report
        BY <1>1 DEF NextCircuit, VerifierStates
      <4> QED BY <3>0, <4>1, <4>2
    <3> QED BY <2>1, <3>1, <3>2, <3>3, <3>4, <3>5 DEF Verification, VerifyStep, VerifyOn
  <2>3. ClientIsAlone' /\ RunOfTheClient' /\ ResultIsOfTheCall'
    BY <1>1, <2>1 DEF ClientIsAlone, Busy, GenesisActive, GenesisEnded, PipelineActive,
       PipelineEnded, RunOfTheClient, ResultIsOfTheCall
  <2>4. PipelineOfTheClient'
    BY <1>1, <2>1, <2>2 DEF PipelineOfTheClient, Busy, PipelineActive, PipelineEnded
  <2> QED BY <1>1, <2>1, <2>3, <2>4 DEF SdkInv, SdkTypeOK
<1>3. CASE EvidenceReturns /\ UNCHANGED verifier
  <2> DEFINE pc == IF client.genesisOk /\ Passed THEN "returned" ELSE "thrown"
  <2>1. client' = [client EXCEPT !.pc = pc] /\ pc \in {"returned", "thrown"}
    BY <1>3 DEF EvidenceReturns, Step, To
  <2>2. /\ client' \in ClientStates /\ client'.pc = pc
        /\ client'.report = client.report /\ client'.manifest = client.manifest
        /\ client'.proved = client.proved /\ client'.proofReport = client.proofReport
        /\ client'.verifying = client.verifying
    BY <1>1, <2>1 DEF ClientStates, ClientPhases
  <2>3. ASSUME client.proved, Passed
        PROVE  /\ Accepted = client.proofReport
               /\ Accepted.by = ClientPipeline
               /\ Accepted.genesis = client.verifying
    <3>1. Accepted = report /\ client.proofReport = report /\ client.verifying = manifest
      BY <1>1, <2>3 DEF PipelineOfTheClient, Passed, Accepted
    <3>2. /\ owner = ClientPipeline /\ pipeline[ClientPipeline].pc = "done"
          /\ manifest = pipeline[ClientPipeline].genesis
      BY <1>1, <2>3 DEF PipelineOfTheClient, Busy
    <3>3. report = Report(ClientPipeline)
      BY <3>2, ClientInRange DEF OwnerHolds
    <3> QED BY <3>1, <3>2, <3>3 DEF Report
  <2>4. ClientIsAlone' /\ RunOfTheClient' /\ ResultIsOfTheCall'
    BY <1>1, <2>1, <2>2 DEF ClientIsAlone, Busy, GenesisActive, GenesisEnded, PipelineActive,
       PipelineEnded, RunOfTheClient, ResultIsOfTheCall
  <2>5. PipelineOfTheClient'
    BY <1>1, <1>3, <2>1, <2>2, <2>3 DEF PipelineOfTheClient, Busy, PipelineActive,
       PipelineEnded, Passed, Accepted
  <2> QED BY <2>2, <2>4, <2>5 DEF SdkInv, SdkTypeOK
<1> QED BY <1>2, <1>3

\* runGenesis begins, when no one is at work, and then the pipeline.
LEMMA CallGenesisPreserves ==
    ASSUME Alone, SdkInv, ProofInv, TypeOK', CallGenesis
    PROVE  SdkInv'
<1>1. client \in ClientStates /\ PipelineOfTheClient /\ ResultIsOfTheCall
  BY ClientHere DEF SdkInv
<1>2. /\ client.pc = "idle" /\ client' = [client EXCEPT !.pc = "genesis"]
      /\ Quiet /\ genesis' = [genesis EXCEPT ![ClientRun].pc = "clear"]
      /\ UNCHANGED <<aggregate, manifest, report, pipeline, owner, verifier>>
  BY DEF CallGenesis, Step, To, Test, Beside, genesisFiles, evidenceVars, pipelineVars
<1>3. /\ client' \in ClientStates /\ client'.pc = "genesis" /\ client'.proved = FALSE
      /\ client.proved = FALSE
      /\ client'.report = client.report /\ client'.manifest = client.manifest
  BY <1>1, <1>2 DEF ClientStates, ClientPhases, PipelineOfTheClient
<1>4. /\ genesis'[ClientRun].pc = "clear"
      /\ \A g \in Runners \ {ClientRun} : genesis'[g] = genesis[g]
  BY <1>2, ClientInRange DEF ProofInv, TypeOK, GenesisTypeOK, GenesisStates
<1>5. ClientIsAlone'
  BY <1>2, <1>3, <1>4 DEF ClientIsAlone, Quiet, GenesisActive, GenesisEnded, PipelineActive,
     PipelineEnded
<1>6. RunOfTheClient'
  BY <1>3, <1>4 DEF RunOfTheClient
<1>7. PipelineOfTheClient'
  BY <1>1, <1>2, <1>3 DEF PipelineOfTheClient, Busy, PipelineActive, PipelineEnded
<1>8. ResultIsOfTheCall'
  BY <1>1, <1>3 DEF ResultIsOfTheCall
<1> QED BY <1>3, <1>5, <1>6, <1>7, <1>8 DEF SdkInv, SdkTypeOK

LEMMA CallProvePreserves ==
    ASSUME SdkInv, ProofInv, TypeOK', CallProve
    PROVE  SdkInv'
<1> DEFINE p == ClientPipeline
<1>1. client \in ClientStates /\ ClientIsAlone /\ PipelineOfTheClient /\ ResultIsOfTheCall
  BY ClientHere DEF SdkInv
<1>2. /\ client.pc = "prove" /\ client' = [client EXCEPT !.pc = "proving"]
      /\ Go(p, "genesis") /\ genesis' = [genesis EXCEPT ![p].pc = "clear"]
      /\ UNCHANGED <<aggregate, manifest, report, owner, verifier>>
  BY DEF CallProve, Step, To, BeginPipeline, Beside, Begin, genesisFiles, evidenceVars
<1>3. /\ client' \in ClientStates /\ client'.pc = "proving" /\ client'.proved = FALSE
      /\ client'.report = client.report /\ client'.manifest = client.manifest
  BY <1>1, <1>2 DEF ClientStates, ClientPhases, PipelineOfTheClient
<1>4. \A g \in Runners \ {p} : genesis'[g] = genesis[g]
  BY <1>2 DEF ProofInv, TypeOK, GenesisTypeOK
<1>5. /\ pipeline'[p].pc = "genesis"
      /\ \A q \in Pipelines \ {p} : pipeline'[q] = pipeline[q]
  BY <1>2, ClientInRange, PipelineHere, GoEffect DEF PipelinePhases
<1>6. ClientIsAlone'
  BY <1>1, <1>2, <1>3, <1>4, <1>5, ClientInRange DEF ClientIsAlone, Busy, GenesisActive,
     GenesisEnded, PipelineActive, PipelineEnded
<1>7. RunOfTheClient'
  BY <1>3 DEF RunOfTheClient
<1>8. PipelineOfTheClient'
  BY <1>1, <1>2, <1>3, <1>5 DEF PipelineOfTheClient
<1>9. ResultIsOfTheCall'
  BY <1>1, <1>3 DEF ResultIsOfTheCall
<1> QED BY <1>3, <1>6, <1>7, <1>8, <1>9 DEF SdkInv, SdkTypeOK

\* What the run of the client writes is of that run, and last its manifest.
LEMMA OwnRunPreserves ==
    ASSUME SdkInv, ProofInv, TypeOK', GenesisMove(ClientRun), UNCHANGED client
    PROVE  SdkInv'
<1> DEFINE g == ClientRun
           m == genesis[g]
           n == genesis'[g]
<1>1. /\ client \in ClientStates /\ ClientIsAlone /\ RunOfTheClient /\ PipelineOfTheClient
      /\ ResultIsOfTheCall /\ m \in GenesisStates /\ g \in Runners
      /\ GenesisTypeOK /\ GenesisStep(g)
      /\ UNCHANGED <<report, pipeline, owner, verifier>>
  BY ClientHere, ClientInRange DEF SdkInv, GenesisMove, Beside, evidenceVars, pipelineVars,
     ProofInv, TypeOK
<1>2. /\ m.pc \notin {"idle", "passed", "failed", "dead"}
      /\ \A h \in Runners \ {g} : genesis'[h] = genesis[h]
  BY <1>1, GenesisEffect
<1>3. client.pc = "genesis"
  BY <1>1, <1>2 DEF ClientIsAlone, GenesisActive, GenesisEnded
<1>4. ClientIsAlone'
  BY <1>1, <1>2, <1>3 DEF ClientIsAlone, Busy, GenesisActive, GenesisEnded, PipelineActive,
     PipelineEnded
<1> DEFINE written(file) == file # None /\ file.run = g /\ file.passed = m.passed
<1>5. RunOfTheClient'
  <2>1. m.pc = "manifest" => written(aggregate)
    BY <1>1, <1>3 DEF RunOfTheClient
  <2>2. ASSUME n.pc \notin {"manifest", "passed"} PROVE RunOfTheClient'
    BY <1>3, <2>2 DEF RunOfTheClient
  <2>3. CASE ClearReports(g) \/ ClearArtifacts(g) \/ HashSources(g)
    <3>1. n.pc \notin {"manifest", "passed"}
      BY <1>1, <2>3 DEF ClearReports, ClearArtifacts, HashSources, GenesisTypeOK, GenesisStates
    <3> QED BY <2>2, <3>1
  <2>4. CASE Build(g)
    <3>1. n = NextCircuit(m, "build", "execute")
      BY <1>1, <2>4 DEF Build, GenesisTypeOK
    <3> QED BY <1>1, <2>2, <3>1, NextCircuitOfRun DEF GenesisPhases
  <2>5. CASE MakeWitness(g)
    <3> DEFINE k == [m EXCEPT !.passed = @ /\ <<m.at, r1cs[m.at]>> \in Right]
    <3>1. k \in GenesisStates /\ n = NextCircuit(k, "execute", "hash")
      BY <1>1, <2>5 DEF MakeWitness, GenesisTypeOK, GenesisStates
    <3> QED BY <2>2, <3>1, NextCircuitOfRun DEF GenesisPhases
  <2>6. CASE WriteAggregate(g)
    <3>1. /\ aggregate' = [kind |-> "aggregate", run |-> g, passed |-> m.passed]
          /\ n.pc = "manifest" /\ n.passed = m.passed
      BY <1>1, <2>6 DEF WriteAggregate, GenesisTypeOK, GenesisStates
    <3> QED BY <1>3, <3>1 DEF RunOfTheClient, None
  <2>7. CASE WriteManifest(g)
    <3>1. /\ m.pc = "manifest" /\ UNCHANGED aggregate
          /\ manifest' = [kind |-> "manifest", run |-> g, passed |-> m.passed,
                          sources |-> m.hashed]
          /\ n.passed = m.passed /\ n.pc = IF m.passed THEN "passed" ELSE "failed"
      BY <1>1, <2>7 DEF WriteManifest, GenesisTypeOK, GenesisStates
    <3> QED BY <1>3, <2>1, <3>1 DEF RunOfTheClient, None
  <2>8. CASE GenesisThrow(g) \/ GenesisKill(g)
    <3>1. n = Fresh("dead")
      BY <1>1, <2>8 DEF GenesisThrow, GenesisKill, GenesisDie, GenesisTypeOK
    <3> QED BY <2>2, <3>1 DEF Fresh
  <2> QED BY <1>1, <2>3, <2>4, <2>5, <2>6, <2>7, <2>8 DEF GenesisStep, GenesisWork
<1>6. PipelineOfTheClient'
  BY <1>1, <1>3 DEF PipelineOfTheClient, PipelineActive, PipelineEnded
<1>7. ResultIsOfTheCall'
  BY <1>1 DEF ResultIsOfTheCall
<1> QED BY <1>1, <1>4, <1>5, <1>6, <1>7 DEF SdkInv, SdkTypeOK

\* The run of its pipeline begins when the client has read what it reads, and
\* has ended when the pipeline records the manifest.
LEMMA PipelineRunPreserves ==
    ASSUME SdkInv, ProofInv, TypeOK', GenesisMove(ClientPipeline), UNCHANGED client
    PROVE  SdkInv'
<1> DEFINE p == ClientPipeline
<1>1. /\ client \in ClientStates /\ ClientIsAlone /\ RunOfTheClient /\ PipelineOfTheClient
      /\ ResultIsOfTheCall /\ Progress(p, pipeline[p]) /\ p \in Runners
      /\ GenesisTypeOK /\ GenesisStep(p)
      /\ pipeline[p] \in PipelineStates
      /\ UNCHANGED <<report, pipeline, owner, verifier>>
  BY ClientHere, ClientInRange DEF SdkInv, GenesisMove, Beside, evidenceVars, pipelineVars,
     ProofInv, TypeOK
<1>2. /\ genesis[p].pc \notin {"idle", "passed", "failed", "dead"}
      /\ \A h \in Runners \ {p} : genesis'[h] = genesis[h]
  BY <1>1, GenesisEffect
<1>3. pipeline[p].pc \in {"genesis", "dead"}
  BY <1>1, <1>2 DEF Progress, AfterGenesis, PipelineStates
<1>4. client.proved = FALSE /\ client.pc \notin {"idle", "genesis", "report", "manifest", "prove"}
  BY <1>1, <1>3 DEF PipelineOfTheClient, ClientStates
<1>5. ClientIsAlone'
  BY <1>1, <1>2, ClientInRange DEF ClientIsAlone, Busy, GenesisActive, GenesisEnded,
     PipelineActive, PipelineEnded
<1>6. RunOfTheClient' /\ ResultIsOfTheCall'
  BY <1>1, <1>4 DEF RunOfTheClient, ResultIsOfTheCall
<1>7. PipelineOfTheClient'
  BY <1>1, <1>3, <1>4 DEF PipelineOfTheClient, PipelineActive, PipelineEnded
<1> QED BY <1>1, <1>5, <1>6, <1>7 DEF SdkInv, SdkTypeOK

\* While its pipeline is under way the client waits for it.
LEMMA OwnPipelinePreserves ==
    ASSUME SdkInv, ProofInv, ProofInv', PipelineMove(ClientPipeline), UNCHANGED client
    PROVE  SdkInv'
<1> DEFINE p == ClientPipeline
           m == pipeline[p]
           n == pipeline'[p]
<1>1. /\ client \in ClientStates /\ ClientIsAlone /\ RunOfTheClient /\ PipelineOfTheClient
      /\ ResultIsOfTheCall /\ m \in PipelineStates /\ Progress(p, m)
      /\ pipeline \in [Pipelines -> PipelineStates] /\ p \in Pipelines
      /\ PipelineWork(p) \/ PipelineKill(p)
      /\ UNCHANGED verifier
  BY ClientHere, ClientInRange, PipelineHere DEF SdkInv, PipelineMove, Beside
<1>2. /\ PipelineActive(p)
      /\ UNCHANGED <<aggregate, manifest, genesis>>
      /\ \A q \in Pipelines \ {p} : pipeline'[q] = pipeline[q]
      /\ \/ n.pc \notin {"write", "done"}
         \/ n.pc = "write" /\ n.genesis = manifest
         \/ /\ m.pc = "write" /\ n.pc = "done" /\ n.genesis = m.genesis
            /\ owner' = owner /\ owner = p
  <2> DEFINE steps == {"clear", "ceremony", "info", "setup", "verifyKey", "export", "prove",
                       "verify", "tamper", "reject"}
  <2>1. UNCHANGED <<aggregate, manifest, genesis>>
    BY <1>1 DEF PipelineWork, PipelineKill, AwaitGenesis, RemoveEvidence, EvidenceRemoved,
       Ceremony, ReadInfo, Setup, VerifyKey, ExportKey, Prove, Verify, Tamper, Reject, Bind,
       BindManifest, WriteReport, PipelineThrow, PipelineDie, genesisVars, genesisFiles
  <2>2. PipelineActive(p)
    BY <1>1 DEF PipelineWork, PipelineKill, AwaitGenesis, RemoveEvidence, EvidenceRemoved,
       Ceremony, ReadInfo, Setup, VerifyKey, ExportKey, Prove, Verify, Tamper, Reject, Bind,
       BindManifest, WriteReport, PipelineThrow, PipelineActive, PipelineEnded, Ready, At
  <2>3. steps \cup {"done"} \subseteq PipelinePhases
    BY DEF PipelinePhases
  <2>4. CASE \/ AwaitGenesis(p) \/ EvidenceRemoved(p) \/ Ceremony(p) \/ Setup(p)
             \/ VerifyKey(p) \/ ExportKey(p) \/ Prove(p) \/ Verify(p) \/ Tamper(p)
    <3>1. \E pc \in steps : Go(p, pc)
      BY <2>4 DEF AwaitGenesis, EvidenceRemoved, Ceremony, Setup, VerifyKey, ExportKey, Prove,
         Verify, Tamper
    <3>2. n.pc \in steps /\ \A q \in Pipelines \ {p} : pipeline'[q] = pipeline[q]
      BY <1>1, <2>3, <3>1, GoEffect
    <3> QED BY <2>1, <2>2, <3>2
  <2>5. CASE RemoveEvidence(p)
    BY <1>1, <2>1, <2>2, <2>5 DEF RemoveEvidence
  <2>6. CASE ReadInfo(p) \/ Reject(p)
    BY <1>1, <2>1, <2>2, <2>6 DEF ReadInfo, Reject, PipelineStates
  <2>7. CASE Bind(p)
    <3>1. PICK c \in Circuits :
            /\ m.pc = "bind" /\ m.at = c
            /\ pipeline' = [pipeline EXCEPT ![p] =
                 NextCircuit([m EXCEPT !.cases[c] = CaseReport(p, c)], "info", "bindManifest")]
      BY <2>7 DEF Bind, At
    <3> DEFINE k == [m EXCEPT !.cases[c] = CaseReport(p, c)]
    <3>2. \E q \in {"info", "bindManifest"} : \E at : n = [k EXCEPT !.pc = q, !.at = at]
      BY <1>1, <3>1 DEF NextCircuit
    <3>3. n.pc \in {"info", "bindManifest"}
      BY <1>1, <3>2 DEF PipelineStates
    <3> QED BY <1>1, <2>1, <2>2, <3>1, <3>3
  <2>8. CASE BindManifest(p)
    <3>1. pipeline' = [pipeline EXCEPT ![p].pc = "write", ![p].genesis = manifest]
      BY <2>8 DEF BindManifest
    <3>2. n.pc = "write" /\ n.genesis = manifest
      BY <1>1, <3>1 DEF PipelineStates
    <3> QED BY <1>1, <2>1, <2>2, <3>1, <3>2
  <2>9. CASE WriteReport(p)
    <3>1. m.pc = "write" /\ Go(p, "done") /\ owner' = owner
      BY <2>9 DEF WriteReport
    <3>2. owner = p
      BY <1>1, <3>1 DEF Progress, AfterClear, AfterGenesis, PipelinePhases
    <3> QED BY <1>1, <2>1, <2>2, <2>3, <3>1, <3>2, GoEffect
  <2>10. CASE PipelineThrow(p) \/ PipelineKill(p)
    <3>1. pipeline' = [pipeline EXCEPT ![p] = Idle("dead")]
      BY <2>10 DEF PipelineThrow, PipelineKill, PipelineDie
    <3> QED BY <1>1, <2>1, <2>2, <3>1 DEF Idle
  <2> HIDE DEF m, n, steps
  <2> QED BY <1>1, <2>4, <2>5, <2>6, <2>7, <2>8, <2>9, <2>10 DEF PipelineWork
<1>3. client.pc = "proving"
  BY <1>1, <1>2 DEF PipelineOfTheClient, PipelineActive, PipelineEnded, ClientStates
<1>4. client.proved = FALSE
  BY <1>1, <1>2 DEF PipelineOfTheClient, PipelineActive, PipelineEnded, ClientStates
<1>5. ClientIsAlone'
  BY <1>1, <1>2 DEF ClientIsAlone, Busy, GenesisActive, GenesisEnded, PipelineActive,
     PipelineEnded
<1>6. RunOfTheClient' /\ ResultIsOfTheCall'
  BY <1>1, <1>3 DEF RunOfTheClient, ResultIsOfTheCall
<1>7. PipelineOfTheClient'
  BY <1>1, <1>2, <1>3, <1>4 DEF PipelineOfTheClient, Busy
<1>8. TypeOK'
  BY DEF ProofInv
<1> QED BY <1>1, <1>5, <1>6, <1>7, <1>8 DEF SdkInv, SdkTypeOK

\* The others work only when the client does not, and move what is theirs.
LEMMA OthersPreserve ==
    ASSUME Alone, SdkInv, ProofInv, TypeOK', Others
    PROVE  SdkInv'
<1>1. /\ client \in ClientStates /\ ClientIsAlone /\ RunOfTheClient /\ PipelineOfTheClient
      /\ ResultIsOfTheCall /\ ~ Busy /\ client' = client
      /\ GenesisTypeOK /\ pipeline \in [Pipelines -> PipelineStates]
  BY ClientHere, ClientInRange, PipelineHere DEF SdkInv, Others, ProofInv, TypeOK
<1>2. client.pc \in {"idle", "returned", "thrown"}
  BY <1>1 DEF Busy
<1>3. /\ genesis'[ClientRun] = genesis[ClientRun]
      /\ pipeline'[ClientPipeline] = pipeline[ClientPipeline]
      /\ UNCHANGED verifier
  <2>1. ASSUME NEW g \in Runs \ {ClientRun}, Test(g)
        PROVE  genesis'[ClientRun] = genesis[ClientRun] /\ UNCHANGED <<pipeline, verifier>>
    BY <1>1, <2>1, ClientInRange DEF Test, Beside, pipelineVars, GenesisTypeOK
  <2>2. ASSUME NEW g \in Runners \ {ClientRun, ClientPipeline}, GenesisMove(g)
        PROVE  genesis'[ClientRun] = genesis[ClientRun] /\ UNCHANGED <<pipeline, verifier>>
    BY <1>1, <2>2, ClientInRange, GenesisEffect DEF GenesisMove, Beside, pipelineVars
  <2>3. ASSUME NEW q \in Pipelines \ {ClientPipeline}, BeginPipeline(q)
        PROVE  /\ genesis'[ClientRun] = genesis[ClientRun]
               /\ pipeline'[ClientPipeline] = pipeline[ClientPipeline]
               /\ UNCHANGED verifier
    <3>1. q # ClientRun
      BY ClientAssumption, GenesisAssumption
    <3> QED BY <1>1, <2>3, <3>1, ClientInRange DEF BeginPipeline, Beside, Begin, Go,
               GenesisTypeOK
  <2>4. ASSUME NEW q \in Pipelines \ {ClientPipeline}, PipelineMove(q)
        PROVE  /\ genesis' = genesis
               /\ pipeline'[ClientPipeline] = pipeline[ClientPipeline]
               /\ UNCHANGED verifier
    <3>1. (PipelineWork(q) \/ PipelineKill(q)) /\ UNCHANGED verifier
      BY <2>4 DEF PipelineMove, Beside
    <3>2. genesis' = genesis
      BY <3>1 DEF PipelineWork, PipelineKill, AwaitGenesis, RemoveEvidence, EvidenceRemoved,
         Ceremony, ReadInfo, Setup, VerifyKey, ExportKey, Prove, Verify, Tamper, Reject, Bind,
         BindManifest, WriteReport, PipelineThrow, PipelineDie, genesisVars
    <3>3. pipeline' = [pipeline EXCEPT ![q] = pipeline'[q]]
      BY <1>1, <3>1 DEF PipelineWork, PipelineKill, AwaitGenesis, RemoveEvidence,
         EvidenceRemoved, Ceremony, ReadInfo, Setup, VerifyKey, ExportKey, Prove, Verify,
         Tamper, Reject, Bind, BindManifest, WriteReport, PipelineThrow, PipelineDie, Go
    <3> QED BY <1>1, <3>1, <3>2, <3>3, ClientInRange
  <2>5. ASSUME NEW c \in Circuits, Edit(c)
        PROVE  UNCHANGED <<genesis, pipeline, verifier>>
    BY <2>5 DEF Edit, Beside, pipelineVars
  <2>6. UNCHANGED verifier
    BY DEF Others, Test, GenesisMove, BeginPipeline, PipelineMove, Edit, Beside
  <2> QED BY <2>1, <2>2, <2>3, <2>4, <2>5, <2>6 DEF Others
<1>4. ClientIsAlone'
  BY <1>1, <1>3 DEF ClientIsAlone, Busy, GenesisActive, GenesisEnded
<1>5. RunOfTheClient' /\ ResultIsOfTheCall'
  BY <1>1, <1>2 DEF RunOfTheClient, ResultIsOfTheCall
<1>6. PipelineOfTheClient'
  BY <1>1, <1>2, <1>3 DEF PipelineOfTheClient, Busy, PipelineActive, PipelineEnded, Passed,
     Accepted
<1> QED BY <1>1, <1>4, <1>5, <1>6 DEF SdkInv, SdkTypeOK

LEMMA ClientBegins == SdkInit /\ ProofInv => SdkInv
<1> SUFFICES ASSUME SdkInit, ProofInv PROVE SdkInv
  OBVIOUS
<1>1. /\ client = [pc |-> "idle", report |-> None, manifest |-> None, proofReport |-> None,
                   proved |-> FALSE, verifying |-> None, genesisOk |-> FALSE]
      /\ \A g \in Runners : genesis[g].pc = "idle"
      /\ \A p \in Pipelines : pipeline[p].pc = "idle"
      /\ verifier.pc = "idle"
  BY DEF SdkInit, Init, GenesisInit, Fresh, PipelineInit, Idle, VerifierInit, Unread
<1>2. client \in ClientStates
  BY <1>1 DEF ClientStates, ClientPhases
<1>3. ClientIsAlone
  BY <1>1, ClientInRange DEF ClientIsAlone, Busy, GenesisActive
<1>4. RunOfTheClient /\ ResultIsOfTheCall
  BY <1>1 DEF RunOfTheClient, ResultIsOfTheCall
<1>5. PipelineOfTheClient
  BY <1>1, ClientInRange DEF PipelineOfTheClient, Busy
<1> QED BY <1>2, <1>3, <1>4, <1>5 DEF SdkInv, SdkTypeOK, ProofInv

LEMMA SdkNextPreserves ==
    ASSUME Alone, SdkInv, ProofInv, OwnerHolds, ProofInv', [SdkNext]_sdkVars
    PROVE  SdkInv'
<1>0. TypeOK'
  BY DEF ProofInv
<1>1. UNCHANGED vars => Reads
  BY DEF Reads, vars, genesisVars, artifactVars, genesisFiles, evidenceVars, pipelineVars,
         workVars
<1>2. CASE UNCHANGED sdkVars
  <2>1. Reads /\ client' = client
    BY <1>1, <1>2 DEF sdkVars
  <2> QED BY <1>0, <2>1 DEF SdkInv, SdkTypeOK, Reads, ClientIsAlone, Busy, GenesisActive,
     GenesisEnded, PipelineActive, PipelineEnded, RunOfTheClient, PipelineOfTheClient, Passed,
     Accepted, ResultIsOfTheCall
<1>3. CASE CallGenesis
  BY <1>0, <1>3, CallGenesisPreserves
<1>4. CASE GenesisReturns \/ ReadReportFile \/ ReadManifestFile
  <2>1. Reads
    BY <1>1, <1>4 DEF GenesisReturns, ReadReportFile, ReadManifestFile
  <2> QED BY <1>0, <1>4, <2>1, GenesisCallPreserves
<1>5. CASE CallProve
  BY <1>0, <1>5, CallProvePreserves
<1>6. CASE ProveReturns \/ ReadProofReport \/ CallEvidence \/ GenesisVerified
  <2>1. Reads
    BY <1>1, <1>6 DEF ProveReturns, ReadProofReport, CallEvidence, GenesisVerified
  <2> QED BY <1>0, <1>6, <2>1, ReadsPreserve
<1>7. CASE ProofsVerify
  <2>1. UNCHANGED <<source, r1cs, witness, aggregate, manifest, genesis, artifact, report,
                    tau, zkey, pipeline, owner>>
    BY <1>7 DEF ProofsVerify, Verification, genesisVars, artifactVars, genesisFiles,
       evidenceVars, pipelineVars, workVars
  <2> QED BY <1>0, <1>7, <2>1, EvidencePreserves
<1>8. CASE EvidenceReturns
  <2>1. Reads
    BY <1>1, <1>8 DEF EvidenceReturns
  <2> QED BY <1>0, <1>8, <2>1, EvidencePreserves DEF Reads
<1>9. CASE ToolWork
  BY <1>0, <1>9, OwnRunPreserves, PipelineRunPreserves, OwnPipelinePreserves DEF ToolWork
<1>10. CASE Others
  BY <1>0, <1>10, OthersPreserve
<1> QED BY <1>2, <1>3, <1>4, <1>5, <1>6, <1>7, <1>8, <1>9, <1>10 DEF SdkNext, ClientWork

\* The client finds what its own calls left, until it has returned: SdkInv is
\* inductive beside ProofInv and OwnerHolds.
THEOREM SdkInvariant == ASSUME Exclusive, Alone PROVE SdkSpec => []SdkInv
<1>1. SdkInit /\ ProofInv => SdkInv
  BY ClientBegins
<1>2. SdkInv /\ ProofInv /\ OwnerHolds /\ ProofInv' /\ [SdkNext]_sdkVars => SdkInv'
  BY SdkNextPreserves
<1> QED BY <1>1, <1>2, ClientCallsTheTools, ProofInvariant, RecordsAreOnTheDisk, PTL
        DEF SdkSpec

\* What runGenesis returns was written by the run it started, and that run passed.
THEOREM ResultsAreOfTheCall == ASSUME Exclusive, Alone PROVE SdkSpec => []ResultIsOfTheCall
<1>1. SdkInv => ResultIsOfTheCall
  BY DEF SdkInv
<1> QED BY <1>1, SdkInvariant, PTL

\* What verifyEvidence has verified is what generateDevelopmentProofs made.
THEOREM VerifiedIsWhatWasProved ==
    ASSUME Exclusive, Alone
    PROVE  SdkSpec => []VerifiedWhatWasProved
<1>1. SdkInv /\ ProofsGoStaleByEdits => VerifiedWhatWasProved
  <2> SUFFICES ASSUME SdkInv, ProofsGoStaleByEdits, client.pc = "returned", client.proved
               PROVE  /\ Accepted = client.proofReport
                      /\ Accepted.by = ClientPipeline
                      /\ Accepted.genesis = client.verifying
                      /\ \A c \in Circuits \ edited[ClientPipeline] :
                           verifier.read[c].vkey.circuit = source[c]
    BY DEF VerifiedWhatWasProved
  <2>1. /\ Passed /\ Accepted = client.proofReport /\ Accepted.by = ClientPipeline
        /\ Accepted.genesis = client.verifying
    BY DEF SdkInv, PipelineOfTheClient
  <2> QED BY <2>1 DEF ProofsGoStaleByEdits
<1> QED BY <1>1, SdkInvariant, ClientCallsTheTools, StaleOnlyByEdits, PTL

=============================================================================
