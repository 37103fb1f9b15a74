---------------------------- MODULE GenesisEvidence ---------------------------
(***************************************************************************)
(* The Genesis evidence as the repository's commands use it: any number of *)
(* runs (just test) and a verification (just evidence) over one working    *)
(* tree, which a developer edits.  What a verification that passes can be  *)
(* relied on for, and when one that fails is right to.                     *)
(***************************************************************************)
EXTENDS RunGenesis, VerifyEvidence

CONSTANTS
    Edits,            \* <<v, w>>: an edit may turn version v into version w
    EditsDuringRuns,  \* FALSE: sources are edited only while no run is under way
    CheckDuringRuns   \* FALSE: a verification starts only while no run is under way

ASSUME ScheduleAssumption ==
    /\ Edits \in SUBSET (Versions \X Versions)
    /\ EditsDuringRuns \in BOOLEAN
    /\ CheckDuringRuns \in BOOLEAN

VARIABLES
    calm,  \* history: nothing has happened since the verification began
    stood  \* history: the run whose evidence was whole when it began

vars == <<treeVars, runVars, check, calm, stood>>

\* The types of the tree and of what each process has in memory.
TypeOK ==
    /\ TreeTypeOK /\ RunTypeOK /\ CheckTypeOK
    /\ calm \in BOOLEAN
    /\ stood \in Runs \cup {NoRun}

Init == TreeInit /\ RunInit /\ CheckInit /\ calm = FALSE /\ stood = NoRun

-----------------------------------------------------------------------------

Quiet == \A r \in Runs : ~ Active(r)

Complete ==
    /\ \A f \in RootFiles : rootFile[f] # Missing
    /\ \A i \in Reports : reportFile[i] # Missing

\* The run whose evidence is in the tree, none if a file of it is missing.
Whole ==
    IF rootFile["manifest"].kind = "manifest" /\ Complete
    THEN rootFile["manifest"].aggregate.record.run
    ELSE NoRun

\* A developer gives a group of sources another version.
Edit(s) ==
    /\ EditsDuringRuns \/ Quiet
    /\ \E v \in Versions : /\ <<source[s], v>> \in Edits
                          /\ source' = [source EXCEPT ![s] = v]
    /\ calm' = FALSE
    /\ UNCHANGED <<binary, reportFile, rootFile, runVars, check, stood>>

\* A step of a run, which leaves the verification alone but not undisturbed.
Beside(step) == step /\ calm' = FALSE /\ UNCHANGED <<check, stood>>

RunnerStep(r) == Beside(RunStep(r))

VerifierStep ==
    /\ CheckStep
    /\ check.pc = "idle" => CheckDuringRuns \/ Quiet
    /\ calm' = (calm \/ check.pc = "idle")
    /\ stood' = IF check.pc = "idle" THEN Whole ELSE stood
    /\ UNCHANGED runVars

Next ==
    \/ \E s \in Sources : Edit(s)
    \/ \E r \in Runs : RunnerStep(r)
    \/ VerifierStep

Spec == Init /\ [][Next]_vars

\* A process that can take a step is scheduled; none is bound to start.
Fairness ==
    /\ \A r \in Runs : WF_vars(Beside(Work(r)))
    /\ WF_vars(Verify /\ VerifierStep)

FairSpec == Spec /\ Fairness

-----------------------------------------------------------------------------
(* Why it holds: the inductive invariant. *)

Loading(m) == m.pc \in {"execute", "open", "write", "digest"}
Closing(m) == m.pc \in {"rootOpen", "rootWrite", "bindAggregate", "bindTool", "done"}

\* What a run has in memory, m, by the phase it is in.
Filled(m) ==
    /\ m.pc \in {"compile", "hash"} => m.at \in Sources
    /\ Loading(m) => m.at \in Reports
    /\ m.pc \in {"idle", "clean"} => m.at = 1
    /\ m.pc \in {"rootOpen", "rootWrite"} => m.at \in 1..3
    /\ m.pc \in {"bindAggregate", "bindTool"} => m.at = 3
    /\ \A i \in Reports :
         Closing(m) \/ m.pc = "hash" \/ (Loading(m) /\ i < m.at) =>
           /\ m.records[i] \in CaseRecords
           /\ m.files[i] \in CaseRecords \cup TornFiles
    /\ m.pc \in {"open", "write", "digest"} => m.records[m.at] \in CaseRecords
    /\ \A s \in Sources :
         Closing(m) \/ (m.pc = "hash" /\ s < m.at) => m.hashed[s] \in Versions
    /\ m.pc \in {"bindTool", "done"} \/ (m.pc \in {"rootOpen", "rootWrite"} /\ m.at = 3) =>
         m.aggregateFile \in AggregateRecords \cup TornFiles
    /\ m.pc = "done" \/ (m.pc \in {"rootOpen", "rootWrite"} /\ m.at = 3) =>
         m.toolFile \in ToolRecords \cup TornFiles

MemoryFills == \A r \in Runs : Filled(run[r])

\* A whole manifest is the one its run wrote as its last act.
IsManifestOfRun(m) ==
    LET r == m.aggregate.record.run
    IN  r \in Runs /\ run[r].pc = "done" /\ m = Manifest(r, run[r])

Checking(c) == c.pc \notin {"idle", "fail"}

ManifestsAreWhole ==
    /\ rootFile["manifest"] \in ManifestRecords => IsManifestOfRun(rootFile["manifest"])
    /\ Checking(check) =>
         check.manifest \in ManifestRecords /\ IsManifestOfRun(check.manifest)

CaseChecked(c, i) ==
    /\ Checking(c) /\ c.pc # "directories"
    /\ c.pc \in {"caseFile", "caseRecord"} => i < c.at

\* What a verification, c, has read is what the manifest names, and has passed.
Follows(c) ==
    /\ c.pc \in {"idle", "directories"} => c.at = 1
    /\ c.pc \in {"caseFile", "caseRecord"} => c.at \in Reports
    /\ c.pc \in {"aggregateFile", "aggregateRecord", "toolFile", "toolRecord"} => c.at = 1
    /\ c.pc = "source" => c.at \in Sources
    /\ \A i \in Reports : CaseChecked(c, i) =>
         /\ c.cases[i] = c.manifest.cases[i].record
         /\ c.cases[i] \in CaseRecords
         /\ c.cases[i].id = i
         /\ c.cases[i].passed
    /\ c.pc \in {"toolFile", "toolRecord", "source", "pass"} =>
         c.aggregate = c.manifest.aggregate.record
    /\ c.pc \in {"source", "pass"} => c.tool = c.manifest.tool.record

CheckFollowsManifest == Follows(check)

\* The whole: a run writes its manifest last, from a memory that is full and no
\* longer changes, and a verification accepts only what its manifest names.
EvidenceInv == TypeOK /\ MemoryFills /\ ManifestsAreWhole /\ CheckFollowsManifest

-----------------------------------------------------------------------------
(* What holds besides when the sources rest while a run is under way. *)

\* Everything a run has made of the sources, m, agrees with their versions.
MadeFrom(m, versions) ==
    /\ \A i \in Reports :
         m.records[i] # NoRecord => m.records[i].built = versions[Backend[i]]
    /\ \A s \in Sources : m.hashed[s] # NotBuilt => m.hashed[s] = versions[s]

\* A run has removed what others left, and is not dead.
Cleared(m) == m.pc \notin {"idle", "clean", "dead"}

\* Runs may overlap, and use each other's binaries: none is of other sources.
SourcesRest ==
    \A r \in Runs :
      /\ run[r].pc = "idle" => run[r] = Blank("idle")
      /\ Active(r) /\ Cleared(run[r]) =>
           \A s \in Sources : binary[s] \in {NotBuilt, source[s]}
      /\ Active(r) => MadeFrom(run[r], source)
      /\ run[r].pc = "done" => MadeFrom(run[r], run[r].hashed)

-----------------------------------------------------------------------------
(* What holds besides when runs do not overlap. *)

OneAtATime == \A r, other \in Runs : Active(r) /\ Active(other) => r = other

RecordsNameTheirCase(m) ==
    \A i \in Reports : m.records[i] # NoRecord => m.records[i].id = i

CaseBound(m, i) == Closing(m) \/ m.pc = "hash" \/ (Loading(m) /\ i < m.at)

CaseWritten(m, i) == CaseBound(m, i) \/ (m.pc = "digest" /\ i = m.at)

RootWritten(m, k) == Closing(m) /\ (m.pc = "done" \/ k < m.at)

ManifestDue(m) == m.pc = "done" \/ (m.pc \in {"rootOpen", "rootWrite"} /\ m.at = 3)

\* An aggregate, content, is not that of another run than r.
NotOfOther(content, r) == content.kind = "aggregate" => content.run = r

\* The files, reports and roots, are what run r, with m in its memory, has
\* written so far, and m holds what is in them.
Owns(r, m, reports, roots) ==
    /\ \A i \in Reports :
         /\ CaseWritten(m, i) => reports[i] = m.records[i]
         /\ CaseBound(m, i) => m.files[i] = m.records[i]
         /\ m.pc = "write" /\ i = m.at => reports[i] = Torn(r)
    /\ RootWritten(m, 1) => roots["tool-source-hashes"] = Tool(m)
    /\ RootWritten(m, 2) => roots["genesis-report"] = Aggregate(r, m)
    /\ m.pc = "rootWrite" => roots[RootOrder[m.at]] = Torn(r)
    /\ m.pc = "bindTool" \/ ManifestDue(m) => m.aggregateFile = Aggregate(r, m)
    /\ ManifestDue(m) => m.toolFile = Tool(m)
    /\ m.pc = "done" => roots["manifest"] = Manifest(r, m)
    /\ m.pc # "done" => roots["manifest"] \in {Missing, Torn(r)}
    /\ NotOfOther(roots["genesis-report"], r)

OwnersOwn ==
    \A r \in Runs : Cleared(run[r]) =>
      /\ Active(r) => owner = r
      /\ owner = r => Owns(r, run[r], reportFile, rootFile)

\* A manifest outlives its run's evidence only while a file it names is gone.
StaleIsIncomplete ==
    rootFile["manifest"] \in ManifestRecords /\ Complete =>
      rootFile["manifest"].aggregate.record.run = owner

AggregateIsOwners == Complete => NotOfOther(rootFile["genesis-report"], owner)

\* What the last run left is whole, passes and is of the sources as they are.
Stands ==
    /\ owner # NoRun
    /\ run[owner].pc = "done"
    /\ Aggregate(owner, run[owner]).status = "pass"
    /\ run[owner].hashed = source

\* A verification nothing disturbs reads one tree.
CalmReadsOneTree ==
    calm => /\ check.pc # "idle"
            /\ Checking(check) => check.manifest = rootFile["manifest"]
            /\ Checking(check) /\ check.pc # "directories" => Complete
            /\ check.pc = "fail" => ~ Stands

\* The files are of the run that cleared the tree last.
OwnedTree ==
    /\ \A r \in Runs : RecordsNameTheirCase(run[r])
    /\ OneAtATime
    /\ OwnersOwn
    /\ StaleIsIncomplete
    /\ AggregateIsOwners
    /\ CalmReadsOneTree

\* A verification whose manifest was not whole evidence when it was read will
\* miss a file of it, or find the aggregate gone or of a later run.
LateIsDoomed ==
    LET r == check.manifest.aggregate.record.run
        content == rootFile["genesis-report"]
    IN  Checking(check) /\ r # stood =>
          /\ r # owner
          /\ check.pc \in {"directories", "caseFile", "caseRecord",
                           "aggregateFile", "aggregateRecord"}
          /\ \/ check.pc = "directories" /\ ~ Complete
             \/ content.kind # "aggregate"
             \/ content.run # r

\* The whole.
TreeIsOwned == OwnedTree /\ LateIsDoomed

-----------------------------------------------------------------------------
(* What a verification that passes shows. *)

Passed == check.pc = "pass"

\* The case records accepted, and the tool and source record, are those one
\* run made in its own memory, and that run reached its end: however runs
\* overlap, overwrite each other's files or die, reports of two runs are
\* never accepted together, nor those of a run that stopped half way.
AcceptedIsOneRun ==
    Passed => LET r == check.aggregate.run
              IN  /\ run[r].pc = "done"
                  /\ \A i \in Reports : check.cases[i] = run[r].records[i]
                  /\ check.tool = Tool(run[r])

\* Every case accepted was run on a binary that answers it rightly.
AcceptedPassed ==
    Passed => \A i \in Reports : <<i, check.cases[i].built>> \in Right

\* The baseline binds the source: the binaries the accepted cases were run on
\* were built from the versions the accepted record lists.
RecordedSourcesWereTested ==
    Passed => \A i \in Reports :
                check.cases[i].built = check.tool.sources[Backend[i]]

\* Runs that overlap cannot hold each other up: each ends, if only by throwing.
EveryRunEnds == \A r \in Runs : Active(r) ~> Ended(r)

\* What a verification accepts stood whole at the moment it began, whatever
\* happens to the tree while it reads: once a run has begun to clear the
\* evidence, what an earlier run left is never accepted by a verification that
\* begins then, not even when the later run dies at its next step.
NoStaleAcceptance ==
    Passed => check.aggregate.run = stood

\* The verifier asks for nothing the runner does not write: undisturbed, it
\* accepts what the last run left if that run ended, all its cases passed,
\* and the sources are those it recorded.
NoFalseAlarm == ~ (check.pc = "fail" /\ calm /\ Stands)

-----------------------------------------------------------------------------

Finished == {r \in Runs : run[r].pc = "done"}
Verdict == IF check.pc = "idle" THEN "none" ELSE IF Decided THEN check.pc ELSE "checking"
Accepted == IF Passed THEN check.aggregate.run ELSE NoRun

Store == INSTANCE EvidenceStore WITH
    published <- Whole, finished <- Finished,
    verdict <- Verdict, candidate <- stood, accepted <- Accepted

\* File by file, runs and a verification keep what the store promises: evidence
\* appears whole, once, at the last write of its run; it is gone at the first
\* file the next run removes, and does not come back; what is accepted was there
\* when the verification began.
ImplementsStore == Store!Spec

=============================================================================
