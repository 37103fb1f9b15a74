----------------------------- MODULE EvidenceTree -----------------------------
(***************************************************************************)
(* The files the Genesis tools share: the sources under test, the binaries *)
(* compiled from them under artifacts/pn521-genesis, and the evidence      *)
(* under tests/genesis/reports.  Nothing locks them: tools/run-genesis.mjs *)
(* writes them, tools/verify-evidence.mjs reads them, and a developer      *)
(* edits the sources.                                                      *)
(*                                                                         *)
(* A file is its content.  SHA-256 is taken to be injective, so a digest   *)
(* of a file or of a record is modelled by the content it is the digest    *)
(* of, and comparing digests is comparing contents.                        *)
(***************************************************************************)
EXTENDS Integers

CONSTANTS
    Runs,       \* processes of tools/run-genesis.mjs, each one run
    NReports,   \* Genesis cases, then regressions, in the order they are run
    NSources,   \* groups of sources compiled together, in the order compiled
    NVersions,  \* versions an edit may give a group of sources
    Backend,    \* the group of sources whose binary a case is run on
    Right       \* <<i, v>>: built from version v, case i observes what is expected

Reports == 1..NReports
Sources == 1..NSources
Versions == 1..NVersions

ASSUME TreeAssumption ==
    /\ NReports \in Nat \ {0}
    /\ NSources \in Nat \ {0}
    /\ NVersions \in Nat \ {0}
    /\ Backend \in [Reports -> Sources]
    /\ Right \in SUBSET (Reports \X Versions)

VARIABLES
    source,      \* the version of each group of sources in the working tree
    binary,      \* the version each binary was built from, NotBuilt if there is none
    reportFile,  \* cases/*.json and regressions/*.json
    rootFile     \* the three evidence files beside them

treeVars == <<source, binary, reportFile, rootFile>>

NotBuilt == 0
RootFiles == {"tool-source-hashes", "genesis-report", "manifest"}

-----------------------------------------------------------------------------
(* Contents. *)

Missing == [kind |-> "missing"]

\* A file run r has truncated and not yet written: no JSON parses from it.
Torn(r) == [kind |-> "torn", by |-> r]

\* What a case observes when it is run on the binary built from version v.
Observed(i, v) == IF <<i, v>> \in Right THEN "expected" ELSE "unexpected"

\* Fault: a value compared with itself.
MatchesItself(observed) == observed = observed

\* sameJson(actual.observed, expected), and assertEqual of the same two.
Matches(observed) == observed = "expected"

CaseRecord(i, v) ==
    [kind |-> "case", id |-> i, built |-> v, observed |-> Observed(i, v),
     passed |-> Matches(Observed(i, v))]

CaseRecords == {CaseRecord(i, v) : i \in Reports, v \in Versions}

ToolRecord(versions) == [kind |-> "tool", sources |-> versions]

ToolRecords == [kind : {"tool"}, sources : [Sources -> Versions]]

TornFiles == {Torn(r) : r \in Runs}

\* What one case leaves in the aggregate and in the manifest: the digest of
\* the record in memory and that of the file it was written to.
Summaries == [record : CaseRecords, file : CaseRecords \cup TornFiles]

AggregateRecords ==
    [kind : {"aggregate"}, status : {"pass", "fail"}, run : Runs,
     cases : [Reports -> Summaries], tool : ToolRecords]

ManifestRecords ==
    [kind : {"manifest"},
     aggregate : [record : AggregateRecords, file : AggregateRecords \cup TornFiles],
     tool : [record : ToolRecords, file : ToolRecords \cup TornFiles],
     cases : [Reports -> Summaries]]

RootContents(f) ==
    TornFiles \cup {Missing} \cup
        CASE f = "tool-source-hashes" -> ToolRecords
          [] f = "genesis-report" -> AggregateRecords
          [] f = "manifest" -> ManifestRecords

TreeTypeOK ==
    /\ source \in [Sources -> Versions]
    /\ binary \in [Sources -> Versions \cup {NotBuilt}]
    /\ reportFile \in [Reports -> CaseRecords \cup TornFiles \cup {Missing}]
    /\ rootFile = [f \in RootFiles |-> rootFile[f]]
    /\ \A f \in RootFiles : rootFile[f] \in RootContents(f)

\* A checkout of one version, with no evidence and nothing built.
TreeInit ==
    /\ source = [s \in Sources |-> 1]
    /\ binary = [s \in Sources |-> NotBuilt]
    /\ reportFile = [i \in Reports |-> Missing]
    /\ rootFile = [f \in RootFiles |-> Missing]

=============================================================================
