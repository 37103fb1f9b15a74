---------------------------- MODULE VerifyEvidence ----------------------------
(***************************************************************************)
(* tools/verify-evidence.mjs: a process that reads the manifest once, then *)
(* the files the manifest names one after the other, then the sources, and *)
(* throws at the first check that fails.  It writes nothing.               *)
(*                                                                         *)
(* A file is read twice: assertFileEvidence hashes its bytes, and          *)
(* readEnvelope then reads it again and parses it.  The file may change    *)
(* between the two.                                                        *)
(***************************************************************************)
EXTENDS EvidenceTree

VARIABLE check  \* the local state of the process

NothingRead == [kind |-> "none"]

CheckPhases ==
    {"idle", "directories", "caseFile", "caseRecord", "aggregateFile",
     "aggregateRecord", "toolFile", "toolRecord", "source", "pass", "fail"}

CheckStates ==
    [pc : CheckPhases,
     at : Nat,  \* the index of the loop the process is in
     manifest : ManifestRecords \cup {NothingRead},
     cases : [Reports -> CaseRecords \cup {NothingRead}],
     aggregate : AggregateRecords \cup {NothingRead},
     tool : ToolRecords \cup {NothingRead}]

CheckTypeOK == check \in CheckStates

\* A process that holds nothing it read.
Empty(pc) ==
    [pc |-> pc, at |-> 1, manifest |-> NothingRead,
     cases |-> [i \in Reports |-> NothingRead],
     aggregate |-> NothingRead, tool |-> NothingRead]

CheckInit == check = Empty("idle")

Decided == check.pc \in {"pass", "fail"}

\* Fail closed: the process goes on with "next" if "ok", and else throws.
Require(ok, next) ==
    check' = IF ok THEN next ELSE Empty("fail")

\* To the next case or source, or to the phase after the loop.
Proceed(state, n, pc, after) ==
    IF state.at < n
    THEN [state EXCEPT !.pc = pc, !.at = @ + 1]
    ELSE [state EXCEPT !.pc = after, !.at = 1]

-----------------------------------------------------------------------------

\* The process starts: it throws when there is no manifest or none that parses.
ReadManifest ==
    LET content == rootFile["manifest"]
    IN  /\ check.pc = "idle"
        /\ Require(content.kind = "manifest",
                   [check EXCEPT !.pc = "directories", !.manifest = content])

\* assertExactDirectoryEntries; no tool adds other files, so a difference is a
\* file that is not there.
ListDirectories ==
    /\ check.pc = "directories"
    /\ Require(/\ \A f \in RootFiles : rootFile[f] # Missing
               /\ \A i \in Reports : reportFile[i] # Missing,
               [check EXCEPT !.pc = "caseFile"])

CheckCaseFile ==
    LET i == check.at
    IN  /\ check.pc = "caseFile"
        /\ Require(reportFile[i] = check.manifest.cases[i].file,
                   [check EXCEPT !.pc = "caseRecord"])

CheckCaseRecord ==
    LET i == check.at
        content == reportFile[i]
    IN  /\ check.pc = "caseRecord"
        /\ Require(/\ content.kind = "case"
                   /\ content = check.manifest.cases[i].record
                   /\ content.id = i
                   /\ Matches(content.observed)
                   /\ content.passed,
                   Proceed([check EXCEPT !.cases[i] = content],
                           NReports, "caseFile", "aggregateFile"))

CheckAggregateFile ==
    /\ check.pc = "aggregateFile"
    /\ Require(rootFile["genesis-report"] = check.manifest.aggregate.file,
               [check EXCEPT !.pc = "aggregateRecord"])

\* The summaries the aggregate lists are those of the reports that were read.
CheckAggregateRecord ==
    LET content == rootFile["genesis-report"]
    IN  /\ check.pc = "aggregateRecord"
        /\ Require(/\ content.kind = "aggregate"
                   /\ content = check.manifest.aggregate.record
                   /\ content.status = "pass"
                   /\ content.cases = [i \in Reports |->
                        [record |-> check.cases[i], file |-> check.manifest.cases[i].file]],
                   [check EXCEPT !.pc = "toolFile", !.aggregate = content])

CheckToolFile ==
    /\ check.pc = "toolFile"
    /\ Require(rootFile["tool-source-hashes"] = check.manifest.tool.file,
               [check EXCEPT !.pc = "toolRecord"])

CheckToolRecord ==
    LET content == rootFile["tool-source-hashes"]
    IN  /\ check.pc = "toolRecord"
        /\ Require(/\ content.kind = "tool"
                   /\ content = check.manifest.tool.record
                   /\ check.aggregate.tool = content,
                   [check EXCEPT !.pc = "source", !.tool = content])

CheckSource ==
    LET s == check.at
    IN  /\ check.pc = "source"
        /\ Require(source[s] = check.tool.sources[s],
                   Proceed(check, NSources, "source", "pass"))

\* What the process does once it has started.
Verify ==
    \/ ListDirectories \/ CheckCaseFile \/ CheckCaseRecord
    \/ CheckAggregateFile \/ CheckAggregateRecord \/ CheckToolFile
    \/ CheckToolRecord \/ CheckSource

CheckStep == (ReadManifest \/ Verify) /\ UNCHANGED treeVars

=============================================================================
