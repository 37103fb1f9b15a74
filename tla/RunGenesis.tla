------------------------------ MODULE RunGenesis ------------------------------
(***************************************************************************)
(* tools/run-genesis.mjs: a process that clears the evidence, compiles,    *)
(* runs every case, and writes the report of each, the tool and source     *)
(* record, the aggregate and, last, the manifest.                          *)
(*                                                                         *)
(* Every file operation is a step of its own, so that another process, an  *)
(* edit or the death of this one can come between any two.  writeJson is   *)
(* two steps, the truncation and the write.                                *)
(***************************************************************************)
EXTENDS EvidenceTree

CONSTANTS
    Exclusive,  \* TRUE: no run starts while another is under way
    Kills       \* TRUE: a run may be killed at any step

ASSUME RunAssumption == Exclusive \in BOOLEAN /\ Kills \in BOOLEAN

VARIABLES
    run,   \* the local state of each process
    owner  \* history: the run that last began to clear the evidence

runVars == <<run, owner>>

NoRecord == [kind |-> "none"]
NoRun == [kind |-> "none"]

ASSUME NoRunAssumption == NoRun \notin Runs

RootOrder == <<"tool-source-hashes", "genesis-report", "manifest">>

Phases == {"idle", "clean", "compile", "execute", "open", "write", "digest", "hash",
           "rootOpen", "rootWrite", "bindAggregate", "bindTool", "done", "dead"}

RunStates ==
    [pc : Phases,
     at : Nat,  \* the index of the loop the process is in
     records : [Reports -> CaseRecords \cup {NoRecord}],
     files : [Reports -> CaseRecords \cup TornFiles \cup {NoRecord}],
     hashed : [Sources -> Versions \cup {NotBuilt}],
     aggregateFile : AggregateRecords \cup TornFiles \cup {NoRecord},
     toolFile : ToolRecords \cup TornFiles \cup {NoRecord}]

RunTypeOK ==
    /\ run \in [Runs -> RunStates]
    /\ owner \in Runs \cup {NoRun}

\* A process with nothing in memory.
Blank(pc) ==
    [pc |-> pc, at |-> 1,
     records |-> [i \in Reports |-> NoRecord],
     files |-> [i \in Reports |-> NoRecord],
     hashed |-> [s \in Sources |-> NotBuilt],
     aggregateFile |-> NoRecord, toolFile |-> NoRecord]

RunInit ==
    /\ run = [r \in Runs |-> Blank("idle")]
    /\ owner = NoRun

Ended(r) == run[r].pc \in {"done", "dead"}
Active(r) == run[r].pc # "idle" /\ ~ Ended(r)

-----------------------------------------------------------------------------
(* The records run r makes of what it has in memory, m. *)

Tool(m) == ToolRecord(m.hashed)

\* Fault: the digest of the record too is that of what is read back.
SummaryReadBack(m) == [i \in Reports |-> [record |-> m.files[i], file |-> m.files[i]]]

Summary(m) == [i \in Reports |-> [record |-> m.records[i], file |-> m.files[i]]]

Aggregate(r, m) ==
    [kind |-> "aggregate",
     status |-> IF \A i \in Reports : m.records[i].passed THEN "pass" ELSE "fail",
     run |-> r,  \* runMetadata: the time of the run tells it from every other
     cases |-> Summary(m),
     tool |-> Tool(m)]

\* Fault: the digest of the aggregate's file is bound in both places.
ManifestMixedUp(r, m) ==
    [kind |-> "manifest",
     aggregate |-> [record |-> Aggregate(r, m), file |-> m.aggregateFile],
     tool |-> [record |-> Tool(m), file |-> m.aggregateFile],
     cases |-> Summary(m)]

Manifest(r, m) ==
    [kind |-> "manifest",
     aggregate |-> [record |-> Aggregate(r, m), file |-> m.aggregateFile],
     tool |-> [record |-> Tool(m), file |-> m.toolFile],
     cases |-> Summary(m)]

RootRecord(r, f) ==
    CASE f = "tool-source-hashes" -> Tool(run[r])
      [] f = "genesis-report" -> Aggregate(r, run[r])
      [] f = "manifest" -> Manifest(r, run[r])

\* What a file may hold after run r has written content to the file it
\* opened.  If another process has touched it since, the write may have gone
\* to a file that was removed, or have been mixed with the other's.
Written(now, r, content) ==
    IF now = Torn(r) THEN {content}
    ELSE IF now = Missing THEN {Missing}
    ELSE {content, now, Torn(r)}

-----------------------------------------------------------------------------
(* The steps of run r. *)

\* To index "at" of phase pc.
Jump(m, pc, at) == [m EXCEPT !.pc = pc, !.at = at]

\* To the next index of a loop of n steps at phase pc, or to the phase after it.
Advance(m, n, pc, after) ==
    IF m.at < n THEN Jump(m, pc, m.at + 1) ELSE Jump(m, after, 1)

Start(r) ==
    /\ run[r].pc = "idle"
    /\ Exclusive => \A other \in Runs : ~ Active(other)
    /\ run' = [run EXCEPT ![r].pc = "clean"]
    /\ UNCHANGED <<treeVars, owner>>

\* rmSync of the report directory removes the files one by one, in no order
\* the program chooses.
RemoveFile(r) ==
    /\ run[r].pc = "clean"
    /\ owner' = r
    /\ \/ /\ \E i \in Reports : /\ reportFile[i] # Missing
                                /\ reportFile' = [reportFile EXCEPT ![i] = Missing]
          /\ UNCHANGED rootFile
       \/ /\ \E f \in RootFiles : /\ rootFile[f] # Missing
                                  /\ rootFile' = [rootFile EXCEPT ![f] = Missing]
          /\ UNCHANGED reportFile
    /\ UNCHANGED <<source, binary, run>>

\* Fault: the directories are made without removing what is there.
PrepareOver(r) ==
    /\ run[r].pc = "clean"
    /\ binary' = [s \in Sources |-> NotBuilt]
    /\ owner' = r
    /\ run' = [run EXCEPT ![r].pc = "compile"]
    /\ UNCHANGED <<source, reportFile, rootFile>>

\* The directory is gone: remove the artifacts and make the directories anew.
Prepare(r) ==
    /\ run[r].pc = "clean"
    /\ \A i \in Reports : reportFile[i] = Missing
    /\ \A f \in RootFiles : rootFile[f] = Missing
    /\ binary' = [s \in Sources |-> NotBuilt]
    /\ owner' = r
    /\ run' = [run EXCEPT ![r].pc = "compile"]
    /\ UNCHANGED <<source, reportFile, rootFile>>

\* Fault: every binary is built from the first group of sources.
CompileFirst(r) ==
    /\ run[r].pc = "compile"
    /\ binary' = [binary EXCEPT ![run[r].at] = source[1]]
    /\ run' = [run EXCEPT ![r] = Advance(run[r], NSources, "compile", "execute")]
    /\ UNCHANGED <<source, reportFile, rootFile, owner>>

Compile(r) ==
    /\ run[r].pc = "compile"
    /\ binary' = [binary EXCEPT ![run[r].at] = source[run[r].at]]
    /\ run' = [run EXCEPT ![r] = Advance(run[r], NSources, "compile", "execute")]
    /\ UNCHANGED <<source, reportFile, rootFile, owner>>

\* Runs the case on the binary that is there now, whoever built it, and keeps
\* the record.  Without a binary it throws (see Throw).
Execute(r) ==
    LET i == run[r].at
        built == binary[Backend[i]]
    IN  /\ run[r].pc = "execute"
        /\ built # NotBuilt
        /\ run' = [run EXCEPT ![r].pc = "open", ![r].records[i] = CaseRecord(i, built)]
        /\ UNCHANGED <<treeVars, owner>>

OpenReport(r) ==
    /\ run[r].pc = "open"
    /\ reportFile' = [reportFile EXCEPT ![run[r].at] = Torn(r)]
    /\ run' = [run EXCEPT ![r].pc = "write"]
    /\ UNCHANGED <<source, binary, rootFile, owner>>

WriteReport(r) ==
    LET i == run[r].at
    IN  /\ run[r].pc = "write"
        /\ \E c \in Written(reportFile[i], r, run[r].records[i]) :
              reportFile' = [reportFile EXCEPT ![i] = c]
        /\ run' = [run EXCEPT ![r].pc = "digest"]
        /\ UNCHANGED <<source, binary, rootFile, owner>>

\* The digest of the report is read back from the disk.
DigestReport(r) ==
    LET i == run[r].at
    IN  /\ run[r].pc = "digest"
        /\ reportFile[i] # Missing
        /\ run' = [run EXCEPT ![r] = Advance([run[r] EXCEPT !.files[i] = reportFile[i]],
                                           NReports, "execute", "hash")]
        /\ UNCHANGED <<treeVars, owner>>

\* The sources are hashed after every case has been run.
HashSource(r) ==
    LET s == run[r].at
    IN  /\ run[r].pc = "hash"
        /\ run' = [run EXCEPT ![r] = Advance([run[r] EXCEPT !.hashed[s] = source[s]],
                                           NSources, "hash", "rootOpen")]
        /\ UNCHANGED <<treeVars, owner>>

OpenRootFile(r) ==
    /\ run[r].pc = "rootOpen"
    /\ rootFile' = [rootFile EXCEPT ![RootOrder[run[r].at]] = Torn(r)]
    /\ run' = [run EXCEPT ![r].pc = "rootWrite"]
    /\ UNCHANGED <<source, binary, reportFile, owner>>

\* Fault: the manifest is written before the other two files are bound.
AfterRootWriteUnbound(m) ==
    IF m.at < 3 THEN Jump(m, "rootOpen", m.at + 1) ELSE Jump(m, "done", 3)

\* The manifest needs the digests of the other two files first.
AfterRootWrite(m) ==
    CASE m.at = 1 -> Jump(m, "rootOpen", 2)
      [] m.at = 2 -> Jump(m, "bindAggregate", 3)
      [] m.at = 3 -> Jump(m, "done", 3)

WriteRootFile(r) ==
    LET f == RootOrder[run[r].at]
    IN  /\ run[r].pc = "rootWrite"
        /\ \E c \in Written(rootFile[f], r, RootRecord(r, f)) :
              rootFile' = [rootFile EXCEPT ![f] = c]
        /\ run' = [run EXCEPT ![r] = AfterRootWrite(run[r])]
        /\ UNCHANGED <<source, binary, reportFile, owner>>

BindAggregate(r) ==
    /\ run[r].pc = "bindAggregate"
    /\ rootFile["genesis-report"] # Missing
    /\ run' = [run EXCEPT ![r].pc = "bindTool",
                          ![r].aggregateFile = rootFile["genesis-report"]]
    /\ UNCHANGED <<treeVars, owner>>

BindTool(r) ==
    /\ run[r].pc = "bindTool"
    /\ rootFile["tool-source-hashes"] # Missing
    /\ run' = [run EXCEPT ![r].pc = "rootOpen",
                          ![r].toolFile = rootFile["tool-source-hashes"]]
    /\ UNCHANGED <<treeVars, owner>>

\* The process ends before its end: the tree stays as it is, its memory is lost.
Die(r) ==
    /\ run' = [run EXCEPT ![r] = Blank("dead")]
    /\ UNCHANGED <<treeVars, owner>>

\* Fault: a run that cannot go on is started over.
ThrowAndRetry(r) ==
    /\ \/ run[r].pc = "execute" /\ binary[Backend[run[r].at]] = NotBuilt
       \/ run[r].pc = "digest" /\ reportFile[run[r].at] = Missing
       \/ run[r].pc = "bindAggregate" /\ rootFile["genesis-report"] = Missing
       \/ run[r].pc = "bindTool" /\ rootFile["tool-source-hashes"] = Missing
    /\ run' = [run EXCEPT ![r] = Blank("clean")]
    /\ UNCHANGED <<treeVars, owner>>

\* An exception no one catches: what the next step reads was removed by
\* another run.
Throw(r) ==
    /\ \/ run[r].pc = "execute" /\ binary[Backend[run[r].at]] = NotBuilt
       \/ run[r].pc = "digest" /\ reportFile[run[r].at] = Missing
       \/ run[r].pc = "bindAggregate" /\ rootFile["genesis-report"] = Missing
       \/ run[r].pc = "bindTool" /\ rootFile["tool-source-hashes"] = Missing
    /\ Die(r)

\* A kill, or any other exception: a source that does not compile, a full
\* disk, a tool that is not installed.
Kill(r) ==
    /\ Kills
    /\ Active(r)
    /\ Die(r)

\* What the process does when nothing stops it.
Work(r) ==
    \/ RemoveFile(r) \/ Prepare(r) \/ Compile(r)
    \/ Execute(r) \/ OpenReport(r) \/ WriteReport(r) \/ DigestReport(r)
    \/ HashSource(r) \/ OpenRootFile(r) \/ WriteRootFile(r)
    \/ BindAggregate(r) \/ BindTool(r) \/ Throw(r)

RunStep(r) == Start(r) \/ Work(r) \/ Kill(r)

=============================================================================
