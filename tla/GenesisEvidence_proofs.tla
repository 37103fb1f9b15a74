------------------------- MODULE GenesisEvidence_proofs -----------------------
(***************************************************************************)
(* Proofs about GenesisEvidence, for any number of runs, cases, groups of  *)
(* sources and versions.  Under any schedule EvidenceInv is inductive, and *)
(* with it a verification that passes has accepted the records of one      *)
(* complete run.  Under the two disciplines its guarantees on the working  *)
(* tree need: when the sources rest during runs, what was accepted was     *)
(* tested; when runs do not overlap, a verification neither accepts what   *)
(* is stale nor refuses what stands.                                       *)
(***************************************************************************)
EXTENDS GenesisEvidence, TLAPS

-----------------------------------------------------------------------------
(* What a run writes, by what it has in memory. *)

\* Once the sources are hashed the tool record and the aggregate are whole.
LEMMA RecordsAreWhole ==
    ASSUME NEW r \in Runs, NEW m \in RunStates, Filled(m), Closing(m)
    PROVE  /\ Summary(m) \in [Reports -> Summaries]
           /\ Tool(m) \in ToolRecords
           /\ Aggregate(r, m) \in AggregateRecords
<1>1. Summary(m) \in [Reports -> Summaries]
  BY DEF Filled, Summary, Summaries
<1>2. Tool(m) \in ToolRecords
  <2>1. \A s \in Sources : m.hashed[s] \in Versions
    BY DEF Filled
  <2>2. m.hashed \in [Sources -> Versions \cup {NotBuilt}]
    BY DEF RunStates
  <2>3. m.hashed \in [Sources -> Versions]
    BY <2>1, <2>2
  <2> QED BY <2>3 DEF Tool, ToolRecord, ToolRecords
<1>3. Aggregate(r, m) \in AggregateRecords
  BY <1>1, <1>2 DEF Aggregate, AggregateRecords
<1> QED BY <1>1, <1>2, <1>3

\* When the manifest is written, and ever after, it is whole.
LEMMA ManifestIsWhole ==
    ASSUME NEW r \in Runs, NEW m \in RunStates, Filled(m),
           m.pc = "done" \/ (m.pc \in {"rootOpen", "rootWrite"} /\ m.at = 3)
    PROVE  Manifest(r, m) \in ManifestRecords
<1>1. Closing(m)
  BY DEF Closing
<1>2. /\ m.aggregateFile \in AggregateRecords \cup TornFiles
      /\ m.toolFile \in ToolRecords \cup TornFiles
  BY DEF Filled
<1> QED BY <1>1, <1>2, RecordsAreWhole DEF Manifest, ManifestRecords

-----------------------------------------------------------------------------
(* The local states a run goes through stay well formed. *)

\* A blank process has nothing to be wrong.
LEMMA BlankIsFilled ==
    ASSUME NEW pc \in {"idle", "clean", "dead"}
    PROVE  Blank(pc) \in RunStates /\ Filled(Blank(pc))
<1>1. Blank(pc) \in RunStates
  BY DEF Blank, RunStates, Phases
<1>2. Filled(Blank(pc))
  BY DEF Blank, Filled, Loading, Closing
<1> QED BY <1>1, <1>2

\* To another phase and index, with the memory as it is.
LEMMA JumpType ==
    ASSUME NEW m \in RunStates, NEW p \in Phases, NEW i \in Nat
    PROVE  LET n == Jump(m, p, i)
           IN  /\ n \in RunStates /\ n.pc = p /\ n.at = i
               /\ n.records = m.records /\ n.files = m.files /\ n.hashed = m.hashed
               /\ n.aggregateFile = m.aggregateFile /\ n.toolFile = m.toolFile
BY DEF Jump, RunStates

LEMMA AdvanceType ==
    ASSUME NEW m \in RunStates, NEW k \in Nat, NEW p \in Phases, NEW q \in Phases
    PROVE  LET n == Advance(m, k, p, q)
           IN  /\ n \in RunStates
               /\ m.at < k => n.pc = p /\ n.at = m.at + 1
               /\ ~ (m.at < k) => n.pc = q /\ n.at = 1
               /\ n.records = m.records /\ n.files = m.files /\ n.hashed = m.hashed
               /\ n.aggregateFile = m.aggregateFile /\ n.toolFile = m.toolFile
<1>1. CASE m.at < k
  <2> DEFINE next == m.at + 1
  <2>1. next \in Nat
    BY DEF RunStates
  <2> HIDE DEF next
  <2>2. LET n == Jump(m, p, next)
        IN  /\ n \in RunStates /\ n.pc = p /\ n.at = next
            /\ n.records = m.records /\ n.files = m.files /\ n.hashed = m.hashed
            /\ n.aggregateFile = m.aggregateFile /\ n.toolFile = m.toolFile
    BY <2>1, JumpType
  <2>3. Advance(m, k, p, q) = Jump(m, p, next)
    BY <1>1 DEF Advance, next
  <2> QED BY <1>1, <2>2, <2>3 DEF next
<1>2. CASE ~ (m.at < k)
  BY <1>2, JumpType DEF Advance
<1> QED BY <1>1, <1>2

\* The loops of a run: compile, run the cases, hash the sources.
LEMMA CompileFills ==
    ASSUME NEW m \in RunStates, Filled(m), m.pc = "compile"
    PROVE  LET n == Advance(m, NSources, "compile", "execute")
           IN  n \in RunStates /\ Filled(n)
<1> DEFINE n == Advance(m, NSources, "compile", "execute")
<1>0. m.at \in 1..NSources /\ NSources \in Nat \ {0} /\ NReports \in Nat \ {0}
  BY TreeAssumption DEF Filled, Sources
<1>1. /\ n \in RunStates
      /\ m.at < NSources => n.pc = "compile" /\ n.at = m.at + 1
      /\ ~ (m.at < NSources) => n.pc = "execute" /\ n.at = 1
  BY <1>0, AdvanceType DEF Phases
<1> HIDE DEF n
<1>2. Filled(n)
  BY <1>0, <1>1 DEF Filled, Loading, Closing, Sources, Reports
<1> QED BY <1>1, <1>2 DEF n

LEMMA ExecuteFills ==
    ASSUME NEW m \in RunStates, Filled(m), m.pc = "execute", NEW c \in CaseRecords
    PROVE  LET n == [m EXCEPT !.pc = "open", !.records[m.at] = c]
           IN  n \in RunStates /\ Filled(n)
<1> DEFINE n == [m EXCEPT !.pc = "open", !.records[m.at] = c]
<1>0. m.at \in Reports /\ m.records \in [Reports -> CaseRecords \cup {NoRecord}]
  BY DEF Filled, Loading, RunStates
<1>1. n \in RunStates
  BY <1>0 DEF RunStates, Phases
<1>2. /\ n.pc = "open" /\ n.at = m.at /\ n.files = m.files
      /\ n.records = [m.records EXCEPT ![m.at] = c]
  BY DEF RunStates
<1> HIDE DEF n
<1>3. \A i \in Reports : i < n.at => n.records[i] = m.records[i]
  BY <1>0, <1>2 DEF Reports
<1>4. Filled(n)
  BY <1>0, <1>2, <1>3 DEF Filled, Loading, Closing, Reports
<1> QED BY <1>1, <1>4 DEF n

LEMMA OpenFills ==
    ASSUME NEW m \in RunStates, Filled(m), NEW p \in Phases,
           <<m.pc, p>> \in {<<"open", "write">>, <<"write", "digest">>,
                           <<"rootOpen", "rootWrite">>, <<"idle", "clean">>,
                           <<"clean", "compile">>}
    PROVE  LET n == [m EXCEPT !.pc = p]
           IN  n \in RunStates /\ Filled(n)
<1> DEFINE n == [m EXCEPT !.pc = p]
<1>1. n \in RunStates
  BY DEF RunStates
<1>2. /\ n.pc = p /\ n.at = m.at /\ n.records = m.records /\ n.files = m.files
      /\ n.hashed = m.hashed /\ n.aggregateFile = m.aggregateFile
      /\ n.toolFile = m.toolFile
  BY DEF RunStates
<1> HIDE DEF n
<1>3. NSources \in Nat \ {0}
  BY TreeAssumption
<1>4. Filled(n)
  BY <1>2, <1>3 DEF Filled, Loading, Closing, Sources
<1> QED BY <1>1, <1>4 DEF n

LEMMA DigestFills ==
    ASSUME NEW m \in RunStates, Filled(m), m.pc = "digest",
           NEW c \in CaseRecords \cup TornFiles
    PROVE  LET n == Advance([m EXCEPT !.files[m.at] = c], NReports, "execute", "hash")
           IN  n \in RunStates /\ Filled(n)
<1> DEFINE k == [m EXCEPT !.files[m.at] = c]
           n == Advance(k, NReports, "execute", "hash")
<1>0. /\ m.at \in 1..NReports /\ NReports \in Nat \ {0} /\ NSources \in Nat \ {0}
      /\ m.files \in [Reports -> CaseRecords \cup TornFiles \cup {NoRecord}]
  BY TreeAssumption DEF Filled, Loading, Reports, RunStates
<1>1. /\ k \in RunStates /\ k.at = m.at /\ k.records = m.records
      /\ k.files = [m.files EXCEPT ![m.at] = c]
  BY <1>0 DEF RunStates, Reports
<1> HIDE DEF k
<1>2. /\ n \in RunStates
      /\ m.at < NReports => n.pc = "execute" /\ n.at = m.at + 1
      /\ ~ (m.at < NReports) => n.pc = "hash" /\ n.at = 1
      /\ n.records = m.records /\ n.files = k.files
  <2>1. "execute" \in Phases /\ "hash" \in Phases /\ NReports \in Nat
    BY <1>0 DEF Phases
  <2> QED BY <1>1, <2>1, AdvanceType
<1> HIDE DEF n
<1>3. \A i \in Reports : i <= m.at =>
        m.records[i] \in CaseRecords /\ n.files[i] \in CaseRecords \cup TornFiles
  BY <1>0, <1>1, <1>2 DEF Filled, Loading, Reports
<1>4. Filled(n)
  BY <1>0, <1>2, <1>3 DEF Filled, Loading, Closing, Reports, Sources
<1> QED BY <1>2, <1>4 DEF n, k

LEMMA HashFills ==
    ASSUME NEW m \in RunStates, Filled(m), m.pc = "hash", NEW v \in Versions
    PROVE  LET n == Advance([m EXCEPT !.hashed[m.at] = v], NSources, "hash", "rootOpen")
           IN  n \in RunStates /\ Filled(n)
<1> DEFINE k == [m EXCEPT !.hashed[m.at] = v]
           n == Advance(k, NSources, "hash", "rootOpen")
<1>0. /\ m.at \in 1..NSources /\ NSources \in Nat \ {0}
      /\ m.hashed \in [Sources -> Versions \cup {NotBuilt}]
  BY TreeAssumption DEF Filled, Sources, RunStates
<1>1. /\ k \in RunStates /\ k.at = m.at /\ k.records = m.records /\ k.files = m.files
      /\ k.hashed = [m.hashed EXCEPT ![m.at] = v]
  BY <1>0 DEF RunStates, Sources
<1> HIDE DEF k
<1>2. /\ n \in RunStates
      /\ m.at < NSources => n.pc = "hash" /\ n.at = m.at + 1
      /\ ~ (m.at < NSources) => n.pc = "rootOpen" /\ n.at = 1
      /\ n.records = m.records /\ n.files = m.files /\ n.hashed = k.hashed
  <2>1. "hash" \in Phases /\ "rootOpen" \in Phases /\ NSources \in Nat
    BY <1>0 DEF Phases
  <2> QED BY <1>1, <2>1, AdvanceType
<1> HIDE DEF n
<1>3. \A s \in Sources : s <= m.at => n.hashed[s] \in Versions
  BY <1>0, <1>1, <1>2 DEF Filled, Sources
<1>4. Filled(n)
  BY <1>0, <1>2, <1>3 DEF Filled, Loading, Closing, Sources
<1> QED BY <1>2, <1>4 DEF n, k

\* The end of a run: the three root files and the digests bound in the last.
LEMMA RootWriteFills ==
    ASSUME NEW m \in RunStates, Filled(m), m.pc = "rootWrite"
    PROVE  LET n == AfterRootWrite(m)
           IN  n \in RunStates /\ Filled(n)
<1> DEFINE n == AfterRootWrite(m)
<1>0. m.at \in 1..3
  BY DEF Filled
<1>1. CASE m.at = 1
  <2>1. n = Jump(m, "rootOpen", 2)
    BY <1>1 DEF AfterRootWrite
  <2>2. "rootOpen" \in Phases
    BY DEF Phases
  <2>3. /\ n \in RunStates /\ n.pc = "rootOpen" /\ n.at = 2
        /\ n.records = m.records /\ n.files = m.files /\ n.hashed = m.hashed
    BY <2>1, <2>2, JumpType
  <2> HIDE DEF n
  <2>4. /\ \A i \in Reports : /\ m.records[i] \in CaseRecords
                              /\ m.files[i] \in CaseRecords \cup TornFiles
        /\ \A s \in Sources : m.hashed[s] \in Versions
    BY DEF Filled, Closing
  <2>5. Filled(n)
    BY <2>3, <2>4 DEF Filled, Loading, Closing
  <2> QED BY <2>3, <2>5 DEF n
<1>2. CASE m.at = 2
  BY <1>2 DEF AfterRootWrite, Jump, RunStates, Phases, Filled, Loading, Closing
<1>3. CASE m.at = 3
  <2>1. n = Jump(m, "done", 3)
    BY <1>3 DEF AfterRootWrite
  <2>2. "done" \in Phases
    BY DEF Phases
  <2>3. /\ n \in RunStates /\ n.pc = "done" /\ n.at = 3
        /\ n.records = m.records /\ n.files = m.files /\ n.hashed = m.hashed
        /\ n.aggregateFile = m.aggregateFile /\ n.toolFile = m.toolFile
    BY <2>1, <2>2, JumpType
  <2> HIDE DEF n
  <2>4. /\ \A i \in Reports : /\ m.records[i] \in CaseRecords
                              /\ m.files[i] \in CaseRecords \cup TornFiles
        /\ \A s \in Sources : m.hashed[s] \in Versions
        /\ m.aggregateFile \in AggregateRecords \cup TornFiles
        /\ m.toolFile \in ToolRecords \cup TornFiles
    BY <1>3 DEF Filled, Closing
  <2>5. Filled(n)
    BY <2>3, <2>4 DEF Filled, Loading, Closing
  <2> QED BY <2>3, <2>5 DEF n
<1> QED BY <1>0, <1>1, <1>2, <1>3

LEMMA BindAggregateFills ==
    ASSUME NEW m \in RunStates, Filled(m), m.pc = "bindAggregate",
           NEW c \in AggregateRecords \cup TornFiles
    PROVE  LET n == [m EXCEPT !.pc = "bindTool", !.aggregateFile = c]
           IN  n \in RunStates /\ Filled(n)
BY DEF RunStates, Phases, Filled, Loading, Closing

LEMMA BindToolFills ==
    ASSUME NEW m \in RunStates, Filled(m), m.pc = "bindTool",
           NEW c \in ToolRecords \cup TornFiles
    PROVE  LET n == [m EXCEPT !.pc = "rootOpen", !.toolFile = c]
           IN  n \in RunStates /\ Filled(n)
<1> DEFINE n == [m EXCEPT !.pc = "rootOpen", !.toolFile = c]
<1>1. n \in RunStates
  BY DEF RunStates, Phases
<1>2. /\ n.pc = "rootOpen" /\ n.at = m.at /\ n.toolFile = c
      /\ n.records = m.records /\ n.files = m.files /\ n.hashed = m.hashed
      /\ n.aggregateFile = m.aggregateFile
  BY DEF RunStates
<1> HIDE DEF n
<1>3. Filled(n)
  BY <1>2 DEF Filled, Loading, Closing
<1> QED BY <1>1, <1>3 DEF n

-----------------------------------------------------------------------------
(* The steps of a run keep the invariant. *)

\* What a write may leave in a file is a content that file may have.
LEMMA WrittenType ==
    ASSUME NEW contents, NEW r \in Runs, NEW now \in contents, NEW content \in contents,
           Torn(r) \in contents, Missing \in contents
    PROVE  Written(now, r, content) \in SUBSET contents
BY DEF Written

\* What each of the root files may hold.
LEMMA RootContentsOf ==
    /\ RootContents("tool-source-hashes") = TornFiles \cup {Missing} \cup ToolRecords
    /\ RootContents("genesis-report") = TornFiles \cup {Missing} \cup AggregateRecords
    /\ RootContents("manifest") = TornFiles \cup {Missing} \cup ManifestRecords
<1> DEFINE t == "tool-source-hashes"
           g == "genesis-report"
           m == "manifest"
<1>1. t # g /\ t # m /\ g # m
  OBVIOUS
<1> HIDE DEF t, g, m
<1> QED BY <1>1 DEF RootContents, t, g, m

\* The kind of a content tells a record from a torn file and from no file.
LEMMA KindsDiffer ==
    /\ Missing.kind = "missing" /\ \A c \in TornFiles : c.kind = "torn"
    /\ \A r \in Runs : Torn(r) \in TornFiles
    /\ \A c \in ToolRecords : c.kind = "tool"
    /\ \A c \in AggregateRecords : c.kind = "aggregate"
    /\ \A c \in ManifestRecords : c.kind = "manifest"
    /\ \A c \in CaseRecords : c.kind = "case"
BY DEF Missing, Torn, TornFiles, ManifestRecords, AggregateRecords, ToolRecords,
       CaseRecords, CaseRecord

\* A run that has ended does not move, so the manifest it wrote stays its own.
LEMMA ManifestStays ==
    ASSUME NEW m, NEW r \in Runs, NEW n, run \in [Runs -> RunStates],
           run[r].pc # "done", run' = [run EXCEPT ![r] = n], IsManifestOfRun(m)
    PROVE  LET o == m.aggregate.record.run
           IN  o \in Runs /\ run'[o].pc = "done" /\ m = Manifest(o, run'[o])
BY DEF IsManifestOfRun

\* A step that takes run r to the local state n, and leaves the verification
\* alone, keeps the invariant if it leaves the manifest as it was, or is the
\* last of r and writes its manifest.
LEMMA RunPreserves ==
    ASSUME EvidenceInv, NEW r \in Runs, NEW n \in RunStates, Filled(n),
           run[r].pc # "done", run' = [run EXCEPT ![r] = n],
           TreeTypeOK', owner' \in Runs \cup {NoRun},
           UNCHANGED check, UNCHANGED stood, calm' \in BOOLEAN,
           \/ rootFile'["manifest"] = rootFile["manifest"]
           \/ rootFile'["manifest"] \notin ManifestRecords
           \/ n.pc = "done" /\ rootFile'["manifest"] = Manifest(r, n)
    PROVE  EvidenceInv'
<1>0. run \in [Runs -> RunStates]
  BY DEF EvidenceInv, TypeOK, RunTypeOK
<1>1. TypeOK'
  BY <1>0 DEF EvidenceInv, TypeOK, RunTypeOK, CheckTypeOK
<1>2. MemoryFills'
  BY <1>0 DEF EvidenceInv, MemoryFills
<1>3. rootFile'["manifest"] \in ManifestRecords => IsManifestOfRun(rootFile["manifest"])'
  <2> SUFFICES ASSUME rootFile'["manifest"] \in ManifestRecords
               PROVE  IsManifestOfRun(rootFile["manifest"])'
    OBVIOUS
  <2>1. CASE rootFile'["manifest"] = rootFile["manifest"]
    <3>1. IsManifestOfRun(rootFile["manifest"])
      BY <2>1 DEF EvidenceInv, ManifestsAreWhole
    <3> QED BY <1>0, <2>1, <3>1, ManifestStays DEF IsManifestOfRun
  <2>2. CASE n.pc = "done" /\ rootFile'["manifest"] = Manifest(r, n)
    <3>1. rootFile'["manifest"].aggregate.record.run = r
      BY <2>2 DEF Manifest, Aggregate
    <3> QED BY <1>0, <2>2, <3>1 DEF IsManifestOfRun
  <2> QED BY <2>1, <2>2
<1>4. Checking(check)' => /\ check'.manifest \in ManifestRecords
                          /\ IsManifestOfRun(check.manifest)'
  <2> SUFFICES ASSUME Checking(check)
               PROVE  check.manifest \in ManifestRecords /\ IsManifestOfRun(check.manifest)'
    OBVIOUS
  <2>1. check.manifest \in ManifestRecords /\ IsManifestOfRun(check.manifest)
    BY DEF EvidenceInv, ManifestsAreWhole
  <2> QED BY <1>0, <2>1, ManifestStays DEF IsManifestOfRun
<1>5. CheckFollowsManifest'
  BY DEF EvidenceInv, CheckFollowsManifest
<1> QED BY <1>1, <1>2, <1>3, <1>4, <1>5 DEF EvidenceInv, ManifestsAreWhole

\* The files beside the reports, in the order they are written.
LEMMA RootOrderType ==
    /\ RootOrder[1] = "tool-source-hashes"
    /\ RootOrder[2] = "genesis-report"
    /\ RootOrder[3] = "manifest"
    /\ \A i \in 1..3 : RootOrder[i] \in RootFiles
BY DEF RootOrder, RootFiles

\* A run writes to each of them what that file may hold.
LEMMA RootRecordType ==
    ASSUME NEW r \in Runs, run[r] \in RunStates, Filled(run[r]), run[r].pc = "rootWrite"
    PROVE  RootRecord(r, RootOrder[run[r].at]) \in RootContents(RootOrder[run[r].at])
<1>0. run[r].at \in 1..3 /\ Closing(run[r])
  BY DEF Filled, Closing
<1>1. Tool(run[r]) \in ToolRecords /\ Aggregate(r, run[r]) \in AggregateRecords
  BY <1>0, RecordsAreWhole
<1>2. CASE run[r].at = 1
  <2>1. RootRecord(r, "tool-source-hashes") = Tool(run[r])
    BY DEF RootRecord
  <2> QED BY <1>1, <1>2, <2>1, RootOrderType, RootContentsOf
<1>3. CASE run[r].at = 2
  <2>1. RootRecord(r, "genesis-report") = Aggregate(r, run[r])
    BY DEF RootRecord
  <2> QED BY <1>1, <1>3, <2>1, RootOrderType, RootContentsOf
<1>4. CASE run[r].at = 3
  <2>1. RootRecord(r, "manifest") = Manifest(r, run[r])
    BY DEF RootRecord
  <2>2. Manifest(r, run[r]) \in ManifestRecords
    BY <1>4, ManifestIsWhole
  <2> QED BY <1>4, <2>1, <2>2, RootOrderType, RootContentsOf
<1> QED BY <1>0, <1>2, <1>3, <1>4

\* The manifest is the last file a run writes, and says what the run keeps.
LEMMA ManifestLast ==
    ASSUME NEW r \in Runs, run[r] \in RunStates, Filled(run[r]),
           run[r].pc = "rootWrite", RootOrder[run[r].at] = "manifest"
    PROVE  LET n == AfterRootWrite(run[r])
           IN  n.pc = "done" /\ Manifest(r, n) = RootRecord(r, "manifest")
<1> DEFINE m == run[r]
           n == Jump(m, "done", 3)
<1>1. m.at = 3
  BY RootOrderType DEF Filled
<1>2. AfterRootWrite(m) = n
  BY <1>1 DEF AfterRootWrite
<1>3. /\ n.pc = "done" /\ n.records = m.records /\ n.files = m.files
      /\ n.hashed = m.hashed /\ n.aggregateFile = m.aggregateFile
      /\ n.toolFile = m.toolFile
  <2>1. "done" \in Phases
    BY DEF Phases
  <2> QED BY <2>1, JumpType
<1>4. RootRecord(r, "manifest") = Manifest(r, m)
  BY DEF RootRecord
<1> HIDE DEF n, m
<1>5. Manifest(r, n) = Manifest(r, m)
  BY <1>3 DEF Manifest, Aggregate, Summary, Tool
<1> QED BY <1>2, <1>3, <1>4, <1>5 DEF m

\* Every step of a run is one of the moves above.
LEMMA RunStepPreserves ==
    ASSUME EvidenceInv, NEW r \in Runs, RunStep(r), UNCHANGED check, UNCHANGED stood, calm' = FALSE
    PROVE  EvidenceInv'
<1> DEFINE m == run[r]
<1>0. /\ run \in [Runs -> RunStates] /\ m \in RunStates /\ Filled(m)
      /\ owner \in Runs \cup {NoRun} /\ TreeTypeOK
      /\ calm' \in BOOLEAN
  BY DEF EvidenceInv, TypeOK, RunTypeOK, MemoryFills
<1>1. ASSUME Start(r) PROVE EvidenceInv'
  <2> DEFINE n == [m EXCEPT !.pc = "clean"]
  <2>1. m.pc = "idle" /\ run' = [run EXCEPT ![r] = n]
    BY <1>0, <1>1 DEF Start
  <2>2. n \in RunStates /\ Filled(n)
    BY <1>0, <2>1, OpenFills DEF Phases
  <2>3. UNCHANGED <<source, binary, reportFile, rootFile, owner>>
    BY <1>1 DEF Start, treeVars
  <2>4. TreeTypeOK' /\ owner' \in Runs \cup {NoRun}
    BY <1>0, <2>3 DEF TreeTypeOK
  <2> HIDE DEF n
  <2> QED BY <1>0, <2>1, <2>2, <2>3, <2>4, RunPreserves
<1>2. ASSUME RemoveFile(r) PROVE EvidenceInv'
  <2>1. m.pc = "clean" /\ run' = [run EXCEPT ![r] = m]
    BY <1>0, <1>2 DEF RemoveFile
  <2>2. CASE UNCHANGED rootFile
    <3>1. TreeTypeOK' /\ owner' \in Runs \cup {NoRun}
      BY <1>0, <1>2, <2>2 DEF RemoveFile, TreeTypeOK
    <3> HIDE DEF m
    <3> QED BY <1>0, <2>1, <2>2, <3>1, RunPreserves DEF m
  <2>3. CASE /\ \E f \in RootFiles : rootFile' = [rootFile EXCEPT ![f] = Missing]
             /\ UNCHANGED reportFile
    <3>1. PICK f \in RootFiles : rootFile' = [rootFile EXCEPT ![f] = Missing]
      BY <2>3
    <3>2. \A g \in RootFiles : Missing \in RootContents(g)
      BY RootContentsOf DEF RootFiles
    <3>3. UNCHANGED <<source, binary, reportFile>> /\ owner' = r
      BY <1>2, <2>3 DEF RemoveFile
    <3>4. TreeTypeOK'
      BY <1>0, <3>1, <3>2, <3>3 DEF TreeTypeOK
    <3>5. \/ rootFile'["manifest"] = rootFile["manifest"]
          \/ rootFile'["manifest"] \notin ManifestRecords
      BY <1>0, <3>1, KindsDiffer DEF TreeTypeOK
    <3> HIDE DEF m
    <3> QED BY <1>0, <2>1, <3>3, <3>4, <3>5, RunPreserves DEF m
  <2> QED BY <1>2, <2>2, <2>3 DEF RemoveFile
<1>3. ASSUME Prepare(r) PROVE EvidenceInv'
  <2> DEFINE n == [m EXCEPT !.pc = "compile"]
  <2>1. m.pc = "clean" /\ run' = [run EXCEPT ![r] = n]
    BY <1>0, <1>3 DEF Prepare
  <2>2. n \in RunStates /\ Filled(n)
    BY <1>0, <2>1, OpenFills DEF Phases
  <2>3. TreeTypeOK' /\ owner' \in Runs \cup {NoRun}
    BY <1>0, <1>3 DEF Prepare, TreeTypeOK
  <2>4. rootFile' = rootFile
    BY <1>3 DEF Prepare
  <2> HIDE DEF n
  <2> QED BY <1>0, <2>1, <2>2, <2>3, <2>4, RunPreserves
<1>4. ASSUME Compile(r) PROVE EvidenceInv'
  <2> DEFINE n == Advance(m, NSources, "compile", "execute")
  <2>1. m.pc = "compile" /\ run' = [run EXCEPT ![r] = n]
    BY <1>0, <1>4 DEF Compile
  <2>2. n \in RunStates /\ Filled(n)
    BY <1>0, <2>1, CompileFills
  <2>3. m.at \in Sources
    BY <1>0, <2>1 DEF Filled
  <2>4. TreeTypeOK' /\ owner' \in Runs \cup {NoRun}
    BY <1>0, <1>4, <2>3 DEF Compile, TreeTypeOK
  <2>5. rootFile' = rootFile
    BY <1>4 DEF Compile
  <2> HIDE DEF n
  <2> QED BY <1>0, <2>1, <2>2, <2>4, <2>5, RunPreserves
<1>5. ASSUME Execute(r) PROVE EvidenceInv'
  <2> DEFINE c == CaseRecord(m.at, binary[Backend[m.at]])
             n == [m EXCEPT !.pc = "open", !.records[m.at] = c]
  <2>1. m.pc = "execute" /\ run' = [run EXCEPT ![r] = n]
    BY <1>0, <1>5 DEF Execute
  <2>2. m.at \in Reports
    BY <1>0, <2>1 DEF Filled, Loading
  <2>3. binary[Backend[m.at]] \in Versions
    BY <1>0, <1>5, <2>2, TreeAssumption DEF Execute, TreeTypeOK
  <2>4. c \in CaseRecords
    BY <2>2, <2>3 DEF CaseRecords
  <2> HIDE DEF c
  <2>5. n \in RunStates /\ Filled(n)
    BY <1>0, <2>1, <2>4, ExecuteFills
  <2>6. UNCHANGED <<source, binary, reportFile, rootFile, owner>>
    BY <1>5 DEF Execute, treeVars
  <2>7. TreeTypeOK' /\ owner' \in Runs \cup {NoRun}
    BY <1>0, <2>6 DEF TreeTypeOK
  <2> HIDE DEF n
  <2> QED BY <1>0, <2>1, <2>5, <2>6, <2>7, RunPreserves
<1>6. ASSUME OpenReport(r) PROVE EvidenceInv'
  <2> DEFINE n == [m EXCEPT !.pc = "write"]
  <2>1. m.pc = "open" /\ run' = [run EXCEPT ![r] = n]
    BY <1>0, <1>6 DEF OpenReport
  <2>2. n \in RunStates /\ Filled(n)
    BY <1>0, <2>1, OpenFills DEF Phases
  <2>3. TreeTypeOK' /\ owner' \in Runs \cup {NoRun}
    BY <1>0, <1>6, KindsDiffer DEF OpenReport, TreeTypeOK
  <2>4. rootFile' = rootFile
    BY <1>6 DEF OpenReport
  <2> HIDE DEF n
  <2> QED BY <1>0, <2>1, <2>2, <2>3, <2>4, RunPreserves
<1>7. ASSUME WriteReport(r) PROVE EvidenceInv'
  <2> DEFINE n == [m EXCEPT !.pc = "digest"]
             contents == CaseRecords \cup TornFiles \cup {Missing}
  <2>1. m.pc = "write" /\ run' = [run EXCEPT ![r] = n]
    BY <1>0, <1>7 DEF WriteReport
  <2>2. n \in RunStates /\ Filled(n)
    BY <1>0, <2>1, OpenFills DEF Phases
  <2>3. m.at \in Reports /\ m.records[m.at] \in contents
    BY <1>0, <2>1 DEF Filled, Loading
  <2>4. reportFile[m.at] \in contents
    BY <1>0, <2>3 DEF TreeTypeOK
  <2>5. Written(reportFile[m.at], r, m.records[m.at]) \in SUBSET contents
    <3>1. Torn(r) \in contents /\ Missing \in contents
      BY KindsDiffer
    <3> HIDE DEF m, n, contents
    <3> QED BY <2>3, <2>4, <3>1, WrittenType
  <2>6. PICK c \in contents : reportFile' = [reportFile EXCEPT ![m.at] = c]
    BY <1>7, <2>5 DEF WriteReport
  <2>7. TreeTypeOK' /\ owner' \in Runs \cup {NoRun}
    BY <1>0, <1>7, <2>6 DEF WriteReport, TreeTypeOK
  <2>8. rootFile' = rootFile
    BY <1>7 DEF WriteReport
  <2> HIDE DEF n
  <2> QED BY <1>0, <2>1, <2>2, <2>7, <2>8, RunPreserves
<1>8. ASSUME DigestReport(r) PROVE EvidenceInv'
  <2> DEFINE n == Advance([m EXCEPT !.files[m.at] = reportFile[m.at]],
                          NReports, "execute", "hash")
  <2>1. m.pc = "digest" /\ run' = [run EXCEPT ![r] = n]
    BY <1>0, <1>8 DEF DigestReport
  <2>2. reportFile[m.at] \in CaseRecords \cup TornFiles
    BY <1>0, <1>8, <2>1 DEF DigestReport, TreeTypeOK, Filled, Loading
  <2>3. n \in RunStates /\ Filled(n)
    BY <1>0, <2>1, <2>2, DigestFills
  <2>4. UNCHANGED <<source, binary, reportFile, rootFile, owner>>
    BY <1>8 DEF DigestReport, treeVars
  <2>5. TreeTypeOK' /\ owner' \in Runs \cup {NoRun}
    BY <1>0, <2>4 DEF TreeTypeOK
  <2> HIDE DEF n
  <2> QED BY <1>0, <2>1, <2>3, <2>4, <2>5, RunPreserves
<1>9. ASSUME HashSource(r) PROVE EvidenceInv'
  <2> DEFINE n == Advance([m EXCEPT !.hashed[m.at] = source[m.at]],
                          NSources, "hash", "rootOpen")
  <2>1. m.pc = "hash" /\ run' = [run EXCEPT ![r] = n]
    BY <1>0, <1>9 DEF HashSource
  <2>2. source[m.at] \in Versions
    BY <1>0, <2>1 DEF TreeTypeOK, Filled
  <2>3. n \in RunStates /\ Filled(n)
    BY <1>0, <2>1, <2>2, HashFills
  <2>4. UNCHANGED <<source, binary, reportFile, rootFile, owner>>
    BY <1>9 DEF HashSource, treeVars
  <2>5. TreeTypeOK' /\ owner' \in Runs \cup {NoRun}
    BY <1>0, <2>4 DEF TreeTypeOK
  <2> HIDE DEF n
  <2> QED BY <1>0, <2>1, <2>3, <2>4, <2>5, RunPreserves
<1>10. ASSUME OpenRootFile(r) PROVE EvidenceInv'
  <2> DEFINE n == [m EXCEPT !.pc = "rootWrite"]
             f == RootOrder[m.at]
  <2>1. m.pc = "rootOpen" /\ run' = [run EXCEPT ![r] = n]
    BY <1>0, <1>10 DEF OpenRootFile
  <2>2. n \in RunStates /\ Filled(n)
    BY <1>0, <2>1, OpenFills DEF Phases
  <2>3. f \in RootFiles
    BY <1>0, <2>1, RootOrderType DEF Filled
  <2>4. rootFile' = [rootFile EXCEPT ![f] = Torn(r)]
        /\ UNCHANGED <<source, binary, reportFile, owner>>
    BY <1>10 DEF OpenRootFile
  <2> HIDE DEF f, n, m
  <2>5. \A g \in RootFiles : Torn(r) \in RootContents(g)
    BY RootContentsOf, KindsDiffer DEF RootFiles
  <2>6. TreeTypeOK' /\ owner' \in Runs \cup {NoRun}
    BY <1>0, <2>3, <2>4, <2>5 DEF TreeTypeOK
  <2>7. \/ rootFile'["manifest"] = rootFile["manifest"]
        \/ rootFile'["manifest"] \notin ManifestRecords
    BY <1>0, <2>3, <2>4, KindsDiffer DEF TreeTypeOK
  <2> QED BY <1>0, <2>1, <2>2, <2>4, <2>6, <2>7, RunPreserves DEF m
<1>11. ASSUME WriteRootFile(r) PROVE EvidenceInv'
  <2> DEFINE n == AfterRootWrite(m)
             f == RootOrder[m.at]
  <2>1. m.pc = "rootWrite" /\ run' = [run EXCEPT ![r] = n]
    BY <1>0, <1>11 DEF WriteRootFile
  <2>2. n \in RunStates /\ Filled(n)
    BY <1>0, <2>1, RootWriteFills
  <2>3. m.at \in 1..3 /\ f \in RootFiles
    BY <1>0, <2>1, RootOrderType DEF Filled
  <2>4. RootRecord(r, f) \in RootContents(f)
    BY <1>0, <2>1, <2>3, RootRecordType
  <2>5. PICK c \in Written(rootFile[f], r, RootRecord(r, f)) :
              rootFile' = [rootFile EXCEPT ![f] = c]
    BY <1>11 DEF WriteRootFile
  <2>6. UNCHANGED <<source, binary, reportFile, owner>>
    BY <1>11 DEF WriteRootFile
  <2>7. c \in RootContents(f)
    <3>1. Torn(r) \in RootContents(f) /\ Missing \in RootContents(f)
      BY <2>3, RootContentsOf, KindsDiffer DEF RootFiles
    <3>2. rootFile[f] \in RootContents(f)
      BY <1>0, <2>3 DEF TreeTypeOK
    <3> HIDE DEF f, n, m
    <3> QED BY <2>4, <2>5, <3>1, <3>2, WrittenType
  <2>8. TreeTypeOK' /\ owner' \in Runs \cup {NoRun}
    <3> HIDE DEF f, n, m
    <3> QED BY <1>0, <2>3, <2>5, <2>6, <2>7 DEF TreeTypeOK
  <2>9. \/ rootFile'["manifest"] = rootFile["manifest"]
        \/ rootFile'["manifest"] \notin ManifestRecords
        \/ n.pc = "done" /\ rootFile'["manifest"] = Manifest(r, n)
    <3>1. CASE f # "manifest"
      <4> HIDE DEF f, n, m
      <4> QED BY <1>0, <2>3, <2>5, <3>1 DEF TreeTypeOK
    <3>2. CASE f = "manifest"
      <4>1. n.pc = "done" /\ Manifest(r, n) = RootRecord(r, f)
        BY <1>0, <2>1, <2>3, <3>2, ManifestLast
      <4> HIDE DEF f, n, m
      <4>2. rootFile'["manifest"] = c
        BY <1>0, <2>3, <2>5, <3>2 DEF TreeTypeOK
      <4>3. c \in {RootRecord(r, f), rootFile["manifest"], Torn(r), Missing}
        BY <2>5, <3>2 DEF Written
      <4> QED BY <4>1, <4>2, <4>3, KindsDiffer
    <3> QED BY <3>1, <3>2
  <2> HIDE DEF f, n, m
  <2> QED BY <1>0, <2>1, <2>2, <2>6, <2>8, <2>9, RunPreserves DEF m
<1>12. ASSUME BindAggregate(r) PROVE EvidenceInv'
  <2> DEFINE c == rootFile["genesis-report"]
             n == [m EXCEPT !.pc = "bindTool", !.aggregateFile = c]
  <2>1. m.pc = "bindAggregate" /\ run' = [run EXCEPT ![r] = n]
    BY <1>0, <1>12 DEF BindAggregate
  <2>2. c \in AggregateRecords \cup TornFiles
    BY <1>0, <1>12, RootContentsOf DEF BindAggregate, TreeTypeOK, RootFiles
  <2> HIDE DEF c
  <2>3. n \in RunStates /\ Filled(n)
    BY <1>0, <2>1, <2>2, BindAggregateFills
  <2>4. UNCHANGED <<source, binary, reportFile, rootFile, owner>>
    BY <1>12 DEF BindAggregate, treeVars
  <2>5. TreeTypeOK' /\ owner' \in Runs \cup {NoRun}
    BY <1>0, <2>4 DEF TreeTypeOK
  <2> HIDE DEF n
  <2> QED BY <1>0, <2>1, <2>3, <2>4, <2>5, RunPreserves
<1>13. ASSUME BindTool(r) PROVE EvidenceInv'
  <2> DEFINE c == rootFile["tool-source-hashes"]
             n == [m EXCEPT !.pc = "rootOpen", !.toolFile = c]
  <2>1. m.pc = "bindTool" /\ run' = [run EXCEPT ![r] = n]
    BY <1>0, <1>13 DEF BindTool
  <2>2. c \in ToolRecords \cup TornFiles
    BY <1>0, <1>13, RootContentsOf DEF BindTool, TreeTypeOK, RootFiles
  <2> HIDE DEF c
  <2>3. n \in RunStates /\ Filled(n)
    BY <1>0, <2>1, <2>2, BindToolFills
  <2>4. UNCHANGED <<source, binary, reportFile, rootFile, owner>>
    BY <1>13 DEF BindTool, treeVars
  <2>5. TreeTypeOK' /\ owner' \in Runs \cup {NoRun}
    BY <1>0, <2>4 DEF TreeTypeOK
  <2> HIDE DEF n
  <2> QED BY <1>0, <2>1, <2>3, <2>4, <2>5, RunPreserves
<1>14. ASSUME Throw(r) \/ Kill(r) PROVE EvidenceInv'
  <2>1. /\ m.pc # "done" /\ run' = [run EXCEPT ![r] = Blank("dead")]
        /\ UNCHANGED <<source, binary, reportFile, rootFile, owner>>
    BY <1>0, <1>14 DEF Throw, Kill, Die, Active, Ended, treeVars
  <2>2. TreeTypeOK' /\ owner' \in Runs \cup {NoRun}
    BY <1>0, <2>1 DEF TreeTypeOK
  <2> QED BY <1>0, <2>1, <2>2, BlankIsFilled, RunPreserves
<1> QED BY <1>1, <1>2, <1>3, <1>4, <1>5, <1>6, <1>7, <1>8, <1>9, <1>10, <1>11,
           <1>12, <1>13, <1>14 DEF RunStep, Work

-----------------------------------------------------------------------------
(* The steps of the verification keep the invariant. *)

\* A refusal holds nothing.
LEMMA RefusedType ==
    LET c == Empty("fail") IN c \in CheckStates /\ Follows(c) /\ ~ Checking(c)
BY DEF Empty, CheckStates, CheckPhases, Follows, Checking, CaseChecked

\* To the next index of a loop or to the phase after it, with all that was read.
LEMMA ProceedType ==
    ASSUME NEW c \in CheckStates, NEW k \in Nat,
           NEW p \in CheckPhases, NEW q \in CheckPhases
    PROVE  LET d == Proceed(c, k, p, q)
           IN  /\ d \in CheckStates
               /\ c.at < k => d.pc = p /\ d.at = c.at + 1
               /\ ~ (c.at < k) => d.pc = q /\ d.at = 1
               /\ d.manifest = c.manifest /\ d.cases = c.cases
               /\ d.aggregate = c.aggregate /\ d.tool = c.tool
<1>1. CASE c.at < k
  <2> DEFINE next == c.at + 1
             d == [c EXCEPT !.pc = p, !.at = next]
  <2>1. next \in Nat
    BY DEF CheckStates
  <2>2. Proceed(c, k, p, q) = d
    BY <1>1 DEF Proceed, CheckStates
  <2> HIDE DEF next
  <2>3. /\ d \in CheckStates /\ d.pc = p /\ d.at = next
        /\ d.manifest = c.manifest /\ d.cases = c.cases
        /\ d.aggregate = c.aggregate /\ d.tool = c.tool
    BY <2>1 DEF CheckStates
  <2> QED BY <1>1, <2>2, <2>3 DEF next
<1>2. CASE ~ (c.at < k)
  BY <1>2 DEF Proceed, CheckStates
<1> QED BY <1>1, <1>2

\* A report accepted is the next the manifest names.
LEMMA CaseFollows ==
    ASSUME NEW c \in CheckStates, Follows(c), c.pc = "caseRecord",
           NEW content \in CaseRecords, content = c.manifest.cases[c.at].record,
           content.id = c.at, content.passed
    PROVE  LET d == Proceed([c EXCEPT !.cases[c.at] = content],
                            NReports, "caseFile", "aggregateFile")
           IN  d \in CheckStates /\ Follows(d) /\ Checking(d) /\ d.manifest = c.manifest
<1> DEFINE e == [c EXCEPT !.cases[c.at] = content]
           d == Proceed(e, NReports, "caseFile", "aggregateFile")
<1>0. /\ c.at \in 1..NReports /\ NReports \in Nat \ {0} /\ NSources \in Nat \ {0}
      /\ c.cases \in [Reports -> CaseRecords \cup {NothingRead}]
  BY TreeAssumption DEF Follows, Reports, CheckStates
<1>1. /\ e \in CheckStates /\ e.at = c.at /\ e.manifest = c.manifest
      /\ e.cases = [c.cases EXCEPT ![c.at] = content]
  BY <1>0 DEF CheckStates, Reports
<1> HIDE DEF e
<1>2. /\ d \in CheckStates
      /\ c.at < NReports => d.pc = "caseFile" /\ d.at = c.at + 1
      /\ ~ (c.at < NReports) => d.pc = "aggregateFile" /\ d.at = 1
      /\ d.manifest = c.manifest /\ d.cases = e.cases
  <2>1. "caseFile" \in CheckPhases /\ "aggregateFile" \in CheckPhases /\ NReports \in Nat
    BY <1>0 DEF CheckPhases
  <2> QED BY <1>1, <2>1, ProceedType
<1> HIDE DEF d
<1>3. \A i \in Reports : i <= c.at =>
        /\ d.cases[i] = d.manifest.cases[i].record
        /\ d.cases[i] \in CaseRecords /\ d.cases[i].id = i /\ d.cases[i].passed
  BY <1>0, <1>1, <1>2 DEF Follows, CaseChecked, Checking, Reports
<1>4. Follows(d) /\ Checking(d)
  BY <1>0, <1>2, <1>3 DEF Follows, CaseChecked, Checking, Reports, Sources
<1> QED BY <1>2, <1>4 DEF d, e

\* A source accepted is the next the tool record names.
LEMMA SourceFollows ==
    ASSUME NEW c \in CheckStates, Follows(c), c.pc = "source"
    PROVE  LET d == Proceed(c, NSources, "source", "pass")
           IN  d \in CheckStates /\ Follows(d) /\ Checking(d) /\ d.manifest = c.manifest
<1> DEFINE d == Proceed(c, NSources, "source", "pass")
<1>0. c.at \in 1..NSources /\ NSources \in Nat \ {0}
  BY TreeAssumption DEF Follows, Sources
<1>1. /\ d \in CheckStates
      /\ c.at < NSources => d.pc = "source" /\ d.at = c.at + 1
      /\ ~ (c.at < NSources) => d.pc = "pass" /\ d.at = 1
      /\ d.manifest = c.manifest /\ d.cases = c.cases
      /\ d.aggregate = c.aggregate /\ d.tool = c.tool
  <2>1. "source" \in CheckPhases /\ "pass" \in CheckPhases /\ NSources \in Nat
    BY <1>0 DEF CheckPhases
  <2> QED BY <2>1, ProceedType
<1> HIDE DEF d
<1>2. Follows(d) /\ Checking(d)
  BY <1>0, <1>1 DEF Follows, CaseChecked, Checking, Sources
<1> QED BY <1>1, <1>2 DEF d

\* The phases that only change what is held of one file, or nothing.
LEMMA PhaseFollows ==
    ASSUME NEW c \in CheckStates, Follows(c), NEW d \in CheckStates,
           d.at = c.at, d.manifest = c.manifest, d.cases = c.cases,
           \/ /\ <<c.pc, d.pc>> \in {<<"directories", "caseFile">>,
                                     <<"caseFile", "caseRecord">>,
                                     <<"aggregateFile", "aggregateRecord">>}
           \/ /\ <<c.pc, d.pc>> = <<"aggregateRecord", "toolFile">>
              /\ d.aggregate = c.manifest.aggregate.record
           \/ /\ <<c.pc, d.pc>> = <<"toolFile", "toolRecord">>
              /\ d.aggregate = c.aggregate
           \/ /\ <<c.pc, d.pc>> = <<"toolRecord", "source">>
              /\ d.aggregate = c.aggregate
              /\ d.tool = c.manifest.tool.record
    PROVE  Follows(d) /\ Checking(d)
<1>0. NReports \in Nat \ {0} /\ NSources \in Nat \ {0}
  BY TreeAssumption
<1> QED BY <1>0 DEF Follows, CaseChecked, Checking, Reports, Sources

\* A step that takes the verification to the local state c and leaves all
\* else alone keeps the invariant, if what c holds follows a whole manifest.
LEMMA CheckPreserves ==
    ASSUME EvidenceInv, UNCHANGED <<treeVars, runVars>>,
           calm' \in BOOLEAN, stood' \in Runs \cup {NoRun},
           NEW c \in CheckStates, Follows(c), check' = c,
           Checking(c) => c.manifest \in ManifestRecords /\ IsManifestOfRun(c.manifest)
    PROVE  EvidenceInv'
<1>1. UNCHANGED <<source, binary, reportFile, rootFile, run, owner>>
  BY DEF treeVars, runVars
<1>2. TypeOK'
  BY <1>1 DEF EvidenceInv, TypeOK, TreeTypeOK, RunTypeOK, CheckTypeOK
<1>3. MemoryFills'
  BY <1>1 DEF EvidenceInv, MemoryFills
<1>4. ManifestsAreWhole'
  BY <1>1 DEF EvidenceInv, ManifestsAreWhole, IsManifestOfRun
<1>5. CheckFollowsManifest'
  BY DEF CheckFollowsManifest
<1> QED BY <1>2, <1>3, <1>4, <1>5 DEF EvidenceInv

\* What was read so far, and goes on to be held.
LEMMA CheckGoesOn ==
    ASSUME EvidenceInv, Checking(check), UNCHANGED <<treeVars, runVars>>,
           calm' \in BOOLEAN, stood' \in Runs \cup {NoRun},
           NEW ok, NEW d, Require(ok, d),
           ok => /\ d \in CheckStates /\ Follows(d)
                 /\ d.manifest = check.manifest
    PROVE  EvidenceInv'
<1>1. check.manifest \in ManifestRecords /\ IsManifestOfRun(check.manifest)
  BY DEF EvidenceInv, ManifestsAreWhole
<1>2. CASE ok
  <2>1. check' = d
    BY <1>2 DEF Require
  <2>2. /\ d \in CheckStates /\ Follows(d) /\ d.manifest \in ManifestRecords
        /\ IsManifestOfRun(d.manifest)
    BY <1>1, <1>2
  <2> QED BY <2>1, <2>2, CheckPreserves
<1>3. CASE ~ ok
  BY <1>3, RefusedType, CheckPreserves DEF Require
<1> QED BY <1>2, <1>3

\* Every step of the verification is one of the moves above.
LEMMA CheckStepPreserves ==
    ASSUME EvidenceInv, CheckStep, UNCHANGED runVars,
           calm' \in BOOLEAN, stood' \in Runs \cup {NoRun}
    PROVE  EvidenceInv'
<1>0. /\ check \in CheckStates /\ Follows(check) /\ TreeTypeOK
      /\ UNCHANGED <<treeVars, runVars>>
      /\ Checking(check) => check.manifest \in ManifestRecords
  BY DEF EvidenceInv, TypeOK, CheckTypeOK, CheckFollowsManifest, ManifestsAreWhole, CheckStep
<1>1. ASSUME ReadManifest PROVE EvidenceInv'
  <2> DEFINE content == rootFile["manifest"]
             d == [check EXCEPT !.pc = "directories", !.manifest = content]
  <2>1. check.pc = "idle" /\ Require(content.kind = "manifest", d)
    BY <1>1 DEF ReadManifest
  <2>2. CASE content.kind = "manifest"
    <3>1. content \in ManifestRecords
      BY <1>0, <2>2, RootContentsOf, KindsDiffer DEF TreeTypeOK, RootFiles
    <3>2. d \in CheckStates /\ d.manifest = content /\ d.at = 1 /\ d.pc = "directories"
      BY <1>0, <2>1, <3>1 DEF CheckStates, CheckPhases, Follows
    <3>3. IsManifestOfRun(d.manifest)
      BY <3>1, <3>2 DEF EvidenceInv, ManifestsAreWhole
    <3>4. check' = d
      BY <2>1, <2>2 DEF Require
    <3> HIDE DEF d
    <3>5. Follows(d)
      BY <3>2 DEF Follows, CaseChecked
    <3> QED BY <1>0, <3>1, <3>2, <3>3, <3>4, <3>5, CheckPreserves
  <2>3. CASE content.kind # "manifest"
    BY <1>0, <2>1, <2>3, RefusedType, CheckPreserves DEF Require
  <2> QED BY <2>2, <2>3
<1>2. ASSUME ListDirectories PROVE EvidenceInv'
  <2> DEFINE d == [check EXCEPT !.pc = "caseFile"]
  <2>1. /\ check.pc = "directories" /\ Checking(check) /\ \E ok : Require(ok, d)
    BY <1>2 DEF ListDirectories, Checking
  <2>2. /\ d \in CheckStates /\ d.pc = "caseFile" /\ d.at = check.at
        /\ d.manifest = check.manifest /\ d.cases = check.cases
    BY <1>0 DEF CheckStates, CheckPhases
  <2> HIDE DEF d
  <2>3. Follows(d)
    BY <1>0, <2>1, <2>2, PhaseFollows
  <2> QED BY <1>0, <2>1, <2>2, <2>3, CheckGoesOn
<1>3. ASSUME CheckCaseFile PROVE EvidenceInv'
  <2> DEFINE d == [check EXCEPT !.pc = "caseRecord"]
  <2>1. /\ check.pc = "caseFile" /\ Checking(check) /\ \E ok : Require(ok, d)
    BY <1>3 DEF CheckCaseFile, Checking
  <2>2. /\ d \in CheckStates /\ d.pc = "caseRecord" /\ d.at = check.at
        /\ d.manifest = check.manifest /\ d.cases = check.cases
    BY <1>0 DEF CheckStates, CheckPhases
  <2> HIDE DEF d
  <2>3. Follows(d)
    BY <1>0, <2>1, <2>2, PhaseFollows
  <2> QED BY <1>0, <2>1, <2>2, <2>3, CheckGoesOn
<1>4. ASSUME CheckCaseRecord PROVE EvidenceInv'
  <2> DEFINE i == check.at
             content == reportFile[i]
             ok == /\ content.kind = "case"
                   /\ content = check.manifest.cases[i].record
                   /\ content.id = i
                   /\ Matches(content.observed)
                   /\ content.passed
             d == Proceed([check EXCEPT !.cases[i] = content],
                          NReports, "caseFile", "aggregateFile")
  <2>1. check.pc = "caseRecord" /\ Checking(check) /\ Require(ok, d)
    BY <1>4 DEF CheckCaseRecord, Checking
  <2>2. ASSUME ok PROVE d \in CheckStates /\ Follows(d) /\ d.manifest = check.manifest
    <3>1. i \in Reports
      BY <1>0, <2>1 DEF Follows
    <3>2. content \in CaseRecords
      BY <1>0, <2>2, <3>1, KindsDiffer DEF TreeTypeOK
    <3> HIDE DEF content
    <3> QED BY <1>0, <2>1, <2>2, <3>2, CaseFollows
  <2> HIDE DEF ok, d
  <2> QED BY <1>0, <2>1, <2>2, CheckGoesOn
<1>5. ASSUME CheckAggregateFile PROVE EvidenceInv'
  <2> DEFINE d == [check EXCEPT !.pc = "aggregateRecord"]
  <2>1. /\ check.pc = "aggregateFile" /\ Checking(check) /\ \E ok : Require(ok, d)
    BY <1>5 DEF CheckAggregateFile, Checking
  <2>2. /\ d \in CheckStates /\ d.pc = "aggregateRecord" /\ d.at = check.at
        /\ d.manifest = check.manifest /\ d.cases = check.cases
    BY <1>0 DEF CheckStates, CheckPhases
  <2> HIDE DEF d
  <2>3. Follows(d)
    BY <1>0, <2>1, <2>2, PhaseFollows
  <2> QED BY <1>0, <2>1, <2>2, <2>3, CheckGoesOn
<1>6. ASSUME CheckAggregateRecord PROVE EvidenceInv'
  <2> DEFINE content == rootFile["genesis-report"]
             ok == /\ content.kind = "aggregate"
                   /\ content = check.manifest.aggregate.record
                   /\ content.status = "pass"
                   /\ content.cases = [i \in Reports |->
                        [record |-> check.cases[i], file |-> check.manifest.cases[i].file]]
             d == [check EXCEPT !.pc = "toolFile", !.aggregate = content]
  <2>1. check.pc = "aggregateRecord" /\ Checking(check) /\ Require(ok, d)
    BY <1>6 DEF CheckAggregateRecord, Checking
  <2>2. ASSUME ok PROVE d \in CheckStates /\ Follows(d) /\ d.manifest = check.manifest
    <3>1. content \in AggregateRecords
      BY <1>0, <2>2, RootContentsOf, KindsDiffer DEF TreeTypeOK, RootFiles
    <3>2. content = check.manifest.aggregate.record
      BY <2>2
    <3> HIDE DEF content, ok
    <3>3. /\ d \in CheckStates /\ d.pc = "toolFile" /\ d.at = check.at
          /\ d.manifest = check.manifest /\ d.cases = check.cases /\ d.aggregate = content
      BY <1>0, <3>1 DEF CheckStates, CheckPhases
    <3> HIDE DEF d
    <3> QED BY <1>0, <2>1, <3>2, <3>3, PhaseFollows
  <2> HIDE DEF ok, d
  <2> QED BY <1>0, <2>1, <2>2, CheckGoesOn
<1>7. ASSUME CheckToolFile PROVE EvidenceInv'
  <2> DEFINE d == [check EXCEPT !.pc = "toolRecord"]
  <2>1. /\ check.pc = "toolFile" /\ Checking(check) /\ \E ok : Require(ok, d)
    BY <1>7 DEF CheckToolFile, Checking
  <2>2. /\ d \in CheckStates /\ d.pc = "toolRecord" /\ d.at = check.at
        /\ d.manifest = check.manifest /\ d.cases = check.cases
        /\ d.aggregate = check.aggregate
    BY <1>0 DEF CheckStates, CheckPhases
  <2> HIDE DEF d
  <2>3. Follows(d)
    BY <1>0, <2>1, <2>2, PhaseFollows
  <2> QED BY <1>0, <2>1, <2>2, <2>3, CheckGoesOn
<1>8. ASSUME CheckToolRecord PROVE EvidenceInv'
  <2> DEFINE content == rootFile["tool-source-hashes"]
             ok == /\ content.kind = "tool"
                   /\ content = check.manifest.tool.record
                   /\ check.aggregate.tool = content
             d == [check EXCEPT !.pc = "source", !.tool = content]
  <2>1. check.pc = "toolRecord" /\ Checking(check) /\ Require(ok, d)
    BY <1>8 DEF CheckToolRecord, Checking
  <2>2. ASSUME ok PROVE d \in CheckStates /\ Follows(d) /\ d.manifest = check.manifest
    <3>1. content \in ToolRecords
      BY <1>0, <2>2, RootContentsOf, KindsDiffer DEF TreeTypeOK, RootFiles
    <3>2. content = check.manifest.tool.record
      BY <2>2
    <3> HIDE DEF content, ok
    <3>3. /\ d \in CheckStates /\ d.pc = "source" /\ d.at = check.at
          /\ d.manifest = check.manifest /\ d.cases = check.cases
          /\ d.aggregate = check.aggregate /\ d.tool = content
      BY <1>0, <3>1 DEF CheckStates, CheckPhases
    <3> HIDE DEF d
    <3> QED BY <1>0, <2>1, <3>2, <3>3, PhaseFollows
  <2> HIDE DEF ok, d
  <2> QED BY <1>0, <2>1, <2>2, CheckGoesOn
<1>9. ASSUME CheckSource PROVE EvidenceInv'
  <2> DEFINE d == Proceed(check, NSources, "source", "pass")
  <2>1. check.pc = "source" /\ Checking(check) /\ \E ok : Require(ok, d)
    BY <1>9 DEF CheckSource, Checking
  <2>2. d \in CheckStates /\ Follows(d) /\ d.manifest = check.manifest
    BY <1>0, <2>1, SourceFollows
  <2> HIDE DEF d
  <2> QED BY <1>0, <2>1, <2>2, CheckGoesOn
<1> QED BY <1>1, <1>2, <1>3, <1>4, <1>5, <1>6, <1>7, <1>8, <1>9 DEF CheckStep, Verify

-----------------------------------------------------------------------------
(* The theorems. *)

\* A checkout with no evidence satisfies the invariant.
LEMMA InitInv == Init => EvidenceInv
<1> SUFFICES ASSUME Init PROVE EvidenceInv
  OBVIOUS
<1>1. 1 \in Versions
  BY TreeAssumption DEF Versions
<1>2. TreeTypeOK
  <2>1. \A f \in RootFiles : Missing \in RootContents(f)
    BY RootContentsOf DEF RootFiles
  <2> QED BY <1>1, <2>1 DEF Init, TreeInit, TreeTypeOK
<1>3. RunTypeOK /\ MemoryFills
  BY BlankIsFilled DEF Init, RunInit, RunTypeOK, MemoryFills
<1>4. CheckTypeOK /\ CheckFollowsManifest /\ ~ Checking(check)
  BY DEF Init, CheckInit, Empty, CheckTypeOK, CheckStates, CheckPhases, CheckFollowsManifest,
         Follows, Checking, CaseChecked
<1>5. ManifestsAreWhole
  <2>1. rootFile["manifest"] = Missing
    BY DEF Init, TreeInit, RootFiles
  <2> QED BY <1>4, <2>1, KindsDiffer DEF ManifestsAreWhole
<1> QED BY <1>2, <1>3, <1>4, <1>5 DEF EvidenceInv, TypeOK, Init

\* Whole evidence is some run's.
LEMMA WholeIsOfARun == EvidenceInv => Whole \in Runs \cup {NoRun}
<1> SUFFICES ASSUME EvidenceInv, rootFile["manifest"].kind = "manifest"
             PROVE  rootFile["manifest"].aggregate.record.run \in Runs
  BY DEF Whole
<1>1. rootFile["manifest"] \in ManifestRecords
  BY RootContentsOf, KindsDiffer DEF EvidenceInv, TypeOK, TreeTypeOK, RootFiles
<1> QED BY <1>1 DEF EvidenceInv, ManifestsAreWhole, IsManifestOfRun

\* Every step, of a run, of the verification or of the developer, keeps it.
LEMMA NextInv == EvidenceInv /\ [Next]_vars => EvidenceInv'
<1> SUFFICES ASSUME EvidenceInv, [Next]_vars PROVE EvidenceInv'
  OBVIOUS
<1>0. calm \in BOOLEAN /\ stood \in Runs \cup {NoRun}
  BY DEF EvidenceInv, TypeOK
<1>1. ASSUME NEW s \in Sources, Edit(s) PROVE EvidenceInv'
  <2>1. PICK v \in Versions : source' = [source EXCEPT ![s] = v]
    BY <1>1 DEF Edit
  <2>2. UNCHANGED <<binary, reportFile, rootFile, run, owner, check, stood>>
        /\ calm' = FALSE
    BY <1>1 DEF Edit, runVars
  <2>3. TypeOK'
    BY <2>1, <2>2 DEF EvidenceInv, TypeOK, TreeTypeOK, RunTypeOK, CheckTypeOK
  <2>4. MemoryFills' /\ CheckFollowsManifest'
    BY <2>2 DEF EvidenceInv, MemoryFills, CheckFollowsManifest
  <2>5. ManifestsAreWhole'
    BY <2>2 DEF EvidenceInv, ManifestsAreWhole, IsManifestOfRun
  <2> QED BY <2>3, <2>4, <2>5 DEF EvidenceInv
<1>2. ASSUME NEW r \in Runs, RunnerStep(r) PROVE EvidenceInv'
  BY <1>2, RunStepPreserves DEF RunnerStep, Beside
<1>3. ASSUME VerifierStep PROVE EvidenceInv'
  <2>1. stood' \in Runs \cup {NoRun} /\ calm' \in BOOLEAN
    BY <1>0, <1>3, WholeIsOfARun DEF VerifierStep
  <2> QED BY <1>3, <2>1, CheckStepPreserves DEF VerifierStep
<1>4. ASSUME UNCHANGED vars PROVE EvidenceInv'
  <2>1. UNCHANGED <<source, binary, reportFile, rootFile, run, owner, check, calm, stood>>
    BY <1>4 DEF vars, treeVars, runVars
  <2> QED BY <2>1 DEF EvidenceInv, TypeOK, TreeTypeOK, RunTypeOK, CheckTypeOK,
                      MemoryFills, CheckFollowsManifest, ManifestsAreWhole, IsManifestOfRun
<1> QED BY <1>1, <1>2, <1>3, <1>4 DEF Next

\* The invariant holds in every state the tools reach.
THEOREM EvidenceInvariant == Spec => []EvidenceInv
BY InitInv, NextInv, PTL DEF Spec

\* Whatever a verification accepts was made by one run that reached its end.
THEOREM AcceptedFromOneRun == Spec => []AcceptedIsOneRun
<1>1. EvidenceInv => AcceptedIsOneRun
  <2> SUFFICES ASSUME EvidenceInv, Passed
               PROVE  LET r == check.aggregate.run
                      IN  /\ run[r].pc = "done"
                          /\ \A i \in Reports : check.cases[i] = run[r].records[i]
                          /\ check.tool = Tool(run[r])
    BY DEF AcceptedIsOneRun
  <2> DEFINE m == check.manifest
             r == m.aggregate.record.run
  <2>1. /\ check.aggregate = m.aggregate.record
        /\ check.tool = m.tool.record
        /\ \A i \in Reports : check.cases[i] = m.cases[i].record
    BY DEF EvidenceInv, CheckFollowsManifest, Follows, Passed, CaseChecked, Checking
  <2>2. run[r].pc = "done" /\ m = Manifest(r, run[r])
    BY DEF EvidenceInv, ManifestsAreWhole, IsManifestOfRun, Passed, Checking
  <2> HIDE DEF m
  <2>3. /\ m.tool.record = Tool(run[r])
        /\ \A i \in Reports : m.cases[i].record = run[r].records[i]
    BY <2>2 DEF Manifest, Summary
  <2> QED BY <2>1, <2>2, <2>3
<1> QED BY <1>1, EvidenceInvariant, PTL

\* Every case a verification accepts was run on a binary that answers it rightly.
THEOREM AcceptedAllPassed == Spec => []AcceptedPassed
<1>1. EvidenceInv => AcceptedPassed
  <2> SUFFICES ASSUME EvidenceInv, Passed, NEW i \in Reports
               PROVE  <<i, check.cases[i].built>> \in Right
    BY DEF AcceptedPassed
  <2>1. /\ check.cases[i] \in CaseRecords
        /\ check.cases[i].id = i /\ check.cases[i].passed
    BY DEF EvidenceInv, CheckFollowsManifest, Follows, Passed, CaseChecked, Checking
  <2>2. PICK v \in Versions : check.cases[i] = CaseRecord(i, v)
    BY <2>1 DEF CaseRecords, CaseRecord
  <2>3. check.cases[i].built = v /\ Matches(Observed(i, v))
    BY <2>1, <2>2 DEF CaseRecord
  <2> QED BY <2>3 DEF Matches, Observed
<1> QED BY <1>1, EvidenceInvariant, PTL

-----------------------------------------------------------------------------
(* When the sources rest while a run is under way. *)

\* A process with nothing in memory has made nothing of the sources.
LEMMA BlankIsMadeFrom ==
    ASSUME NEW pc, NEW versions
    PROVE  MadeFrom(Blank(pc), versions)
BY DEF MadeFrom, Blank

\* What was made stays made when the records and the hashes stay.
LEMMA MadeFromStays ==
    ASSUME NEW m, NEW n, NEW versions, MadeFrom(m, versions),
           n.records = m.records, n.hashed = m.hashed
    PROVE  MadeFrom(n, versions)
BY DEF MadeFrom

\* A step of run r to the local state n, and what it may do to the binaries.
LEMMA RestPreserves ==
    ASSUME SourcesRest, NEW r \in Runs, NEW n, run \in [Runs -> RunStates],
           run' = [run EXCEPT ![r] = n], source' = source,
           n.pc # "idle",
           \A s \in Sources : binary'[s] \in {NotBuilt, source[s], binary[s]},
           n.pc \notin {"clean", "dead", "done"} =>
               \A s \in Sources : binary'[s] \in {NotBuilt, source[s]},
           n.pc \notin {"dead", "done"} => MadeFrom(n, source),
           n.pc = "done" => MadeFrom(n, n.hashed)
    PROVE  SourcesRest'
<1> SUFFICES ASSUME NEW o \in Runs
             PROVE  /\ run'[o].pc = "idle" => run'[o] = Blank("idle")
                    /\ Active(o)' /\ Cleared(run'[o]) =>
                         \A s \in Sources : binary'[s] \in {NotBuilt, source'[s]}
                    /\ Active(o)' => MadeFrom(run'[o], source')
                    /\ run'[o].pc = "done" => MadeFrom(run'[o], run'[o].hashed)
  BY DEF SourcesRest
<1>1. CASE o = r
  <2>1. run'[o] = n
    BY <1>1
  <2> QED BY <2>1 DEF Active, Ended, Cleared
<1>2. CASE o # r
  <2>1. run'[o] = run[o]
    BY <1>2
  <2> QED BY <2>1 DEF SourcesRest, Active, Ended
<1> QED BY <1>1, <1>2

\* A step that leaves the sources, the binaries, the records and the hashes.
LEMMA RestStays ==
    ASSUME SourcesRest, NEW r \in Runs, NEW n, run \in [Runs -> RunStates],
           run' = [run EXCEPT ![r] = n], source' = source, binary' = binary,
           n.records = run[r].records, n.hashed = run[r].hashed,
           Active(r), Cleared(run[r]) \/ n.pc = "clean",
           n.pc \notin {"idle", "dead", "done"}
    PROVE  SourcesRest'
<1>1. MadeFrom(run[r], source)
  BY DEF SourcesRest
<1>2. MadeFrom(n, source)
  BY <1>1, MadeFromStays
<1>3. n.pc # "clean" => \A s \in Sources : binary[s] \in {NotBuilt, source[s]}
  BY DEF SourcesRest
<1> QED BY <1>2, <1>3, RestPreserves

\* Every step of a run.
LEMMA RestRunStep ==
    ASSUME EvidenceInv, SourcesRest, NEW r \in Runs, RunStep(r)
    PROVE  SourcesRest'
<1> DEFINE m == run[r]
<1>0. /\ run \in [Runs -> RunStates] /\ m \in RunStates /\ Filled(m) /\ TreeTypeOK
  BY DEF EvidenceInv, TypeOK, RunTypeOK, MemoryFills
<1>1. ASSUME Start(r) PROVE SourcesRest'
  <2> DEFINE n == [m EXCEPT !.pc = "clean"]
  <2>1. m.pc = "idle" /\ run' = [run EXCEPT ![r] = n]
        /\ source' = source /\ binary' = binary
    BY <1>0, <1>1 DEF Start, treeVars
  <2>2. MadeFrom(m, source)
    BY <2>1, BlankIsMadeFrom DEF SourcesRest
  <2>3. n.pc = "clean" /\ n.records = m.records /\ n.hashed = m.hashed
    BY <1>0 DEF RunStates
  <2> HIDE DEF n
  <2>4. MadeFrom(n, source)
    BY <2>2, <2>3, MadeFromStays
  <2> QED BY <1>0, <2>1, <2>3, <2>4, RestPreserves
<1>2. ASSUME RemoveFile(r) PROVE SourcesRest'
  <2>1. m.pc = "clean" /\ run' = [run EXCEPT ![r] = m]
        /\ source' = source /\ binary' = binary
    BY <1>0, <1>2 DEF RemoveFile
  <2>2. MadeFrom(m, source)
    BY <2>1 DEF SourcesRest, Active, Ended
  <2> HIDE DEF m
  <2> QED BY <1>0, <2>1, <2>2, RestPreserves
<1>3. ASSUME Prepare(r) PROVE SourcesRest'
  <2> DEFINE n == [m EXCEPT !.pc = "compile"]
  <2>1. m.pc = "clean" /\ run' = [run EXCEPT ![r] = n]
        /\ source' = source /\ \A s \in Sources : binary'[s] = NotBuilt
    BY <1>0, <1>3 DEF Prepare
  <2>2. MadeFrom(m, source)
    BY <2>1 DEF SourcesRest, Active, Ended
  <2>3. n.pc = "compile" /\ n.records = m.records /\ n.hashed = m.hashed
    BY <1>0 DEF RunStates
  <2> HIDE DEF n
  <2>4. MadeFrom(n, source)
    BY <2>2, <2>3, MadeFromStays
  <2> QED BY <1>0, <2>1, <2>3, <2>4, RestPreserves
<1>4. ASSUME Compile(r) PROVE SourcesRest'
  <2> DEFINE n == Advance(m, NSources, "compile", "execute")
  <2>1. /\ m.pc = "compile" /\ run' = [run EXCEPT ![r] = n] /\ source' = source
        /\ binary' = [binary EXCEPT ![m.at] = source[m.at]]
    BY <1>0, <1>4 DEF Compile
  <2>2. MadeFrom(m, source) /\ \A s \in Sources : binary[s] \in {NotBuilt, source[s]}
    BY <2>1 DEF SourcesRest, Active, Ended, Cleared
  <2>3. n.pc \in {"compile", "execute"} /\ n.records = m.records /\ n.hashed = m.hashed
    <3>1. NSources \in Nat /\ "compile" \in Phases /\ "execute" \in Phases
      BY TreeAssumption DEF Phases
    <3> QED BY <1>0, <3>1, AdvanceType
  <2>4. \A s \in Sources : binary'[s] \in {NotBuilt, source[s]}
    <3>1. binary \in [Sources -> Versions \cup {NotBuilt}]
      BY <1>0 DEF TreeTypeOK
    <3> HIDE DEF m, n
    <3> QED BY <2>1, <2>2, <3>1
  <2> HIDE DEF n
  <2>5. MadeFrom(n, source)
    BY <2>2, <2>3, MadeFromStays
  <2> QED BY <1>0, <2>1, <2>3, <2>4, <2>5, RestPreserves
<1>5. ASSUME Execute(r) PROVE SourcesRest'
  <2> DEFINE i == m.at
             c == CaseRecord(i, binary[Backend[i]])
             n == [m EXCEPT !.pc = "open", !.records[i] = c]
  <2>1. /\ m.pc = "execute" /\ run' = [run EXCEPT ![r] = n] /\ source' = source
        /\ binary' = binary /\ binary[Backend[i]] # NotBuilt
    BY <1>0, <1>5 DEF Execute, treeVars
  <2>2. MadeFrom(m, source) /\ \A s \in Sources : binary[s] \in {NotBuilt, source[s]}
    BY <2>1 DEF SourcesRest, Active, Ended, Cleared
  <2>3. i \in Reports /\ Backend[i] \in Sources
    BY <1>0, <2>1, TreeAssumption DEF Filled, Loading
  <2>4. c.built = source[Backend[i]]
    BY <2>1, <2>2, <2>3 DEF CaseRecord
  <2>5. n.pc = "open" /\ n.hashed = m.hashed /\ n.records = [m.records EXCEPT ![i] = c]
    BY <1>0 DEF RunStates
  <2>6. m.records \in [Reports -> CaseRecords \cup {NoRecord}]
    BY <1>0 DEF RunStates
  <2> HIDE DEF n, c, m, i
  <2>7. MadeFrom(n, source)
    BY <2>2, <2>3, <2>4, <2>5, <2>6 DEF MadeFrom
  <2> QED BY <1>0, <2>1, <2>2, <2>5, <2>7, RestPreserves
<1>6. ASSUME OpenReport(r) \/ WriteReport(r) PROVE SourcesRest'
  <2> PICK p \in {"write", "digest"} : run' = [run EXCEPT ![r] = [m EXCEPT !.pc = p]]
    BY <1>0, <1>6 DEF OpenReport, WriteReport
  <2> DEFINE n == [m EXCEPT !.pc = p]
  <2>1. m.pc \in {"open", "write"} /\ source' = source /\ binary' = binary
    BY <1>6 DEF OpenReport, WriteReport
  <2>2. n.pc = p /\ n.records = m.records /\ n.hashed = m.hashed
    BY <1>0 DEF RunStates
  <2> HIDE DEF n
  <2>3. run' = [run EXCEPT ![r] = n]
    BY DEF n
  <2> QED BY <1>0, <2>1, <2>2, <2>3, RestStays DEF Active, Ended, Cleared
<1>7. ASSUME DigestReport(r) PROVE SourcesRest'
  <2> DEFINE k == [m EXCEPT !.files[m.at] = reportFile[m.at]]
             n == Advance(k, NReports, "execute", "hash")
  <2>1. /\ m.pc = "digest" /\ run' = [run EXCEPT ![r] = n]
        /\ source' = source /\ binary' = binary
    BY <1>0, <1>7 DEF DigestReport, treeVars
  <2>2. /\ k \in RunStates /\ k.records = m.records /\ k.hashed = m.hashed
    <3>1. m.at \in Reports /\ reportFile[m.at] \in CaseRecords \cup TornFiles
      BY <1>0, <1>7, <2>1 DEF DigestReport, TreeTypeOK, Filled, Loading
    <3> QED BY <1>0, <3>1 DEF RunStates
  <2> HIDE DEF k
  <2>3. n.pc \in {"execute", "hash"} /\ n.records = k.records /\ n.hashed = k.hashed
    <3>1. NReports \in Nat /\ "execute" \in Phases /\ "hash" \in Phases
      BY TreeAssumption DEF Phases
    <3> QED BY <2>2, <3>1, AdvanceType
  <2> HIDE DEF n
  <2> QED BY <1>0, <2>1, <2>2, <2>3, RestStays DEF Active, Ended, Cleared
<1>8. ASSUME HashSource(r) PROVE SourcesRest'
  <2> DEFINE s == m.at
             k == [m EXCEPT !.hashed[s] = source[s]]
             n == Advance(k, NSources, "hash", "rootOpen")
  <2>1. /\ m.pc = "hash" /\ run' = [run EXCEPT ![r] = n]
        /\ source' = source /\ binary' = binary
    BY <1>0, <1>8 DEF HashSource, treeVars
  <2>2. MadeFrom(m, source) /\ \A t \in Sources : binary[t] \in {NotBuilt, source[t]}
    BY <2>1 DEF SourcesRest, Active, Ended, Cleared
  <2>3. s \in Sources /\ source[s] \in Versions
    BY <1>0, <2>1 DEF Filled, TreeTypeOK
  <2>4. k \in RunStates /\ k.records = m.records /\ k.hashed = [m.hashed EXCEPT ![s] = source[s]]
    BY <1>0, <2>3 DEF RunStates
  <2>5. m.hashed \in [Sources -> Versions \cup {NotBuilt}]
    BY <1>0 DEF RunStates
  <2> HIDE DEF k
  <2>6. n.pc \in {"hash", "rootOpen"} /\ n.records = k.records /\ n.hashed = k.hashed
    <3>1. NSources \in Nat /\ "hash" \in Phases /\ "rootOpen" \in Phases
      BY TreeAssumption DEF Phases
    <3>2. k \in RunStates
      BY <2>4
    <3> QED BY <3>1, <3>2, AdvanceType
  <2> HIDE DEF n, m, s
  <2>7. MadeFrom(n, source)
    BY <2>2, <2>4, <2>5, <2>6 DEF MadeFrom
  <2> QED BY <1>0, <2>1, <2>2, <2>6, <2>7, RestPreserves
<1>9. ASSUME OpenRootFile(r) \/ BindAggregate(r) \/ BindTool(r) PROVE SourcesRest'
  <2> PICK n : /\ run' = [run EXCEPT ![r] = n]
               /\ n.pc \in {"rootOpen", "rootWrite", "bindTool"}
               /\ n.records = m.records /\ n.hashed = m.hashed
    <3>1. CASE OpenRootFile(r)
      <4> DEFINE n == [m EXCEPT !.pc = "rootWrite"]
      <4>1. /\ run' = [run EXCEPT ![r] = n] /\ n.pc = "rootWrite"
            /\ n.records = m.records /\ n.hashed = m.hashed
        BY <1>0, <3>1 DEF OpenRootFile, RunStates
      <4> QED BY <4>1
    <3>2. CASE BindAggregate(r)
      <4> DEFINE n == [m EXCEPT !.pc = "bindTool",
                                !.aggregateFile = rootFile["genesis-report"]]
      <4>1. /\ run' = [run EXCEPT ![r] = n] /\ n.pc = "bindTool"
            /\ n.records = m.records /\ n.hashed = m.hashed
        BY <1>0, <3>2 DEF BindAggregate, RunStates
      <4> QED BY <4>1
    <3>3. CASE BindTool(r)
      <4> DEFINE n == [m EXCEPT !.pc = "rootOpen",
                                !.toolFile = rootFile["tool-source-hashes"]]
      <4>1. /\ run' = [run EXCEPT ![r] = n] /\ n.pc = "rootOpen"
            /\ n.records = m.records /\ n.hashed = m.hashed
        BY <1>0, <3>3 DEF BindTool, RunStates
      <4> QED BY <4>1
    <3> QED BY <1>9, <3>1, <3>2, <3>3
  <2>1. /\ m.pc \in {"rootOpen", "bindAggregate", "bindTool"}
        /\ source' = source /\ binary' = binary
    BY <1>9 DEF OpenRootFile, BindAggregate, BindTool, treeVars
  <2> QED BY <1>0, <2>1, RestStays DEF Active, Ended, Cleared
<1>10. ASSUME WriteRootFile(r) PROVE SourcesRest'
  <2> DEFINE n == AfterRootWrite(m)
  <2>1. /\ m.pc = "rootWrite" /\ run' = [run EXCEPT ![r] = n]
        /\ source' = source /\ binary' = binary
    BY <1>0, <1>10 DEF WriteRootFile
  <2>2. n.pc \in {"rootOpen", "bindAggregate", "done"}
        /\ n.records = m.records /\ n.hashed = m.hashed
    BY <1>0, <2>1 DEF AfterRootWrite, Jump, RunStates, Filled
  <2>3. MadeFrom(m, source) /\ \A s \in Sources : binary[s] \in {NotBuilt, source[s]}
    BY <2>1 DEF SourcesRest, Active, Ended, Cleared
  <2>4. \A s \in Sources : m.hashed[s] = source[s]
    BY <1>0, <2>1, <2>3 DEF Filled, Closing, MadeFrom, Versions, NotBuilt
  <2> HIDE DEF n
  <2>5. MadeFrom(n, source) /\ MadeFrom(n, n.hashed)
    BY <2>2, <2>3, <2>4, TreeAssumption DEF MadeFrom
  <2> QED BY <1>0, <2>1, <2>2, <2>3, <2>5, RestPreserves
<1>11. ASSUME Throw(r) \/ Kill(r) PROVE SourcesRest'
  <2> DEFINE n == Blank("dead")
  <2>1. run' = [run EXCEPT ![r] = n] /\ source' = source /\ binary' = binary
    BY <1>11 DEF Throw, Kill, Die, treeVars
  <2>2. n.pc = "dead"
    BY DEF Blank
  <2> HIDE DEF n
  <2> QED BY <1>0, <2>1, <2>2, RestPreserves
<1> QED BY <1>1, <1>2, <1>3, <1>4, <1>5, <1>6, <1>7, <1>8, <1>9, <1>10, <1>11
        DEF RunStep, Work

\* Every step, when no source is edited while a run is under way.
LEMMA RestNext ==
    ASSUME ~ EditsDuringRuns, EvidenceInv, SourcesRest, [Next]_vars
    PROVE  SourcesRest'
<1>1. ASSUME NEW s \in Sources, Edit(s) PROVE SourcesRest'
  <2>1. UNCHANGED <<binary, run>> /\ \A r \in Runs : ~ Active(r)
    BY <1>1 DEF Edit, Quiet, runVars
  <2> QED BY <2>1 DEF SourcesRest, Active, Ended
<1>2. ASSUME NEW r \in Runs, RunnerStep(r) PROVE SourcesRest'
  BY <1>2, RestRunStep DEF RunnerStep, Beside
<1>3. ASSUME VerifierStep \/ UNCHANGED vars PROVE SourcesRest'
  <2>1. UNCHANGED <<source, binary, run>>
    BY <1>3 DEF VerifierStep, CheckStep, treeVars, runVars, vars
  <2> QED BY <2>1 DEF SourcesRest, Active, Ended
<1> QED BY <1>1, <1>2, <1>3 DEF Next

\* While runs are under way nothing they built or recorded is of other sources.
THEOREM RunsRestOnTheSources ==
    ASSUME ~ EditsDuringRuns PROVE Spec => []SourcesRest
<1>1. Init => SourcesRest
  <2> SUFFICES ASSUME Init PROVE SourcesRest
    OBVIOUS
  <2>1. \A r \in Runs : run[r] = Blank("idle") /\ run[r].pc = "idle"
    BY DEF Init, RunInit, Blank
  <2> QED BY <2>1 DEF SourcesRest, Active, Ended
<1>2. EvidenceInv /\ SourcesRest /\ [Next]_vars => SourcesRest'
  BY RestNext
<1> QED BY <1>1, <1>2, EvidenceInvariant, PTL DEF Spec

\* When sources are edited only between runs, the binaries of the cases a
\* verification accepts were built from the versions the record lists.
THEOREM RecordedWereTested ==
    ASSUME ~ EditsDuringRuns PROVE Spec => []RecordedSourcesWereTested
<1>1. EvidenceInv /\ SourcesRest /\ AcceptedIsOneRun => RecordedSourcesWereTested
  <2> SUFFICES ASSUME EvidenceInv, SourcesRest, AcceptedIsOneRun, Passed, NEW i \in Reports
               PROVE  check.cases[i].built = check.tool.sources[Backend[i]]
    BY DEF RecordedSourcesWereTested
  <2> DEFINE r == check.aggregate.run
             m == run[r]
  <2>1. m.pc = "done" /\ check.cases[i] = m.records[i] /\ check.tool = Tool(m)
    BY DEF AcceptedIsOneRun
  <2>2. r \in Runs
    BY DEF EvidenceInv, CheckFollowsManifest, ManifestsAreWhole, Follows, Checking,
           IsManifestOfRun, Passed
  <2>3. MadeFrom(m, m.hashed)
    BY <2>1, <2>2 DEF SourcesRest
  <2>4. check.cases[i] # NoRecord
    BY KindsDiffer DEF EvidenceInv, CheckFollowsManifest, Follows, CaseChecked, Checking,
                       Passed, NoRecord
  <2> QED BY <2>1, <2>3, <2>4 DEF MadeFrom, Tool, ToolRecord
<1> QED BY <1>1, EvidenceInvariant, RunsRestOnTheSources, AcceptedFromOneRun, PTL

-----------------------------------------------------------------------------
(* When runs do not overlap. *)

\* A manifest is not what is written first, nor nothing.
LEMMA NotAManifest ==
    ASSUME NEW r \in Runs
    PROVE  Missing \notin ManifestRecords /\ Torn(r) \notin ManifestRecords
BY KindsDiffer

\* The records a run makes depend on its cases and hashes, not on its phase.
LEMMA SameRecords ==
    ASSUME NEW r, NEW m, NEW n, n.records = m.records, n.files = m.files,
           n.hashed = m.hashed
    PROVE  /\ Tool(n) = Tool(m) /\ Aggregate(r, n) = Aggregate(r, m)
           /\ n.aggregateFile = m.aggregateFile /\ n.toolFile = m.toolFile =>
                Manifest(r, n) = Manifest(r, m)
<1>1. Tool(n) = Tool(m) /\ Summary(n) = Summary(m)
  BY DEF Tool, Summary
<1>2. Aggregate(r, n) = Aggregate(r, m)
  BY <1>1 DEF Aggregate
<1> QED BY <1>1, <1>2 DEF Manifest

\* The run under way goes on, and owns the tree.
LEMMA OwnerGoesOn ==
    ASSUME OwnedTree, NEW r \in Runs, NEW n, Active(r), run \in [Runs -> RunStates],
           run' = [run EXCEPT ![r] = n], n.pc \notin {"idle", "clean", "dead"},
           owner' = r, calm' = FALSE, RecordsNameTheirCase(n),
           Owns(r, n, reportFile', rootFile')
    PROVE  OwnedTree'
<1>1. \A o \in Runs : /\ o # r => run'[o] = run[o] /\ ~ Active(o) /\ ~ Active(o)'
                      /\ o = r => run'[o] = n
  BY DEF OwnedTree, OneAtATime, Active, Ended
<1>2. (\A o \in Runs : RecordsNameTheirCase(run'[o])) /\ OneAtATime'
  BY <1>1 DEF OwnedTree, OneAtATime
<1>3. OwnersOwn'
  BY <1>1 DEF OwnersOwn
<1>4. StaleIsIncomplete'
  <2>1. CASE n.pc = "done"
    <3>1. rootFile'["manifest"].aggregate.record.run = r
      BY <2>1 DEF Owns, Manifest, Aggregate
    <3> QED BY <3>1 DEF StaleIsIncomplete
  <2>2. CASE n.pc # "done"
    BY <2>2, NotAManifest DEF Owns, StaleIsIncomplete
  <2> QED BY <2>1, <2>2
<1>5. CalmReadsOneTree' /\ AggregateIsOwners'
  BY DEF CalmReadsOneTree, AggregateIsOwners, Owns
<1> QED BY <1>2, <1>3, <1>4, <1>5 DEF OwnedTree

\* A run that owns nothing yet, or nothing any more, after a step that leaves
\* the files.
LEMMA NoOwnerMoves ==
    ASSUME OwnedTree, NEW r \in Runs, NEW n, run \in [Runs -> RunStates],
           \A o \in Runs : Active(o) => o = r,
           run' = [run EXCEPT ![r] = n], n.pc \in {"clean", "dead"},
           UNCHANGED <<reportFile, rootFile, owner>>, calm' = FALSE,
           RecordsNameTheirCase(n)
    PROVE  OwnedTree'
<1>1. \A o \in Runs : /\ o # r => run'[o] = run[o] /\ ~ Active(o) /\ ~ Active(o)'
                      /\ o = r => run'[o] = n
  BY DEF Active, Ended
<1>2. (\A o \in Runs : RecordsNameTheirCase(run'[o])) /\ OneAtATime'
  BY <1>1 DEF OwnedTree, OneAtATime
<1>3. OwnersOwn'
  BY <1>1 DEF OwnedTree, OwnersOwn, Cleared
<1>4. StaleIsIncomplete' /\ AggregateIsOwners' /\ CalmReadsOneTree'
  BY DEF OwnedTree, StaleIsIncomplete, AggregateIsOwners, CalmReadsOneTree, Complete
<1> QED BY <1>2, <1>3, <1>4 DEF OwnedTree

\* The steps before a run owns the tree, and its death.
LEMMA ClearingStep ==
    ASSUME EvidenceInv, Exclusive, OwnedTree, NEW r \in Runs, calm' = FALSE,
           Start(r) \/ RemoveFile(r) \/ Prepare(r) \/ Throw(r) \/ Kill(r)
    PROVE  OwnedTree'
<1> DEFINE m == run[r]
<1>0. /\ run \in [Runs -> RunStates] /\ m \in RunStates /\ Filled(m) /\ TreeTypeOK
      /\ RecordsNameTheirCase(m)
  BY DEF EvidenceInv, TypeOK, RunTypeOK, MemoryFills, OwnedTree
<1>1. CASE Start(r)
  <2> DEFINE n == [m EXCEPT !.pc = "clean"]
  <2>1. run' = [run EXCEPT ![r] = n] /\ UNCHANGED <<reportFile, rootFile, owner>>
        /\ \A o \in Runs : ~ Active(o)
    BY <1>0, <1>1 DEF Start, treeVars
  <2>2. n.pc = "clean" /\ n.records = m.records
    BY <1>0 DEF RunStates
  <2> HIDE DEF n
  <2>3. RecordsNameTheirCase(n)
    BY <1>0, <2>2 DEF RecordsNameTheirCase
  <2> QED BY <1>0, <2>1, <2>2, <2>3, NoOwnerMoves
<1>2. CASE RemoveFile(r)
  <2>1. m.pc = "clean" /\ run' = run /\ owner' = r
    BY <1>2 DEF RemoveFile
  <2>2. \A o \in Runs : o # r => ~ Active(o)
    BY <2>1 DEF OwnedTree, OneAtATime, Active, Ended
  <2>3. (\A o \in Runs : RecordsNameTheirCase(run'[o])) /\ OneAtATime'
    BY <2>1 DEF OwnedTree, OneAtATime, Active, Ended
  <2>4. OwnersOwn'
    BY <2>1, <2>2 DEF OwnersOwn, Cleared, Active, Ended
  <2>5. ~ Complete'
    <3>1. CASE \E i \in Reports : reportFile' = [reportFile EXCEPT ![i] = Missing]
      BY <1>0, <3>1 DEF TreeTypeOK, Complete
    <3>2. CASE \E f \in RootFiles : rootFile' = [rootFile EXCEPT ![f] = Missing]
      <4>1. PICK f \in RootFiles : rootFile' = [rootFile EXCEPT ![f] = Missing]
        BY <3>2
      <4>2. rootFile'[f] = Missing
        BY <1>0, <4>1 DEF TreeTypeOK
      <4> QED BY <4>2 DEF Complete
    <3> QED BY <1>2, <3>1, <3>2 DEF RemoveFile
  <2>6. StaleIsIncomplete' /\ AggregateIsOwners' /\ CalmReadsOneTree'
    BY <2>5 DEF StaleIsIncomplete, AggregateIsOwners, CalmReadsOneTree
  <2> QED BY <2>3, <2>4, <2>6 DEF OwnedTree
<1>3. CASE Prepare(r)
  <2> DEFINE n == [m EXCEPT !.pc = "compile"]
  <2>1. /\ m.pc = "clean" /\ run' = [run EXCEPT ![r] = n] /\ owner' = r
        /\ UNCHANGED <<reportFile, rootFile>> /\ rootFile["manifest"] = Missing
        /\ NotOfOther(rootFile["genesis-report"], r)
    BY <1>0, <1>3 DEF Prepare, RootFiles, NotOfOther, Missing
  <2>2. n.pc = "compile" /\ n.records = m.records
    BY <1>0 DEF RunStates
  <2> HIDE DEF n
  <2>3. RecordsNameTheirCase(n)
    BY <1>0, <2>2 DEF RecordsNameTheirCase
  <2>4. Owns(r, n, reportFile', rootFile')
    BY <2>1, <2>2 DEF Owns, CaseWritten, CaseBound, RootWritten, ManifestDue, Closing, Loading
  <2>5. Active(r)
    BY <2>1 DEF Active, Ended
  <2> QED BY <1>0, <2>1, <2>2, <2>3, <2>4, <2>5, OwnerGoesOn
<1>4. CASE Throw(r) \/ Kill(r)
  <2> DEFINE n == Blank("dead")
  <2>1. /\ run' = [run EXCEPT ![r] = n] /\ UNCHANGED <<reportFile, rootFile, owner>>
        /\ Active(r)
    BY <1>4 DEF Throw, Kill, Die, treeVars, Active, Ended
  <2>2. n.pc = "dead" /\ RecordsNameTheirCase(n)
    BY DEF Blank, RecordsNameTheirCase
  <2>3. \A o \in Runs : Active(o) => o = r
    BY <2>1 DEF OwnedTree, OneAtATime
  <2> HIDE DEF n
  <2> QED BY <1>0, <2>1, <2>2, <2>3, NoOwnerMoves
<1> QED BY <1>1, <1>2, <1>3, <1>4

\* The run under way, past the clearing, owns what it has written.
LEMMA OwnerIsActive ==
    ASSUME OwnedTree, NEW r \in Runs,
           run[r].pc \notin {"idle", "clean", "done", "dead"}
    PROVE  /\ Active(r) /\ owner = r /\ RecordsNameTheirCase(run[r])
           /\ Owns(r, run[r], reportFile, rootFile)
<1>1. Active(r) /\ Cleared(run[r])
  BY DEF Active, Ended, Cleared
<1> QED BY <1>1 DEF OwnedTree, OwnersOwn

\* Compiling, running a case, and writing and digesting its report.
LEMMA CaseStep ==
    ASSUME EvidenceInv, OwnedTree, NEW r \in Runs, calm' = FALSE,
           \/ Compile(r) \/ Execute(r) \/ OpenReport(r) \/ WriteReport(r)
           \/ DigestReport(r) \/ HashSource(r)
    PROVE  OwnedTree'
<1> DEFINE m == run[r]
<1>0. /\ run \in [Runs -> RunStates] /\ m \in RunStates /\ Filled(m) /\ TreeTypeOK
      /\ NReports \in Nat \ {0} /\ NSources \in Nat \ {0}
  BY TreeAssumption DEF EvidenceInv, TypeOK, RunTypeOK, MemoryFills
<1>a. /\ m.pc \in {"compile", "execute", "open", "write", "digest", "hash"}
      /\ owner' = owner /\ rootFile' = rootFile
  BY DEF Compile, Execute, OpenReport, WriteReport, DigestReport, HashSource, treeVars
<1>b. /\ Active(r) /\ owner = r /\ RecordsNameTheirCase(m)
      /\ Owns(r, m, reportFile, rootFile)
  BY <1>a, OwnerIsActive
<1>c. rootFile["manifest"] \in {Missing, Torn(r)} /\ NotOfOther(rootFile["genesis-report"], r)
  BY <1>a, <1>b DEF Owns
<1>1. CASE Compile(r)
  <2> DEFINE n == Advance(m, NSources, "compile", "execute")
  <2>1. m.pc = "compile" /\ run' = [run EXCEPT ![r] = n]
    BY <1>0, <1>1 DEF Compile
  <2>2. /\ n.pc \in {"compile", "execute"}
        /\ n.pc = "execute" => n.at = 1
        /\ n.records = m.records
    <3>1. NSources \in Nat /\ "compile" \in Phases /\ "execute" \in Phases
      BY <1>0 DEF Phases
    <3> QED BY <1>0, <3>1, AdvanceType
  <2> HIDE DEF n
  <2>3. RecordsNameTheirCase(n)
    BY <1>b, <2>2 DEF RecordsNameTheirCase
  <2>4. Owns(r, n, reportFile', rootFile')
    BY <1>a, <1>c, <2>2 DEF Owns, CaseWritten, CaseBound, RootWritten, ManifestDue,
                            Closing, Loading, Reports
  <2> QED BY <1>0, <1>a, <1>b, <2>1, <2>2, <2>3, <2>4, OwnerGoesOn
<1>2. CASE Execute(r)
  <2> DEFINE i == m.at
             c == CaseRecord(i, binary[Backend[i]])
             n == [m EXCEPT !.pc = "open", !.records[i] = c]
  <2>1. m.pc = "execute" /\ run' = [run EXCEPT ![r] = n] /\ reportFile' = reportFile
    BY <1>0, <1>2 DEF Execute, treeVars
  <2>2. /\ n.pc = "open" /\ n.at = i /\ n.files = m.files
        /\ n.records = [m.records EXCEPT ![i] = c]
        /\ m.records \in [Reports -> CaseRecords \cup {NoRecord}]
        /\ i \in Reports
    BY <1>0, <2>1 DEF RunStates, Filled, Loading
  <2>3. c.id = i
    BY DEF CaseRecord
  <2> HIDE DEF n, c
  <2>4. RecordsNameTheirCase(n)
    BY <1>b, <2>2, <2>3 DEF RecordsNameTheirCase
  <2>5. \A j \in Reports : j < n.at => n.records[j] = m.records[j]
    BY <2>2 DEF Reports
  <2>6. Owns(r, n, reportFile', rootFile')
    BY <1>a, <1>b, <1>c, <2>1, <2>2, <2>5
       DEF Owns, CaseWritten, CaseBound, RootWritten, ManifestDue, Closing, Loading
  <2> QED BY <1>0, <1>a, <1>b, <2>1, <2>2, <2>4, <2>6, OwnerGoesOn
<1>3. CASE OpenReport(r)
  <2> DEFINE n == [m EXCEPT !.pc = "write"]
  <2>1. /\ m.pc = "open" /\ run' = [run EXCEPT ![r] = n]
        /\ reportFile' = [reportFile EXCEPT ![m.at] = Torn(r)]
    BY <1>0, <1>3 DEF OpenReport
  <2>2. n.pc = "write" /\ n.at = m.at /\ n.files = m.files /\ n.records = m.records
    BY <1>0 DEF RunStates
  <2> HIDE DEF n
  <2>3. RecordsNameTheirCase(n)
    BY <1>b, <2>2 DEF RecordsNameTheirCase
  <2>4. /\ \A i \in Reports : i < m.at => reportFile'[i] = reportFile[i]
        /\ m.at \in Reports /\ reportFile'[m.at] = Torn(r)
    BY <1>0, <2>1 DEF TreeTypeOK, Filled, Loading, Reports
  <2>5. Owns(r, n, reportFile', rootFile')
    BY <1>a, <1>b, <1>c, <2>1, <2>2, <2>4
       DEF Owns, CaseWritten, CaseBound, RootWritten, ManifestDue, Closing, Loading
  <2> QED BY <1>0, <1>a, <1>b, <2>1, <2>2, <2>3, <2>5, OwnerGoesOn
<1>4. CASE WriteReport(r)
  <2> DEFINE n == [m EXCEPT !.pc = "digest"]
  <2>1. /\ m.pc = "write" /\ run' = [run EXCEPT ![r] = n]
        /\ \E c \in Written(reportFile[m.at], r, m.records[m.at]) :
             reportFile' = [reportFile EXCEPT ![m.at] = c]
    BY <1>0, <1>4 DEF WriteReport
  <2>2. n.pc = "digest" /\ n.at = m.at /\ n.files = m.files /\ n.records = m.records
    BY <1>0 DEF RunStates
  <2> HIDE DEF n
  <2>3. RecordsNameTheirCase(n)
    BY <1>b, <2>2 DEF RecordsNameTheirCase
  <2>4. m.at \in Reports /\ reportFile[m.at] = Torn(r)
    BY <1>0, <1>b, <2>1 DEF Owns, Filled, Loading
  <2>5. reportFile' = [reportFile EXCEPT ![m.at] = m.records[m.at]]
    BY <2>1, <2>4 DEF Written
  <2>6. /\ \A i \in Reports : i < m.at => reportFile'[i] = reportFile[i]
        /\ reportFile'[m.at] = m.records[m.at]
    BY <1>0, <2>4, <2>5 DEF TreeTypeOK, Reports
  <2>7. Owns(r, n, reportFile', rootFile')
    BY <1>a, <1>b, <1>c, <2>1, <2>2, <2>6
       DEF Owns, CaseWritten, CaseBound, RootWritten, ManifestDue, Closing, Loading
  <2> QED BY <1>0, <1>a, <1>b, <2>1, <2>2, <2>3, <2>7, OwnerGoesOn
<1>5. CASE DigestReport(r)
  <2> DEFINE k == [m EXCEPT !.files[m.at] = reportFile[m.at]]
             n == Advance(k, NReports, "execute", "hash")
  <2>1. m.pc = "digest" /\ run' = [run EXCEPT ![r] = n] /\ reportFile' = reportFile
        /\ reportFile[m.at] # Missing
    BY <1>0, <1>5 DEF DigestReport, treeVars
  <2>2. m.at \in Reports /\ reportFile[m.at] = m.records[m.at]
        /\ reportFile[m.at] \in CaseRecords \cup TornFiles
    BY <1>0, <1>b, <2>1 DEF Owns, CaseWritten, Filled, Loading, TreeTypeOK
  <2>3. /\ k \in RunStates /\ k.at = m.at /\ k.records = m.records
        /\ k.files = [m.files EXCEPT ![m.at] = reportFile[m.at]]
        /\ m.files \in [Reports -> CaseRecords \cup TornFiles \cup {NoRecord}]
    BY <1>0, <2>2 DEF RunStates
  <2> HIDE DEF k
  <2>4. /\ m.at < NReports => n.pc = "execute" /\ n.at = m.at + 1
        /\ ~ (m.at < NReports) => n.pc = "hash" /\ n.at = 1
        /\ n.records = m.records /\ n.files = k.files
    <3>1. NReports \in Nat /\ "execute" \in Phases /\ "hash" \in Phases
      BY <1>0 DEF Phases
    <3>2. k \in RunStates
      BY <2>3
    <3> QED BY <2>3, <3>1, <3>2, AdvanceType
  <2> HIDE DEF n
  <2>5. RecordsNameTheirCase(n)
    BY <1>b, <2>4 DEF RecordsNameTheirCase
  <2>6. \A i \in Reports : i <= m.at =>
          reportFile[i] = m.records[i] /\ n.files[i] = m.records[i]
    <3>1. \A i \in Reports : i < m.at =>
            reportFile[i] = m.records[i] /\ m.files[i] = m.records[i]
      BY <1>b, <2>1 DEF Owns, CaseWritten, CaseBound, Loading
    <3>2. n.files[m.at] = m.records[m.at]
      BY <2>2, <2>3, <2>4
    <3>3. \A i \in Reports : i < m.at => n.files[i] = m.files[i]
      BY <2>3, <2>4 DEF Reports
    <3>4. \A i \in Reports : i <= m.at => i < m.at \/ i = m.at
      BY <1>0, <2>2 DEF Reports
    <3> HIDE DEF m
    <3> QED BY <2>2, <3>1, <3>2, <3>3, <3>4
  <2>7. Owns(r, n, reportFile', rootFile')
    BY <1>0, <1>a, <1>c, <2>1, <2>2, <2>4, <2>6
       DEF Owns, CaseWritten, CaseBound, RootWritten, ManifestDue, Closing, Loading, Reports
  <2> QED BY <1>0, <1>a, <1>b, <2>1, <2>4, <2>5, <2>7, OwnerGoesOn
<1>6. CASE HashSource(r)
  <2> DEFINE k == [m EXCEPT !.hashed[m.at] = source[m.at]]
             n == Advance(k, NSources, "hash", "rootOpen")
  <2>1. m.pc = "hash" /\ run' = [run EXCEPT ![r] = n] /\ reportFile' = reportFile
    BY <1>0, <1>6 DEF HashSource, treeVars
  <2>2. k \in RunStates /\ k.records = m.records /\ k.files = m.files
    <3>1. m.at \in Sources /\ source[m.at] \in Versions
      BY <1>0, <2>1 DEF Filled, TreeTypeOK
    <3> QED BY <1>0, <3>1 DEF RunStates
  <2> HIDE DEF k
  <2>3. /\ n.pc \in {"hash", "rootOpen"}
        /\ n.pc = "rootOpen" => n.at = 1
        /\ n.records = m.records /\ n.files = m.files
    <3>1. NSources \in Nat /\ "hash" \in Phases /\ "rootOpen" \in Phases
      BY <1>0 DEF Phases
    <3> QED BY <2>2, <3>1, AdvanceType
  <2> HIDE DEF n
  <2>4. RecordsNameTheirCase(n)
    BY <1>b, <2>3 DEF RecordsNameTheirCase
  <2>5. \A i \in Reports : reportFile[i] = m.records[i] /\ m.files[i] = m.records[i]
    BY <1>b, <2>1 DEF Owns, CaseWritten, CaseBound
  <2>6. Owns(r, n, reportFile', rootFile')
    BY <1>a, <1>c, <2>1, <2>3, <2>5
       DEF Owns, CaseWritten, CaseBound, RootWritten, ManifestDue, Closing, Loading
  <2> QED BY <1>0, <1>a, <1>b, <2>1, <2>3, <2>4, <2>6, OwnerGoesOn
<1> QED BY <1>1, <1>2, <1>3, <1>4, <1>5, <1>6

\* A run that has closed its cases goes on to the local state n, at the next
\* of the files beside the reports.
LEMMA ClosingOwns ==
    ASSUME NEW r, NEW m, NEW n, NEW reports, NEW roots, NEW roots2,
           Owns(r, m, reports, roots), Closing(m), m.pc # "done", Closing(n),
           n.records = m.records, n.files = m.files, n.hashed = m.hashed,
           RootWritten(n, 1) => roots2["tool-source-hashes"] = Tool(m),
           RootWritten(n, 2) => roots2["genesis-report"] = Aggregate(r, m),
           n.pc = "rootWrite" => roots2[RootOrder[n.at]] = Torn(r),
           n.pc = "bindTool" \/ ManifestDue(n) => n.aggregateFile = Aggregate(r, m),
           ManifestDue(n) => n.toolFile = Tool(m),
           n.pc = "done" => roots2["manifest"] = Manifest(r, n),
           n.pc # "done" => roots2["manifest"] \in {Missing, Torn(r)},
           roots2["genesis-report"] \in {roots["genesis-report"], Torn(r), Aggregate(r, m)}
    PROVE  Owns(r, n, reports, roots2)
<1>1. \A i \in Reports : reports[i] = m.records[i] /\ m.files[i] = m.records[i]
  BY DEF Owns, CaseWritten, CaseBound
<1>2. n.pc # "write"
  BY DEF Closing
<1>3. Tool(n) = Tool(m) /\ Aggregate(r, n) = Aggregate(r, m)
  BY SameRecords
<1>4. NotOfOther(roots2["genesis-report"], r)
  BY DEF Owns, NotOfOther, Torn, Aggregate
<1> QED BY <1>1, <1>2, <1>3, <1>4 DEF Owns

\* Writing the three files beside the reports, and binding the first two.
LEMMA RootStep ==
    ASSUME EvidenceInv, OwnedTree, NEW r \in Runs, calm' = FALSE,
           OpenRootFile(r) \/ WriteRootFile(r) \/ BindAggregate(r) \/ BindTool(r)
    PROVE  OwnedTree'
<1> DEFINE m == run[r]
<1>0. /\ run \in [Runs -> RunStates] /\ m \in RunStates /\ Filled(m) /\ TreeTypeOK
  BY DEF EvidenceInv, TypeOK, RunTypeOK, MemoryFills
<1>a. /\ m.pc \in {"rootOpen", "rootWrite", "bindAggregate", "bindTool"}
      /\ owner' = owner /\ reportFile' = reportFile
  BY DEF OpenRootFile, WriteRootFile, BindAggregate, BindTool, treeVars
<1>b. /\ Active(r) /\ owner = r /\ RecordsNameTheirCase(m)
      /\ Owns(r, m, reportFile, rootFile)
  BY <1>a, OwnerIsActive
<1>c. /\ rootFile["manifest"] \in {Missing, Torn(r)} /\ Closing(m)
      /\ m.at \in 1..3
      /\ m.at \in {2, 3} => rootFile["tool-source-hashes"] = Tool(m)
      /\ m.at = 3 => rootFile["genesis-report"] = Aggregate(r, m)
  BY <1>0, <1>a, <1>b DEF Owns, Closing, Filled, RootWritten
<1>d. /\ "tool-source-hashes" \in RootFiles /\ "genesis-report" \in RootFiles
      /\ "manifest" \in RootFiles
  BY DEF RootFiles
<1>1. CASE OpenRootFile(r)
  <2> DEFINE n == [m EXCEPT !.pc = "rootWrite"]
             f == RootOrder[m.at]
  <2>1. /\ m.pc = "rootOpen" /\ run' = [run EXCEPT ![r] = n]
        /\ rootFile' = [rootFile EXCEPT ![f] = Torn(r)]
    BY <1>0, <1>1 DEF OpenRootFile
  <2>2. /\ n.pc = "rootWrite" /\ n.at = m.at /\ n.files = m.files
        /\ n.records = m.records /\ n.hashed = m.hashed
        /\ n.aggregateFile = m.aggregateFile /\ n.toolFile = m.toolFile
    BY <1>0 DEF RunStates
  <2> HIDE DEF n
  <2>3. RecordsNameTheirCase(n)
    BY <1>b, <2>2 DEF RecordsNameTheirCase
  <2>4. /\ rootFile'[f] = Torn(r)
        /\ \A g \in RootFiles : g # f => rootFile'[g] = rootFile[g]
    BY <1>0, <1>c, <2>1, RootOrderType DEF TreeTypeOK
  <2>5. /\ m.at \in {2, 3} => rootFile'["tool-source-hashes"] = Tool(m)
        /\ m.at = 3 => rootFile'["genesis-report"] = Aggregate(r, m)
        /\ rootFile'["manifest"] \in {Missing, Torn(r)}
        /\ rootFile'["genesis-report"] \in {rootFile["genesis-report"], Torn(r)}
    BY <1>c, <1>d, <2>4, RootOrderType
  <2>6. /\ RootWritten(n, 1) => m.at \in {2, 3}
        /\ RootWritten(n, 2) => m.at = 3
        /\ ManifestDue(n) => ManifestDue(m)
    BY <1>c, <2>1, <2>2 DEF RootWritten, ManifestDue
  <2>7. ManifestDue(m) => m.aggregateFile = Aggregate(r, m) /\ m.toolFile = Tool(m)
    BY <1>b DEF Owns
  <2>8. Closing(n) /\ m.pc # "done"
    BY <2>1, <2>2 DEF Closing
  <2> HIDE DEF m, f
  <2>9. Owns(r, n, reportFile, rootFile')
    BY <1>b, <1>c, <2>2, <2>4, <2>5, <2>6, <2>7, <2>8, ClosingOwns DEF f
  <2> QED BY <1>0, <1>a, <1>b, <2>1, <2>2, <2>3, <2>9, OwnerGoesOn
<1>2. CASE WriteRootFile(r)
  <2> DEFINE n == AfterRootWrite(m)
             f == RootOrder[m.at]
  <2>1. /\ m.pc = "rootWrite" /\ run' = [run EXCEPT ![r] = n]
        /\ \E c \in Written(rootFile[f], r, RootRecord(r, f)) :
             rootFile' = [rootFile EXCEPT ![f] = c]
    BY <1>0, <1>2 DEF WriteRootFile
  <2>2. /\ m.at = 1 => n.pc = "rootOpen" /\ n.at = 2
        /\ m.at = 2 => n.pc = "bindAggregate" /\ n.at = 3
        /\ m.at = 3 => n.pc = "done" /\ n.at = 3
        /\ n.files = m.files /\ n.records = m.records /\ n.hashed = m.hashed
        /\ n.aggregateFile = m.aggregateFile /\ n.toolFile = m.toolFile
    BY <1>0, <1>c DEF AfterRootWrite, Jump, RunStates
  <2> HIDE DEF n
  <2>3. RecordsNameTheirCase(n)
    BY <1>b, <2>2 DEF RecordsNameTheirCase
  <2>4. rootFile' = [rootFile EXCEPT ![f] = RootRecord(r, f)]
    BY <1>b, <2>1 DEF Owns, Written
  <2>5. /\ rootFile'[f] = RootRecord(r, f)
        /\ \A g \in RootFiles : g # f => rootFile'[g] = rootFile[g]
    BY <1>0, <1>c, <2>4, RootOrderType DEF TreeTypeOK
  <2>6. /\ RootRecord(r, "tool-source-hashes") = Tool(m)
        /\ RootRecord(r, "genesis-report") = Aggregate(r, m)
        /\ RootRecord(r, "manifest") = Manifest(r, m)
    BY DEF RootRecord
  <2>7. m.at = 3 => m.aggregateFile = Aggregate(r, m) /\ m.toolFile = Tool(m)
    BY <1>b, <2>1 DEF Owns, ManifestDue
  <2>8. Manifest(r, n) = Manifest(r, m)
    BY <2>2, SameRecords
  <2>9. Closing(n) /\ m.pc # "done" /\ n.pc \notin {"rootWrite", "bindTool"}
    BY <1>c, <2>1, <2>2 DEF Closing
  <2>10. CASE m.at = 1
    <3>1. /\ rootFile'["tool-source-hashes"] = Tool(m)
          /\ rootFile'["manifest"] = rootFile["manifest"]
          /\ rootFile'["genesis-report"] = rootFile["genesis-report"]
      BY <1>d, <2>5, <2>6, <2>10, RootOrderType
    <3>2. ~ RootWritten(n, 2) /\ ~ ManifestDue(n) /\ n.pc # "done"
      BY <2>2, <2>10 DEF RootWritten, ManifestDue
    <3> HIDE DEF m, f
    <3>3. Owns(r, n, reportFile, rootFile')
      BY <1>b, <1>c, <2>2, <2>9, <3>1, <3>2, ClosingOwns
    <3> QED BY <1>0, <1>a, <1>b, <2>1, <2>2, <2>3, <2>10, <3>3, OwnerGoesOn DEF m
  <2>11. CASE m.at = 2
    <3>1. /\ rootFile'["tool-source-hashes"] = Tool(m)
          /\ rootFile'["genesis-report"] = Aggregate(r, m)
          /\ rootFile'["manifest"] = rootFile["manifest"]
      BY <1>c, <1>d, <2>5, <2>6, <2>11, RootOrderType
    <3>2. ~ ManifestDue(n) /\ n.pc # "done"
      BY <2>2, <2>11 DEF ManifestDue
    <3> HIDE DEF m, f
    <3>3. Owns(r, n, reportFile, rootFile')
      BY <1>b, <1>c, <2>2, <2>9, <3>1, <3>2, ClosingOwns
    <3> QED BY <1>0, <1>a, <1>b, <2>1, <2>2, <2>3, <2>11, <3>3, OwnerGoesOn DEF m
  <2>12. CASE m.at = 3
    <3>1. /\ rootFile'["tool-source-hashes"] = Tool(m)
          /\ rootFile'["genesis-report"] = Aggregate(r, m)
          /\ rootFile'["manifest"] = Manifest(r, n)
      BY <1>c, <1>d, <2>5, <2>6, <2>8, <2>12, RootOrderType
    <3> HIDE DEF m, f
    <3>3. Owns(r, n, reportFile, rootFile')
      BY <1>b, <2>2, <2>7, <2>9, <2>12, <3>1, <1>c, ClosingOwns
    <3> QED BY <1>0, <1>a, <1>b, <2>1, <2>2, <2>3, <2>12, <3>3, OwnerGoesOn DEF m
  <2> QED BY <1>c, <2>10, <2>11, <2>12
<1>3. CASE BindAggregate(r)
  <2> DEFINE c == rootFile["genesis-report"]
             n == [m EXCEPT !.pc = "bindTool", !.aggregateFile = c]
  <2>1. /\ m.pc = "bindAggregate" /\ run' = [run EXCEPT ![r] = n]
        /\ rootFile' = rootFile /\ m.at = 3
    BY <1>0, <1>3 DEF BindAggregate, treeVars, Filled
  <2>2. /\ n.pc = "bindTool" /\ n.at = m.at /\ n.files = m.files
        /\ n.records = m.records /\ n.hashed = m.hashed /\ n.aggregateFile = c
    BY <1>0 DEF RunStates
  <2>3. c = Aggregate(r, m)
    BY <1>c, <2>1
  <2> HIDE DEF n, c, m
  <2>4. RecordsNameTheirCase(n)
    BY <1>b, <2>2 DEF RecordsNameTheirCase
  <2>5. Closing(n) /\ ~ ManifestDue(n) /\ n.pc \notin {"rootWrite", "done"} /\ m.pc # "done"
    BY <2>1, <2>2 DEF Closing, ManifestDue
  <2>6. Owns(r, n, reportFile, rootFile')
    BY <1>b, <1>c, <2>1, <2>2, <2>3, <2>5, ClosingOwns DEF c
  <2> QED BY <1>0, <1>a, <1>b, <2>1, <2>2, <2>4, <2>6, OwnerGoesOn
<1>4. CASE BindTool(r)
  <2> DEFINE c == rootFile["tool-source-hashes"]
             n == [m EXCEPT !.pc = "rootOpen", !.toolFile = c]
  <2>1. /\ m.pc = "bindTool" /\ run' = [run EXCEPT ![r] = n]
        /\ rootFile' = rootFile /\ m.at = 3
    BY <1>0, <1>4 DEF BindTool, treeVars, Filled
  <2>2. /\ n.pc = "rootOpen" /\ n.at = m.at /\ n.files = m.files
        /\ n.records = m.records /\ n.hashed = m.hashed
        /\ n.aggregateFile = m.aggregateFile /\ n.toolFile = c
    BY <1>0 DEF RunStates
  <2>3. c = Tool(m) /\ m.aggregateFile = Aggregate(r, m)
    BY <1>b, <1>c, <2>1 DEF Owns
  <2> HIDE DEF n, c, m
  <2>4. RecordsNameTheirCase(n)
    BY <1>b, <2>2 DEF RecordsNameTheirCase
  <2>5. Closing(n) /\ n.pc \notin {"rootWrite", "done", "bindTool"} /\ m.pc # "done"
    BY <2>1, <2>2 DEF Closing
  <2>6. Owns(r, n, reportFile, rootFile')
    BY <1>b, <1>c, <2>1, <2>2, <2>3, <2>5, ClosingOwns DEF c
  <2> QED BY <1>0, <1>a, <1>b, <2>1, <2>2, <2>4, <2>6, OwnerGoesOn
<1> QED BY <1>1, <1>2, <1>3, <1>4

\* What stands is whole, and is what its run has in memory.
LEMMA StandsWhole ==
    ASSUME EvidenceInv, OwnedTree, Stands
    PROVE  LET m == run[owner]
               mf == Manifest(owner, m)
           IN  /\ rootFile["manifest"] = mf
               /\ rootFile["tool-source-hashes"] = mf.tool.record
               /\ rootFile["tool-source-hashes"] = mf.tool.file
               /\ rootFile["tool-source-hashes"].kind = "tool"
               /\ rootFile["genesis-report"] = mf.aggregate.record
               /\ rootFile["genesis-report"] = mf.aggregate.file
               /\ rootFile["genesis-report"] = Aggregate(owner, m)
               /\ rootFile["genesis-report"].kind = "aggregate"
               /\ \A i \in Reports :
                    /\ reportFile[i] = mf.cases[i].record
                    /\ reportFile[i] = mf.cases[i].file
                    /\ reportFile[i].kind = "case" /\ reportFile[i].id = i
                    /\ Matches(reportFile[i].observed) /\ reportFile[i].passed
               /\ Complete
<1> DEFINE r == owner
           m == run[r]
           mf == Manifest(r, m)
<1>1. r \in Runs /\ m.pc = "done" /\ m \in RunStates /\ Filled(m)
  BY DEF Stands, EvidenceInv, TypeOK, RunTypeOK, MemoryFills
<1>2. Owns(r, m, reportFile, rootFile) /\ RecordsNameTheirCase(m)
  BY <1>1 DEF OwnedTree, OwnersOwn, Cleared
<1>3. \A i \in Reports : m.records[i] \in CaseRecords
  BY <1>1 DEF Filled, Closing
<1>4. \A i \in Reports : m.records[i].passed
  BY DEF Stands, Aggregate
<1> HIDE DEF m, r
<1>5. /\ mf.tool.record = Tool(m) /\ mf.tool.file = m.toolFile
      /\ mf.aggregate.record = Aggregate(r, m) /\ mf.aggregate.file = m.aggregateFile
      /\ \A i \in Reports : mf.cases[i].record = m.records[i] /\ mf.cases[i].file = m.files[i]
      /\ mf.kind = "manifest"
  BY DEF Manifest, Summary
<1>6. /\ rootFile["manifest"] = mf
      /\ rootFile["tool-source-hashes"] = Tool(m) /\ m.toolFile = Tool(m)
      /\ rootFile["genesis-report"] = Aggregate(r, m) /\ m.aggregateFile = Aggregate(r, m)
      /\ \A i \in Reports : reportFile[i] = m.records[i] /\ m.files[i] = m.records[i]
  BY <1>1, <1>2 DEF Owns, CaseWritten, CaseBound, RootWritten, ManifestDue, Closing
<1>7. Tool(m).kind = "tool" /\ Aggregate(r, m).kind = "aggregate"
  BY DEF Tool, ToolRecord, Aggregate
<1>8. \A i \in Reports :
        /\ m.records[i].kind = "case" /\ m.records[i].id = i
        /\ Matches(m.records[i].observed)
  <2> SUFFICES ASSUME NEW i \in Reports
               PROVE  /\ m.records[i].kind = "case" /\ m.records[i].id = i
                      /\ Matches(m.records[i].observed)
    OBVIOUS
  <2>1. PICK j \in Reports, v \in Versions : m.records[i] = CaseRecord(j, v)
    BY <1>3 DEF CaseRecords
  <2>2. m.records[i].kind = "case" /\ Matches(m.records[i].observed)
    BY <1>4, <2>1 DEF CaseRecord
  <2>3. m.records[i] # NoRecord
    BY <2>2 DEF NoRecord
  <2> QED BY <1>2, <2>2, <2>3 DEF RecordsNameTheirCase
<1>9. Complete
  <2>1. rootFile["manifest"].kind = "manifest"
    BY <1>5, <1>6
  <2>2. \A f \in RootFiles : rootFile[f].kind # "missing"
    BY <1>6, <1>7, <2>1 DEF RootFiles
  <2>3. \A i \in Reports : reportFile[i].kind # "missing"
    BY <1>6, <1>8
  <2> QED BY <2>2, <2>3, KindsDiffer DEF Complete
<1> HIDE DEF mf
<1>10. /\ rootFile["manifest"] = mf
       /\ rootFile["tool-source-hashes"] = mf.tool.record
       /\ rootFile["tool-source-hashes"] = mf.tool.file
       /\ rootFile["tool-source-hashes"].kind = "tool"
       /\ rootFile["genesis-report"] = mf.aggregate.record
       /\ rootFile["genesis-report"] = mf.aggregate.file
       /\ rootFile["genesis-report"] = Aggregate(r, m)
       /\ rootFile["genesis-report"].kind = "aggregate"
       /\ \A i \in Reports :
            /\ reportFile[i] = mf.cases[i].record
            /\ reportFile[i] = mf.cases[i].file
            /\ reportFile[i].kind = "case" /\ reportFile[i].id = i
            /\ Matches(reportFile[i].observed) /\ reportFile[i].passed
  BY <1>4, <1>5, <1>6, <1>7, <1>8
<1> QED BY <1>9, <1>10 DEF mf, m, r

\* A verification that was not disturbed and finds the tree standing goes on.
LEMMA StandingIsNotRefused ==
    ASSUME EvidenceInv, OwnedTree, Stands, CheckStep, calm \/ check.pc = "idle",
           check' = Empty("fail")
    PROVE  FALSE
<1> DEFINE m == run[owner]
           mf == Manifest(owner, m)
<1>1. /\ rootFile["manifest"] = mf /\ mf.kind = "manifest" /\ Complete
      /\ rootFile["tool-source-hashes"] = mf.tool.record
      /\ rootFile["tool-source-hashes"] = mf.tool.file
      /\ rootFile["tool-source-hashes"].kind = "tool"
      /\ rootFile["genesis-report"] = mf.aggregate.record
      /\ rootFile["genesis-report"] = mf.aggregate.file
      /\ rootFile["genesis-report"] = Aggregate(owner, m)
      /\ rootFile["genesis-report"].kind = "aggregate"
      /\ \A i \in Reports :
           /\ reportFile[i] = mf.cases[i].record
           /\ reportFile[i] = mf.cases[i].file
           /\ reportFile[i].kind = "case" /\ reportFile[i].id = i
           /\ Matches(reportFile[i].observed) /\ reportFile[i].passed
  BY StandsWhole DEF Manifest
<1>2. Checking(check) => check.manifest = mf
  BY <1>1 DEF OwnedTree, CalmReadsOneTree, Checking
<1>3. check \in CheckStates /\ Follows(check) /\ source \in [Sources -> Versions]
  BY DEF EvidenceInv, TypeOK, CheckTypeOK, CheckFollowsManifest, TreeTypeOK
<1>4. /\ Aggregate(owner, m).cases = Summary(m) /\ mf.cases = Summary(m)
      /\ Aggregate(owner, m).status = "pass" /\ Aggregate(owner, m).tool = Tool(m)
      /\ mf.tool.record = Tool(m) /\ Tool(m).sources = source
  BY DEF Aggregate, Manifest, Stands, Tool, ToolRecord
<1>5. Empty("fail").pc = "fail"
  BY DEF Empty
<1> HIDE DEF mf, m
<1>7. CASE ReadManifest
  <2>1. check.pc = "idle" /\ check' = [check EXCEPT !.pc = "directories",
                                                   !.manifest = rootFile["manifest"]]
    BY <1>1, <1>7 DEF ReadManifest, Require
  <2>2. check'.pc = "directories"
    BY <1>3, <2>1 DEF CheckStates
  <2> QED BY <1>5, <2>2
<1>8. CASE ListDirectories
  <2>1. check' = [check EXCEPT !.pc = "caseFile"]
    BY <1>1, <1>8 DEF ListDirectories, Require, Complete
  <2>2. check'.pc = "caseFile"
    BY <1>3, <2>1 DEF CheckStates
  <2> QED BY <1>5, <2>2
<1>9. CASE CheckCaseFile
  <2>1. check.pc = "caseFile" /\ check.at \in Reports /\ check.manifest = mf
    BY <1>2, <1>3, <1>9 DEF CheckCaseFile, Follows, Checking
  <2>2. check' = [check EXCEPT !.pc = "caseRecord"]
    BY <1>1, <1>9, <2>1 DEF CheckCaseFile, Require
  <2>3. check'.pc = "caseRecord"
    BY <1>3, <2>2 DEF CheckStates
  <2> QED BY <1>5, <2>3
<1>10. CASE CheckCaseRecord
  <2> DEFINE content == reportFile[check.at]
             d == Proceed([check EXCEPT !.cases[check.at] = content],
                          NReports, "caseFile", "aggregateFile")
  <2>1. check.pc = "caseRecord" /\ check.at \in Reports /\ check.manifest = mf
    BY <1>2, <1>3, <1>10 DEF CheckCaseRecord, Follows, Checking
  <2>2. check' = d
    BY <1>1, <1>10, <2>1 DEF CheckCaseRecord, Require
  <2>3. d.pc \in {"caseFile", "aggregateFile"}
    BY <1>3 DEF CheckStates, Proceed
  <2> QED BY <1>5, <2>2, <2>3
<1>11. CASE CheckAggregateFile
  <2>1. check.manifest = mf
    BY <1>2, <1>11 DEF CheckAggregateFile, Checking
  <2>2. check' = [check EXCEPT !.pc = "aggregateRecord"]
    BY <1>1, <1>11, <2>1 DEF CheckAggregateFile, Require
  <2>3. check'.pc = "aggregateRecord"
    BY <1>3, <2>2 DEF CheckStates
  <2> QED BY <1>5, <2>3
<1>12. CASE CheckAggregateRecord
  <2> DEFINE content == rootFile["genesis-report"]
             cases == [i \in Reports |->
                         [record |-> check.cases[i], file |-> check.manifest.cases[i].file]]
  <2>1. check.manifest = mf /\ check.pc = "aggregateRecord"
    BY <1>2, <1>12 DEF CheckAggregateRecord, Checking
  <2>2. \A i \in Reports : check.cases[i] = mf.cases[i].record
    BY <1>3, <2>1 DEF Follows, CaseChecked, Checking
  <2>3. \A i \in Reports :
          mf.cases[i].record = m.records[i] /\ mf.cases[i].file = m.files[i]
    BY <1>4 DEF Summary
  <2>4. cases = Summary(m)
    BY <2>1, <2>2, <2>3 DEF Summary
  <2>5. content.cases = cases /\ content.status = "pass"
    BY <1>1, <1>4, <2>4
  <2>6. check' = [check EXCEPT !.pc = "toolFile", !.aggregate = content]
    <3>1. content.kind = "aggregate" /\ content = check.manifest.aggregate.record
      BY <1>1, <2>1
    <3>2. Require(/\ content.kind = "aggregate"
                  /\ content = check.manifest.aggregate.record
                  /\ content.status = "pass"
                  /\ content.cases = cases,
                  [check EXCEPT !.pc = "toolFile", !.aggregate = content])
      BY <1>12 DEF CheckAggregateRecord
    <3> HIDE DEF content, cases
    <3> QED BY <2>5, <3>1, <3>2 DEF Require
  <2>7. check'.pc = "toolFile"
    BY <1>3, <2>6 DEF CheckStates
  <2> QED BY <1>5, <2>7
<1>13. CASE CheckToolFile
  <2>1. check.manifest = mf
    BY <1>2, <1>13 DEF CheckToolFile, Checking
  <2>2. check' = [check EXCEPT !.pc = "toolRecord"]
    BY <1>1, <1>13, <2>1 DEF CheckToolFile, Require
  <2>3. check'.pc = "toolRecord"
    BY <1>3, <2>2 DEF CheckStates
  <2> QED BY <1>5, <2>3
<1>14. CASE CheckToolRecord
  <2>1. check.manifest = mf /\ check.aggregate = mf.aggregate.record
    BY <1>2, <1>3, <1>14 DEF CheckToolRecord, Checking, Follows
  <2>2. check.aggregate.tool = rootFile["tool-source-hashes"]
    <3>1. mf.aggregate.record = Aggregate(owner, m)
      BY <1>1
    <3>2. rootFile["tool-source-hashes"] = Tool(m)
      BY <1>1, <1>4
    <3> QED BY <1>4, <2>1, <3>1, <3>2
  <2>3. check' = [check EXCEPT !.pc = "source",
                               !.tool = rootFile["tool-source-hashes"]]
    <3> DEFINE content == rootFile["tool-source-hashes"]
    <3>1. content.kind = "tool" /\ content = check.manifest.tool.record
      BY <1>1, <2>1
    <3>2. Require(content.kind = "tool" /\ content = check.manifest.tool.record
                    /\ check.aggregate.tool = content,
                  [check EXCEPT !.pc = "source", !.tool = content])
      BY <1>14 DEF CheckToolRecord
    <3> HIDE DEF content
    <3> QED BY <2>2, <3>1, <3>2 DEF Require, content
  <2>4. check'.pc = "source"
    BY <1>3, <2>3 DEF CheckStates
  <2> QED BY <1>5, <2>4
<1>15. CASE CheckSource
  <2>1. check.manifest = mf /\ check.tool = mf.tool.record
    BY <1>2, <1>3, <1>15 DEF CheckSource, Checking, Follows
  <2>2. check' = Proceed(check, NSources, "source", "pass")
    BY <1>4, <1>15, <2>1 DEF CheckSource, Require
  <2>3. check'.pc \in {"source", "pass"}
    BY <1>3, <2>2 DEF CheckStates, Proceed
  <2> QED BY <1>5, <2>3
<1> QED BY <1>7, <1>8, <1>9, <1>10, <1>11, <1>12, <1>13, <1>14, <1>15
        DEF CheckStep, Verify

\* A step of the verification: it leaves the tree, and refuses no standing one.
LEMMA VerifierKeepsTree ==
    ASSUME EvidenceInv, OwnedTree, VerifierStep
    PROVE  OwnedTree'
<1>0. /\ UNCHANGED <<source, binary, reportFile, rootFile, run, owner>>
      /\ CheckStep /\ (calm' <=> calm \/ check.pc = "idle")
      /\ check \in CheckStates
  BY DEF VerifierStep, CheckStep, treeVars, runVars, EvidenceInv, TypeOK, CheckTypeOK
<1>1. /\ \A r \in Runs : RecordsNameTheirCase(run'[r])
      /\ OneAtATime' /\ OwnersOwn' /\ StaleIsIncomplete' /\ AggregateIsOwners'
  BY <1>0 DEF OwnedTree, OneAtATime, OwnersOwn, StaleIsIncomplete, AggregateIsOwners,
              Active, Ended, Complete
<1>2. /\ Stands' <=> Stands
      /\ Complete' <=> Complete
  BY <1>0 DEF Stands, Complete
<1>3. CASE check' = Empty("fail")
  <2>1. check'.pc = "fail"
    BY <1>3 DEF Empty
  <2>2. calm' => ~ Stands
    BY <1>0, <1>3, StandingIsNotRefused
  <2> QED BY <1>1, <1>2, <2>1, <2>2 DEF OwnedTree, CalmReadsOneTree, Checking
<1>4. CASE check' # Empty("fail")
  <2>1. CASE ReadManifest
    <3>1. check' = [check EXCEPT !.pc = "directories", !.manifest = rootFile["manifest"]]
      BY <1>4, <2>1 DEF ReadManifest, Require
    <3>2. check'.pc = "directories" /\ check'.manifest = rootFile["manifest"]
      BY <1>0, <3>1 DEF CheckStates
    <3> QED BY <1>0, <1>1, <3>2 DEF OwnedTree, CalmReadsOneTree
  <2>2. CASE Verify
    <3>1. check.pc \notin {"idle", "fail"}
      BY <2>2 DEF Verify, ListDirectories, CheckCaseFile, CheckCaseRecord, CheckAggregateFile,
                  CheckAggregateRecord, CheckToolFile, CheckToolRecord, CheckSource
    <3>2. check.pc = "directories" => Complete
      BY <1>4, <2>2 DEF Verify, ListDirectories, CheckCaseFile, CheckCaseRecord,
                        CheckAggregateFile, CheckAggregateRecord, CheckToolFile,
                        CheckToolRecord, CheckSource, Require, Complete
    <3>3. check'.manifest = check.manifest /\ check'.pc \notin {"idle", "fail"}
      <4>1. CASE ListDirectories
        BY <1>0, <1>4, <4>1 DEF ListDirectories, Require, CheckStates
      <4>2. CASE CheckCaseFile
        BY <1>0, <1>4, <4>2 DEF CheckCaseFile, Require, CheckStates
      <4>3. CASE CheckCaseRecord
        BY <1>0, <1>4, <4>3 DEF CheckCaseRecord, Require, CheckStates, Proceed
      <4>4. CASE CheckAggregateFile
        BY <1>0, <1>4, <4>4 DEF CheckAggregateFile, Require, CheckStates
      <4>5. CASE CheckAggregateRecord
        BY <1>0, <1>4, <4>5 DEF CheckAggregateRecord, Require, CheckStates
      <4>6. CASE CheckToolFile
        BY <1>0, <1>4, <4>6 DEF CheckToolFile, Require, CheckStates
      <4>7. CASE CheckToolRecord
        BY <1>0, <1>4, <4>7 DEF CheckToolRecord, Require, CheckStates
      <4>8. CASE CheckSource
        BY <1>0, <1>4, <4>8 DEF CheckSource, Require, CheckStates, Proceed
      <4> QED BY <2>2, <4>1, <4>2, <4>3, <4>4, <4>5, <4>6, <4>7, <4>8 DEF Verify
    <3>4. calm' => calm
      BY <1>0, <3>1
    <3>5. calm => check.manifest = rootFile["manifest"]
                  /\ (check.pc # "directories" => Complete)
      BY <3>1 DEF OwnedTree, CalmReadsOneTree, Checking
    <3> QED BY <1>0, <1>1, <1>2, <3>2, <3>3, <3>4, <3>5 DEF OwnedTree, CalmReadsOneTree
  <2> QED BY <1>0, <2>1, <2>2 DEF CheckStep
<1> QED BY <1>3, <1>4

\* Every step, when no run starts while another is under way.
LEMMA TreeNext ==
    ASSUME Exclusive, EvidenceInv, OwnedTree, [Next]_vars
    PROVE  OwnedTree'
<1>1. ASSUME NEW s \in Sources, Edit(s) PROVE OwnedTree'
  <2>1. UNCHANGED <<reportFile, rootFile, run, owner>> /\ calm' = FALSE
    BY <1>1 DEF Edit, runVars
  <2> QED BY <2>1 DEF OwnedTree, OneAtATime, OwnersOwn, StaleIsIncomplete, AggregateIsOwners,
                      CalmReadsOneTree, Active, Ended, Complete
<1>2. ASSUME NEW r \in Runs, RunnerStep(r) PROVE OwnedTree'
  <2>1. calm' = FALSE /\ RunStep(r)
    BY <1>2 DEF RunnerStep, Beside
  <2> QED BY <2>1, ClearingStep, CaseStep, RootStep DEF RunStep, Work
<1>3. ASSUME VerifierStep PROVE OwnedTree'
  BY <1>3, VerifierKeepsTree
<1>4. ASSUME UNCHANGED vars PROVE OwnedTree'
  <2>1. UNCHANGED <<source, reportFile, rootFile, run, owner, check, calm>>
    BY <1>4 DEF vars, treeVars, runVars
  <2> QED BY <2>1 DEF OwnedTree, OneAtATime, OwnersOwn, StaleIsIncomplete, AggregateIsOwners,
                      CalmReadsOneTree, Active, Ended, Complete, Stands
<1> QED BY <1>1, <1>2, <1>3, <1>4 DEF Next

\* A checkout with no evidence is no one's.
LEMMA TreeInitially == Init => OwnedTree
<1> SUFFICES ASSUME Init PROVE OwnedTree
  OBVIOUS
<1>1. /\ \A r \in Runs : run[r] = Blank("idle") /\ run[r].pc = "idle"
      /\ rootFile["manifest"] = Missing /\ calm = FALSE /\ ~ Complete
  BY DEF Init, RunInit, TreeInit, Blank, RootFiles, Complete
<1>2. \A r \in Runs : RecordsNameTheirCase(run[r]) /\ ~ Active(r) /\ ~ Cleared(run[r])
  <2>1. RecordsNameTheirCase(Blank("idle"))
    BY DEF RecordsNameTheirCase, Blank
  <2> QED BY <1>1, <2>1 DEF Active, Ended, Cleared
<1>3. Missing \notin ManifestRecords
  BY KindsDiffer
<1> QED BY <1>1, <1>2, <1>3 DEF OwnedTree, OneAtATime, OwnersOwn, StaleIsIncomplete,
                                AggregateIsOwners, CalmReadsOneTree

-----------------------------------------------------------------------------
(* What was not whole when a verification began is not accepted. *)

\* A step of run r changes the local state of r alone, is not one of a run that
\* is done, gives the tree to no one else, and leaves no aggregate of another.
LEMMA RunStepMoves ==
    ASSUME EvidenceInv, OwnedTree, NEW r \in Runs, RunStep(r)
    PROVE  /\ run[r].pc # "done" /\ owner' \in {owner, r}
           /\ \E n : run' = [run EXCEPT ![r] = n]
           /\ run'[r].pc = "done" => owner = r /\ owner' = r
           /\ LET content == rootFile'["genesis-report"]
              IN  content = rootFile["genesis-report"] \/ NotOfOther(content, r)
<1>0. run \in [Runs -> RunStates] /\ run[r] \in RunStates /\ Filled(run[r]) /\ TreeTypeOK
  BY DEF EvidenceInv, TypeOK, RunTypeOK, MemoryFills
<1>a. NotOfOther(Missing, r) /\ NotOfOther(Torn(r), r) /\ NotOfOther(Aggregate(r, run[r]), r)
  BY DEF NotOfOther, Missing, Torn, Aggregate
<1>1. CASE Start(r)
  BY <1>0, <1>1 DEF Start, treeVars, RunStates
<1>2. CASE RemoveFile(r)
  <2>1. run[r].pc = "clean" /\ owner' = r /\ run' = [run EXCEPT ![r] = run[r]]
    BY <1>0, <1>2 DEF RemoveFile
  <2>2. \/ rootFile' = rootFile
        \/ \E f \in RootFiles : rootFile' = [rootFile EXCEPT ![f] = Missing]
    BY <1>2 DEF RemoveFile
  <2>3. \/ rootFile'["genesis-report"] = rootFile["genesis-report"]
        \/ rootFile'["genesis-report"] = Missing
    BY <1>0, <2>2 DEF TreeTypeOK, RootFiles
  <2>4. run'[r].pc # "done"
    BY <1>0, <2>1
  <2> QED BY <2>1, <2>3, <2>4, <1>a
<1>3. CASE Prepare(r)
  BY <1>0, <1>3 DEF Prepare, RunStates
<1>4. CASE Compile(r)
  <2> DEFINE n == Advance(run[r], NSources, "compile", "execute")
  <2>1. /\ run[r].pc = "compile" /\ run' = [run EXCEPT ![r] = n]
        /\ rootFile' = rootFile /\ owner' = owner
    BY <1>4 DEF Compile
  <2>2. n.pc # "done"
    BY <1>0 DEF Advance, Jump, RunStates
  <2> HIDE DEF n
  <2> QED BY <1>0, <2>1, <2>2
<1>5. CASE Execute(r)
  <2>1. /\ run[r].pc = "execute" /\ rootFile' = rootFile /\ owner' = owner
        /\ run' = [run EXCEPT ![r].pc = "open",
                     ![r].records[run[r].at] = CaseRecord(run[r].at, binary[Backend[run[r].at]])]
    BY <1>5 DEF Execute, treeVars
  <2> QED BY <1>0, <2>1 DEF RunStates
<1>6. CASE OpenReport(r) \/ WriteReport(r)
  BY <1>0, <1>6 DEF OpenReport, WriteReport, RunStates
<1>7. CASE DigestReport(r)
  <2> DEFINE n == Advance([run[r] EXCEPT !.files[run[r].at] = reportFile[run[r].at]],
                          NReports, "execute", "hash")
  <2>1. /\ run[r].pc = "digest" /\ run' = [run EXCEPT ![r] = n]
        /\ rootFile' = rootFile /\ owner' = owner
    BY <1>7 DEF DigestReport, treeVars
  <2>2. n.pc # "done"
    BY <1>0 DEF Advance, Jump, RunStates
  <2> HIDE DEF n
  <2> QED BY <1>0, <2>1, <2>2
<1>8. CASE HashSource(r)
  <2> DEFINE n == Advance([run[r] EXCEPT !.hashed[run[r].at] = source[run[r].at]],
                          NSources, "hash", "rootOpen")
  <2>1. /\ run[r].pc = "hash" /\ run' = [run EXCEPT ![r] = n]
        /\ rootFile' = rootFile /\ owner' = owner
    BY <1>8 DEF HashSource, treeVars
  <2>2. n.pc # "done"
    BY <1>0 DEF Advance, Jump, RunStates
  <2> HIDE DEF n
  <2> QED BY <1>0, <2>1, <2>2
<1>9. CASE OpenRootFile(r)
  <2>1. /\ run[r].pc = "rootOpen" /\ run' = [run EXCEPT ![r].pc = "rootWrite"]
        /\ owner' = owner /\ \E f : rootFile' = [rootFile EXCEPT ![f] = Torn(r)]
    BY <1>9 DEF OpenRootFile
  <2>2. \/ rootFile'["genesis-report"] = rootFile["genesis-report"]
        \/ rootFile'["genesis-report"] = Torn(r)
    BY <1>0, <2>1 DEF TreeTypeOK, RootFiles
  <2>3. run'[r].pc = "rootWrite" /\ \E n : run' = [run EXCEPT ![r] = n]
    BY <1>0, <2>1 DEF RunStates
  <2> QED BY <1>a, <2>1, <2>2, <2>3
<1>10. CASE WriteRootFile(r)
  <2> DEFINE f == RootOrder[run[r].at]
             n == AfterRootWrite(run[r])
  <2>1. /\ run[r].pc = "rootWrite" /\ owner' = owner /\ run' = [run EXCEPT ![r] = n]
        /\ \E c \in Written(rootFile[f], r, RootRecord(r, f)) :
             rootFile' = [rootFile EXCEPT ![f] = c]
    BY <1>10 DEF WriteRootFile
  <2>2. owner = r
    BY <2>1, OwnerIsActive
  <2>3. \/ rootFile'["genesis-report"] = rootFile["genesis-report"]
        \/ rootFile'["genesis-report"] \in {Missing, Torn(r), RootRecord(r, "genesis-report")}
    <3>1. PICK c \in Written(rootFile[f], r, RootRecord(r, f)) :
            rootFile' = [rootFile EXCEPT ![f] = c]
      BY <2>1
    <3>2. c \in {Missing, Torn(r), RootRecord(r, f), rootFile[f]}
      BY DEF Written
    <3> HIDE DEF f
    <3>3. "genesis-report" \in RootFiles /\ rootFile = [g \in RootFiles |-> rootFile[g]]
      BY <1>0 DEF TreeTypeOK, RootFiles
    <3>4. CASE f = "genesis-report"
      BY <3>1, <3>2, <3>3, <3>4
    <3>5. CASE f # "genesis-report"
      BY <3>1, <3>3, <3>5
    <3> QED BY <3>4, <3>5
  <2>4. RootRecord(r, "genesis-report") = Aggregate(r, run[r])
    BY DEF RootRecord
  <2> HIDE DEF n, f
  <2> QED BY <1>a, <2>1, <2>2, <2>3, <2>4
<1>11. CASE BindAggregate(r) \/ BindTool(r)
  BY <1>0, <1>11 DEF BindAggregate, BindTool, treeVars, RunStates
<1>12. CASE Throw(r) \/ Kill(r)
  BY <1>0, <1>12 DEF Throw, Kill, Die, Blank, treeVars, Active, Ended
<1> QED BY <1>1, <1>2, <1>3, <1>4, <1>5, <1>6, <1>7, <1>8, <1>9, <1>10, <1>11, <1>12
        DEF RunStep, Work

\* The evidence of a run that is done and owns the tree is whole.
LEMMA DoneIsWhole ==
    ASSUME EvidenceInv, OwnedTree, NEW r \in Runs, owner = r, run[r].pc = "done"
    PROVE  Complete /\ Whole = r
<1> DEFINE m == run[r]
<1>1. m \in RunStates /\ Filled(m) /\ Owns(r, m, reportFile, rootFile)
  BY DEF EvidenceInv, TypeOK, RunTypeOK, MemoryFills, OwnedTree, OwnersOwn, Cleared
<1>2. \A i \in Reports : m.records[i] \in CaseRecords
  BY <1>1 DEF Filled, Closing
<1>3. /\ rootFile["manifest"] = Manifest(r, m)
      /\ rootFile["tool-source-hashes"] = Tool(m)
      /\ rootFile["genesis-report"] = Aggregate(r, m)
      /\ \A i \in Reports : reportFile[i] = m.records[i]
  BY <1>1 DEF Owns, CaseWritten, CaseBound, RootWritten, ManifestDue, Closing
<1>4. /\ Manifest(r, m).kind = "manifest" /\ Manifest(r, m).aggregate.record.run = r
      /\ Tool(m).kind = "tool" /\ Aggregate(r, m).kind = "aggregate"
  BY DEF Manifest, Tool, ToolRecord, Aggregate
<1>5. \A f \in RootFiles : rootFile[f].kind # "missing"
  BY <1>3, <1>4 DEF RootFiles
<1>6. \A i \in Reports : reportFile[i].kind # "missing"
  BY <1>2, <1>3 DEF CaseRecords, CaseRecord
<1>7. Complete
  BY <1>5, <1>6 DEF Complete, Missing
<1> QED BY <1>3, <1>4, <1>7 DEF Whole

StoreHoldsOwners ==
    Whole = IF owner \in Runs /\ run[owner].pc = "done" THEN owner ELSE NoRun

\* Whole evidence is that of the owner, once it is done.
LEMMA WholeIsOwners == EvidenceInv /\ OwnedTree => StoreHoldsOwners
<1> SUFFICES ASSUME EvidenceInv, OwnedTree PROVE StoreHoldsOwners
  OBVIOUS
<1>1. CASE owner \in Runs /\ run[owner].pc = "done"
  BY <1>1, DoneIsWhole DEF StoreHoldsOwners
<1>2. CASE ~ (owner \in Runs /\ run[owner].pc = "done")
  <2> SUFFICES ASSUME rootFile["manifest"].kind = "manifest", Complete PROVE FALSE
    BY <1>2 DEF Whole, StoreHoldsOwners
  <2>1. rootFile["manifest"] \in ManifestRecords
    BY RootContentsOf, KindsDiffer DEF EvidenceInv, TypeOK, TreeTypeOK, RootFiles
  <2>2. rootFile["manifest"].aggregate.record.run = owner
    BY <2>1 DEF OwnedTree, StaleIsIncomplete
  <2> QED BY <1>2, <2>1, <2>2 DEF EvidenceInv, ManifestsAreWhole, IsManifestOfRun
<1> QED BY <1>1, <1>2

\* A verification that has started goes on with its manifest, to the next phase
\* if the check passes, and refuses otherwise.
LEMMA VerifyMoves ==
    ASSUME EvidenceInv, Verify, UNCHANGED treeVars
    PROVE  /\ Checking(check) /\ check.pc # "pass"
           /\ \/ check' = Empty("fail")
              \/ /\ check'.manifest = check.manifest
                 /\ check'.pc \notin {"idle", "fail"}
                 /\ check.pc = "directories" => Complete
                 /\ check.pc = "aggregateRecord" =>
                      /\ rootFile["genesis-report"].kind = "aggregate"
                      /\ rootFile["genesis-report"] = check.manifest.aggregate.record
                 /\ check.pc \in {"directories", "caseFile", "caseRecord",
                                  "aggregateFile", "aggregateRecord"} =>
                      check'.pc \in {"caseFile", "caseRecord", "aggregateFile",
                                     "aggregateRecord", "toolFile"}
                 /\ check'.pc = "toolFile" => check.pc = "aggregateRecord"
<1>0. check \in CheckStates
  BY DEF EvidenceInv, TypeOK, CheckTypeOK
<1>1. CASE ListDirectories
  BY <1>0, <1>1 DEF ListDirectories, Require, CheckStates, Checking, Complete
<1>2. CASE CheckCaseFile
  BY <1>0, <1>2 DEF CheckCaseFile, Require, CheckStates, Checking
<1>3. CASE CheckCaseRecord
  BY <1>0, <1>3 DEF CheckCaseRecord, Require, CheckStates, Proceed, Checking
<1>4. CASE CheckAggregateFile
  BY <1>0, <1>4 DEF CheckAggregateFile, Require, CheckStates, Checking
<1>5. CASE CheckAggregateRecord
  BY <1>0, <1>5 DEF CheckAggregateRecord, Require, CheckStates, Checking
<1>6. CASE CheckToolFile
  BY <1>0, <1>6 DEF CheckToolFile, Require, CheckStates, Checking
<1>7. CASE CheckToolRecord
  BY <1>0, <1>7 DEF CheckToolRecord, Require, CheckStates, Checking
<1>8. CASE CheckSource
  BY <1>0, <1>8 DEF CheckSource, Require, CheckStates, Proceed, Checking
<1> QED BY <1>1, <1>2, <1>3, <1>4, <1>5, <1>6, <1>7, <1>8 DEF Verify

\* No run makes good what a verification that began too late will miss.
LEMMA LateBesideRun ==
    ASSUME EvidenceInv, OwnedTree, OwnedTree', LateIsDoomed,
           NEW o \in Runs, RunStep(o), UNCHANGED check, UNCHANGED stood
    PROVE  LateIsDoomed'
<1> DEFINE r == check.manifest.aggregate.record.run
           content == rootFile["genesis-report"]
<1> SUFFICES ASSUME Checking(check), r # stood
             PROVE  /\ r # owner'
                    /\ check.pc \in {"directories", "caseFile", "caseRecord",
                                     "aggregateFile", "aggregateRecord"}
                    /\ \/ check.pc = "directories" /\ ~ Complete'
                       \/ content'.kind # "aggregate"
                       \/ content'.run # r
  BY DEF LateIsDoomed
<1>1. /\ r # owner
      /\ check.pc \in {"directories", "caseFile", "caseRecord",
                       "aggregateFile", "aggregateRecord"}
      /\ \/ check.pc = "directories" /\ ~ Complete
         \/ content.kind # "aggregate"
         \/ content.run # r
  BY DEF LateIsDoomed
<1>2. r \in Runs /\ run[r].pc = "done"
  BY DEF EvidenceInv, ManifestsAreWhole, IsManifestOfRun
<1>3. /\ o # r /\ owner' \in {owner, o}
      /\ content' = content \/ NotOfOther(content', o)
  BY <1>2, RunStepMoves
<1>4. r # owner'
  BY <1>1, <1>3
<1> HIDE DEF r, content
<1>5. CASE Complete'
  <2>1. content'.kind = "aggregate" => content'.run = owner'
    BY <1>5 DEF OwnedTree, AggregateIsOwners, NotOfOther, content
  <2> QED BY <1>1, <1>4, <2>1
<1>6. CASE ~ Complete'
  <2>1. CASE check.pc = "directories"
    BY <1>4, <1>6, <2>1
  <2>2. CASE check.pc # "directories"
    <3>1. content.kind # "aggregate" \/ content.run # r
      BY <1>1, <2>2
    <3>2. content'.kind # "aggregate" \/ content'.run # r
      BY <1>3, <3>1 DEF NotOfOther
    <3> QED BY <1>1, <1>4, <3>2
  <2> QED BY <2>1, <2>2
<1> QED BY <1>5, <1>6

\* A verification begins too late, or not, and meets what it misses.
LEMMA LateVerifies ==
    ASSUME EvidenceInv, EvidenceInv', OwnedTree, LateIsDoomed, VerifierStep
    PROVE  LateIsDoomed'
<1>0. /\ UNCHANGED <<source, binary, reportFile, rootFile, run, owner>>
      /\ CheckStep /\ check \in CheckStates
      /\ stood' = IF check.pc = "idle" THEN Whole ELSE stood
      /\ UNCHANGED treeVars
  BY DEF VerifierStep, CheckStep, treeVars, runVars, EvidenceInv, TypeOK, CheckTypeOK
<1>1. Complete' <=> Complete
  BY <1>0 DEF Complete
<1>2. CASE check' = Empty("fail")
  BY <1>2 DEF LateIsDoomed, Checking, Empty
<1>3. CASE ReadManifest /\ check' # Empty("fail")
  <2> DEFINE r == rootFile["manifest"].aggregate.record.run
  <2>1. /\ check' = [check EXCEPT !.pc = "directories", !.manifest = rootFile["manifest"]]
        /\ rootFile["manifest"].kind = "manifest" /\ check.pc = "idle"
    BY <1>3 DEF ReadManifest, Require
  <2>2. check'.pc = "directories" /\ check'.manifest = rootFile["manifest"]
    BY <1>0, <2>1 DEF CheckStates
  <2>3. r \in Runs /\ run[r].pc = "done"
    BY <1>0, <2>2 DEF EvidenceInv, ManifestsAreWhole, IsManifestOfRun, Checking
  <2>4. stood' = IF Complete THEN r ELSE NoRun
    BY <1>0, <2>1 DEF Whole
  <2>5. r = owner => Complete
    BY <2>3, DoneIsWhole
  <2> QED BY <1>0, <1>1, <2>2, <2>4, <2>5 DEF LateIsDoomed
<1>4. CASE Verify /\ check' # Empty("fail")
  <2> DEFINE r == check.manifest.aggregate.record.run
             content == rootFile["genesis-report"]
  <2>1. /\ Checking(check) /\ check.pc \notin {"pass", "idle"}
        /\ check'.manifest = check.manifest
        /\ check.pc = "directories" => Complete
        /\ check.pc = "aggregateRecord" => content.kind = "aggregate" /\ content.run = r
        /\ check.pc \in {"directories", "caseFile", "caseRecord",
                         "aggregateFile", "aggregateRecord"} =>
             check'.pc \in {"caseFile", "caseRecord", "aggregateFile",
                            "aggregateRecord", "toolFile"}
        /\ check'.pc = "toolFile" => check.pc = "aggregateRecord"
    BY <1>0, <1>4, VerifyMoves DEF Checking
  <2>2. stood' = stood
    BY <1>0, <2>1
  <2>3. AggregateIsOwners
    BY DEF OwnedTree
  <2> SUFFICES ASSUME r # stood
               PROVE  /\ r # owner
                      /\ check'.pc \in {"directories", "caseFile", "caseRecord",
                                        "aggregateFile", "aggregateRecord"}
                      /\ content.kind # "aggregate" \/ content.run # r
    BY <1>0, <2>1, <2>2 DEF LateIsDoomed
  <2>4. /\ r # owner
        /\ check.pc \in {"directories", "caseFile", "caseRecord",
                         "aggregateFile", "aggregateRecord"}
        /\ \/ check.pc = "directories" /\ ~ Complete
           \/ content.kind # "aggregate"
           \/ content.run # r
    BY <2>1 DEF LateIsDoomed
  <2> HIDE DEF r, content
  <2>5. content.kind # "aggregate" \/ content.run # r
    BY <2>1, <2>4
  <2>6. check.pc # "aggregateRecord"
    BY <2>1, <2>5
  <2> QED BY <2>1, <2>4, <2>5, <2>6
<1> QED BY <1>0, <1>2, <1>3, <1>4 DEF CheckStep

LEMMA LateNext ==
    ASSUME EvidenceInv, EvidenceInv', OwnedTree, OwnedTree', LateIsDoomed, [Next]_vars
    PROVE  LateIsDoomed'
<1>1. ASSUME NEW s \in Sources, Edit(s) PROVE LateIsDoomed'
  <2>1. UNCHANGED <<reportFile, rootFile, owner, check, stood>>
    BY <1>1 DEF Edit, runVars
  <2> QED BY <2>1 DEF LateIsDoomed, Complete
<1>2. ASSUME NEW r \in Runs, RunnerStep(r) PROVE LateIsDoomed'
  BY <1>2, LateBesideRun DEF RunnerStep, Beside
<1>3. ASSUME VerifierStep PROVE LateIsDoomed'
  BY <1>3, LateVerifies
<1>4. ASSUME UNCHANGED vars PROVE LateIsDoomed'
  <2>1. UNCHANGED <<reportFile, rootFile, owner, check, stood>>
    BY <1>4 DEF vars, treeVars, runVars
  <2> QED BY <2>1 DEF LateIsDoomed, Complete
<1> QED BY <1>1, <1>2, <1>3, <1>4 DEF Next

-----------------------------------------------------------------------------
(* The theorems when runs do not overlap. *)

\* When runs do not overlap, the files are those of the run that cleared the
\* tree last, whatever runs died and whatever was edited, and a verification
\* that began when they were not whole will be refused.
THEOREM OneRunOwnsTheTree ==
    ASSUME Exclusive PROVE Spec => []TreeIsOwned
<1>1. EvidenceInv /\ OwnedTree /\ [Next]_vars => OwnedTree'
  BY TreeNext
<1>2. Spec => [](EvidenceInv /\ OwnedTree)
  BY <1>1, TreeInitially, EvidenceInvariant, PTL DEF Spec
<1>3. Init => LateIsDoomed
  BY DEF Init, CheckInit, Empty, LateIsDoomed, Checking
<1>4. EvidenceInv /\ EvidenceInv' /\ OwnedTree /\ OwnedTree' /\ LateIsDoomed /\ [Next]_vars
        => LateIsDoomed'
  BY LateNext
<1>5. OwnedTree /\ LateIsDoomed => TreeIsOwned
  BY DEF TreeIsOwned
<1> QED BY <1>2, <1>3, <1>4, <1>5, PTL DEF Spec

\* What is accepted is what stood when the verification began.
LEMMA AcceptedStood == EvidenceInv /\ TreeIsOwned => NoStaleAcceptance
<1> SUFFICES ASSUME EvidenceInv, TreeIsOwned, Passed
             PROVE  check.aggregate.run = stood
  BY DEF NoStaleAcceptance
<1>1. Checking(check) /\ check.pc = "pass"
  BY DEF Passed, Checking
<1>2. check.manifest.aggregate.record.run = stood
  BY <1>1 DEF TreeIsOwned, LateIsDoomed
<1>3. check.aggregate = check.manifest.aggregate.record
  BY <1>1 DEF EvidenceInv, CheckFollowsManifest, Follows
<1> QED BY <1>2, <1>3

\* When runs do not overlap, what a verification accepts stood whole when it
\* began, whatever a run, an edit or a death does to the tree while it reads.
THEOREM StaleIsNotAccepted ==
    ASSUME Exclusive PROVE Spec => []NoStaleAcceptance
BY AcceptedStood, EvidenceInvariant, OneRunOwnsTheTree, PTL

\* When runs do not overlap, a verification that nothing disturbs refuses no
\* evidence of a run that ended, passed, and hashed the sources as they are.
THEOREM StandingIsAccepted ==
    ASSUME Exclusive PROVE Spec => []NoFalseAlarm
<1>1. TreeIsOwned => NoFalseAlarm
  BY DEF TreeIsOwned, OwnedTree, CalmReadsOneTree, NoFalseAlarm, Checking
<1> QED BY <1>1, OneRunOwnsTheTree, PTL

-----------------------------------------------------------------------------
(* The tree is a store. *)

LEMMA StoreInitially == Init => Store!Init
<1> SUFFICES ASSUME Init PROVE Store!Init
  OBVIOUS
<1>1. /\ rootFile["manifest"] = Missing /\ check = Empty("idle") /\ stood = NoRun
      /\ \A r \in Runs : run[r].pc = "idle"
  BY DEF Init, TreeInit, CheckInit, RunInit, RootFiles, Blank
<1>2. Whole = NoRun
  BY <1>1 DEF Whole, Complete, RootFiles
<1>3. Finished = {} /\ Verdict = "none" /\ Accepted = NoRun
  BY <1>1 DEF Finished, Verdict, Accepted, Passed, Empty
<1> QED BY <1>1, <1>2, <1>3 DEF Store!Init

\* A run publishes as it ends, and withdraws what was there as it takes the tree.
LEMMA RunIsStoreStep ==
    ASSUME EvidenceInv, EvidenceInv', OwnedTree, StoreHoldsOwners, StoreHoldsOwners',
           NEW r \in Runs, RunStep(r), UNCHANGED check, UNCHANGED stood
    PROVE  [Store!Next]_<<Whole, Finished, Verdict, stood, Accepted>>
<1>1. UNCHANGED <<Verdict, stood, Accepted>>
  BY DEF Verdict, Accepted, Decided, Passed
<1>2. /\ run \in [Runs -> RunStates] /\ run[r].pc # "done" /\ owner' \in {owner, r}
      /\ run'[r].pc = "done" => owner = r /\ owner' = r
  BY RunStepMoves DEF EvidenceInv, TypeOK, RunTypeOK
<1>3. PICK n : run' = [run EXCEPT ![r] = n]
  BY RunStepMoves
<1>4. run'[r] = n /\ \A o \in Runs : o # r => run'[o] = run[o]
  BY <1>2, <1>3
<1>5. /\ Whole = IF owner \in Runs /\ run[owner].pc = "done" THEN owner ELSE NoRun
      /\ Whole' = IF owner' \in Runs /\ run'[owner'].pc = "done" THEN owner' ELSE NoRun
  BY DEF StoreHoldsOwners
<1>6. CASE n.pc = "done"
  <2>1. Whole = NoRun /\ Whole' = r
    BY <1>2, <1>4, <1>5, <1>6
  <2>2. Finished' = Finished \cup {r} /\ r \notin Finished
    BY <1>2, <1>4, <1>6 DEF Finished
  <2> QED BY <1>1, <2>1, <2>2 DEF Store!Next, Store!Publish
<1>7. CASE n.pc # "done"
  <2>1. Finished' = Finished
    BY <1>2, <1>4, <1>7 DEF Finished
  <2>2. Whole' = Whole \/ Whole' = NoRun
    BY <1>2, <1>4, <1>5, <1>7
  <2> QED BY <1>1, <2>1, <2>2 DEF Store!Next, Store!Withdraw
<1> QED BY <1>6, <1>7

\* A verification begins, refuses, or accepts what stood when it began.
LEMMA VerifierIsStoreStep ==
    ASSUME EvidenceInv, EvidenceInv', NoStaleAcceptance', VerifierStep
    PROVE  [Store!Next]_<<Whole, Finished, Verdict, stood, Accepted>>
<1>0. /\ UNCHANGED <<source, binary, reportFile, rootFile, run, owner>>
      /\ CheckStep /\ check \in CheckStates /\ UNCHANGED treeVars
      /\ stood' = IF check.pc = "idle" THEN Whole ELSE stood
  BY DEF VerifierStep, CheckStep, treeVars, runVars, EvidenceInv, TypeOK, CheckTypeOK
<1>1. UNCHANGED <<Whole, Finished>>
  BY <1>0 DEF Whole, Finished, Complete
<1>2. CASE ReadManifest
  <2>1. check.pc = "idle" /\ check'.pc \in {"directories", "fail"}
    BY <1>0, <1>2 DEF ReadManifest, Require, Empty, CheckStates
  <2>2. Verdict = "none" /\ Verdict' \in {"checking", "fail"}
    BY <2>1 DEF Verdict, Decided
  <2>3. Accepted' = Accepted
    BY <2>1 DEF Accepted, Passed
  <2> QED BY <1>0, <1>1, <2>1, <2>2, <2>3 DEF Store!Next, Store!Begin
<1>3. CASE Verify
  <2>1. /\ check.pc \notin {"idle", "fail", "pass"}
        /\ check'.pc # "idle"
    BY <1>0, <1>3, VerifyMoves DEF Checking, Empty
  <2>2. Verdict = "checking" /\ Accepted = NoRun /\ stood' = stood
    BY <1>0, <2>1 DEF Verdict, Decided, Accepted, Passed
  <2>3. CASE check'.pc = "fail"
    <3>1. Verdict' = "fail" /\ Accepted' = NoRun
      BY <2>3 DEF Verdict, Decided, Accepted, Passed
    <3> QED BY <1>1, <2>2, <3>1 DEF Store!Next, Store!Refuse
  <2>4. CASE check'.pc = "pass"
    <3>1. Verdict' = "pass" /\ Accepted' = check'.aggregate.run
      BY <2>4 DEF Verdict, Decided, Accepted, Passed
    <3>2. check'.aggregate.run = stood'
      BY <2>4 DEF NoStaleAcceptance, Passed
    <3>3. check'.aggregate.run \in Runs
      BY <2>4 DEF EvidenceInv, CheckFollowsManifest, Follows, ManifestsAreWhole,
                  IsManifestOfRun, Checking
    <3>4. stood # NoRun
      BY <2>2, <3>2, <3>3, NoRunAssumption
    <3> QED BY <1>1, <2>2, <3>1, <3>2, <3>4 DEF Store!Next, Store!Accept
  <2>5. CASE check'.pc \notin {"fail", "pass"}
    <3>1. Verdict' = "checking" /\ Accepted' = NoRun
      BY <2>1, <2>5 DEF Verdict, Decided, Accepted, Passed
    <3> QED BY <1>1, <2>2, <3>1
  <2> QED BY <2>3, <2>4, <2>5
<1> QED BY <1>0, <1>2, <1>3 DEF CheckStep

\* When runs do not overlap, the commands, file by file, implement a store in
\* which evidence is published whole and withdrawn whole, and of which a
\* verification accepts at most what it held as the verification began.
THEOREM TreeIsAStore ==
    ASSUME Exclusive PROVE Spec => ImplementsStore
<1>1. ASSUME EvidenceInv, EvidenceInv', TreeIsOwned, NoStaleAcceptance',
             StoreHoldsOwners, StoreHoldsOwners', [Next]_vars
      PROVE  [Store!Next]_<<Whole, Finished, Verdict, stood, Accepted>>
  <2>0. OwnedTree
    BY <1>1 DEF TreeIsOwned
  <2>1. ASSUME NEW s \in Sources, Edit(s)
        PROVE  [Store!Next]_<<Whole, Finished, Verdict, stood, Accepted>>
    <3>1. UNCHANGED <<reportFile, rootFile, run, check, stood>>
      BY <2>1 DEF Edit, runVars
    <3>2. UNCHANGED <<Whole, Finished, Verdict, stood, Accepted>>
      BY <3>1 DEF Whole, Complete, Finished, Verdict, Decided, Accepted, Passed
    <3> QED BY <3>2
  <2>2. ASSUME NEW r \in Runs, RunnerStep(r)
        PROVE  [Store!Next]_<<Whole, Finished, Verdict, stood, Accepted>>
    BY <1>1, <2>0, <2>2, RunIsStoreStep DEF RunnerStep, Beside
  <2>3. ASSUME VerifierStep
        PROVE  [Store!Next]_<<Whole, Finished, Verdict, stood, Accepted>>
    BY <1>1, <2>3, VerifierIsStoreStep
  <2>4. ASSUME UNCHANGED vars
        PROVE  [Store!Next]_<<Whole, Finished, Verdict, stood, Accepted>>
    <3>1. UNCHANGED <<reportFile, rootFile, run, check, stood>>
      BY <2>4 DEF vars, treeVars, runVars
    <3>2. UNCHANGED <<Whole, Finished, Verdict, stood, Accepted>>
      BY <3>1 DEF Whole, Complete, Finished, Verdict, Decided, Accepted, Passed
    <3> QED BY <3>2
  <2> QED BY <1>1, <2>1, <2>2, <2>3, <2>4 DEF Next
<1>2. Spec => Store!Init /\ [][Store!Next]_<<Whole, Finished, Verdict, stood, Accepted>>
  <2>1. EvidenceInv /\ TreeIsOwned => StoreHoldsOwners
    BY WholeIsOwners DEF TreeIsOwned
  <2> QED BY <1>1, <2>1, StoreInitially, EvidenceInvariant, OneRunOwnsTheTree,
             StaleIsNotAccepted, PTL DEF Spec
<1> QED BY <1>2, PTL DEF ImplementsStore, Store!Spec, Store!storeVars

=============================================================================
