------------------------------ MODULE GenesisRuns ------------------------------
(***************************************************************************)
(* tools/run-genesis.mjs as the tools that depend on it see it: processes  *)
(* that clear the artifacts and the evidence, compile the circuits, make a *)
(* witness with each, hash the sources, and write the aggregate and then   *)
(* the manifest.  RunGenesis has the same tool file by file.               *)
(*                                                                         *)
(* Only the two circuits that are proved matter here, each with the one    *)
(* Genesis case whose witness is used; a circuit stands for its case.      *)
(***************************************************************************)
EXTENDS Integers

CONSTANTS
    Runs,       \* processes of just test
    Pipelines,  \* processes of just prove, each of which starts a run of its own
    NCircuits,  \* circuits that are proved, in the order the tools take them
    NVersions,  \* versions an edit may give a circuit
    Right,      \* <<c, v>>: version v of circuit c answers its case as expected
    Kills       \* TRUE: any process may be killed, or crash, at any step

Circuits == 1..NCircuits
Versions == 1..NVersions

ASSUME GenesisAssumption ==
    /\ Runs \cap Pipelines = {}
    /\ NCircuits \in Nat \ {0}
    /\ NVersions \in Nat \ {0}
    /\ Right \in SUBSET (Circuits \X Versions)
    /\ Kills \in BOOLEAN

\* The run a pipeline starts goes by the name of the pipeline.
Runners == Runs \cup Pipelines

VARIABLES
    source,     \* the version of each circuit in the working tree
    r1cs,       \* the version each compiled circuit was made from
    witness,    \* the version of the circuit that made each witness
    aggregate,  \* genesis-report.json
    manifest,   \* manifest.json
    genesis     \* the local state of each run

artifactVars == <<r1cs, witness>>
genesisFiles == <<aggregate, manifest>>
genesisVars == <<source, artifactVars, genesisFiles, genesis>>

NotBuilt == 0
None == [kind |-> "none"]

Aggregates == [kind : {"aggregate"}, run : Runners, passed : BOOLEAN]
Manifests ==
    [kind : {"manifest"}, run : Runners, passed : BOOLEAN,
     sources : [Circuits -> Versions]]

GenesisPhases ==
    {"idle", "clear", "build", "execute", "hash", "aggregate", "manifest",
     "passed", "failed", "dead"}

GenesisStates ==
    [pc : GenesisPhases, at : Circuits, passed : BOOLEAN,
     hashed : [Circuits -> Versions \cup {NotBuilt}]]

GenesisTypeOK ==
    /\ source \in [Circuits -> Versions]
    /\ r1cs \in [Circuits -> Versions \cup {NotBuilt}]
    /\ witness \in [Circuits -> Versions \cup {NotBuilt}]
    /\ aggregate \in Aggregates \cup {None}
    /\ manifest \in Manifests \cup {None}
    /\ genesis \in [Runners -> GenesisStates]
    /\ \A g \in Runners : genesis[g].pc \in {"aggregate", "manifest"} =>
                            genesis[g].hashed \in [Circuits -> Versions]

Fresh(pc) ==
    [pc |-> pc, at |-> 1, passed |-> TRUE, hashed |-> [c \in Circuits |-> NotBuilt]]

GenesisInit ==
    /\ source = [c \in Circuits |-> 1]
    /\ r1cs = [c \in Circuits |-> NotBuilt]
    /\ witness = [c \in Circuits |-> NotBuilt]
    /\ aggregate = None
    /\ manifest = None
    /\ genesis = [g \in Runners |-> Fresh("idle")]

GenesisEnded(g) == genesis[g].pc \in {"passed", "failed", "dead"}
GenesisActive(g) == genesis[g].pc # "idle" /\ ~ GenesisEnded(g)

-----------------------------------------------------------------------------

\* To the next circuit of a loop at phase pc, or to the phase after it.
NextCircuit(m, pc, after) ==
    IF m.at < NCircuits THEN [m EXCEPT !.pc = pc, !.at = @ + 1]
                        ELSE [m EXCEPT !.pc = after, !.at = 1]

ClearReports(g) ==
    /\ genesis[g].pc = "clear"
    /\ \/ aggregate # None /\ aggregate' = None /\ UNCHANGED manifest
       \/ manifest # None /\ manifest' = None /\ UNCHANGED aggregate
    /\ UNCHANGED <<source, artifactVars, genesis>>

ClearArtifacts(g) ==
    /\ genesis[g].pc = "clear"
    /\ aggregate = None
    /\ manifest = None
    /\ r1cs' = [c \in Circuits |-> NotBuilt]
    /\ witness' = [c \in Circuits |-> NotBuilt]
    /\ genesis' = [genesis EXCEPT ![g].pc = "build"]
    /\ UNCHANGED <<source, genesisFiles>>

Build(g) ==
    LET c == genesis[g].at
    IN  /\ genesis[g].pc = "build"
        /\ r1cs' = [r1cs EXCEPT ![c] = source[c]]
        /\ genesis' = [genesis EXCEPT ![g] = NextCircuit(@, "build", "execute")]
        /\ UNCHANGED <<source, witness, genesisFiles>>

\* The circuit found on the disk makes the witness of its case.
MakeWitness(g) ==
    LET c == genesis[g].at
    IN  /\ genesis[g].pc = "execute"
        /\ r1cs[c] # NotBuilt
        /\ witness' = [witness EXCEPT ![c] = r1cs[c]]
        /\ genesis' = [genesis EXCEPT ![g] =
             NextCircuit([genesis[g] EXCEPT !.passed = @ /\ <<c, r1cs[c]>> \in Right],
                         "execute", "hash")]
        /\ UNCHANGED <<source, r1cs, genesisFiles>>

HashSources(g) ==
    /\ genesis[g].pc = "hash"
    /\ genesis' = [genesis EXCEPT ![g].pc = "aggregate", ![g].hashed = source]
    /\ UNCHANGED <<source, artifactVars, genesisFiles>>

WriteAggregate(g) ==
    /\ genesis[g].pc = "aggregate"
    /\ aggregate' = [kind |-> "aggregate", run |-> g, passed |-> genesis[g].passed]
    /\ genesis' = [genesis EXCEPT ![g].pc = "manifest"]
    /\ UNCHANGED <<source, artifactVars, manifest>>

\* The aggregate is read back first.  The exit status tells whether all passed.
WriteManifest(g) ==
    /\ genesis[g].pc = "manifest"
    /\ aggregate # None
    /\ manifest' = [kind |-> "manifest", run |-> g, passed |-> genesis[g].passed,
                    sources |-> genesis[g].hashed]
    /\ genesis' = [genesis EXCEPT ![g].pc = IF genesis[g].passed
                                            THEN "passed" ELSE "failed"]
    /\ UNCHANGED <<source, artifactVars, aggregate>>

GenesisDie(g) ==
    /\ genesis' = [genesis EXCEPT ![g] = Fresh("dead")]
    /\ UNCHANGED <<source, artifactVars, genesisFiles>>

\* What the next step reads was removed by another run.
GenesisThrow(g) ==
    /\ \/ genesis[g].pc = "execute" /\ r1cs[genesis[g].at] = NotBuilt
       \/ genesis[g].pc = "manifest" /\ aggregate = None
    /\ GenesisDie(g)

GenesisKill(g) == Kills /\ GenesisActive(g) /\ GenesisDie(g)

\* What a run does when nothing stops it.
GenesisWork(g) ==
    \/ ClearReports(g) \/ ClearArtifacts(g) \/ Build(g) \/ MakeWitness(g)
    \/ HashSources(g) \/ WriteAggregate(g) \/ WriteManifest(g) \/ GenesisThrow(g)

GenesisStep(g) == GenesisWork(g) \/ GenesisKill(g)

=============================================================================
