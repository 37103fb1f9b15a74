# Fenrua Kernel in TLA+

TLA+ modules of the Fenrua Kernel, small instances of them for TLC, and theorems about them that
TLAPS checks. Paths below are relative to the repository. `PROJECT.json` names, for every
definition, the source lines it stands for, and lists the runs, the hazards and the theorems.

    tlc -config MCNodeAudit.cfg MCNodeAudit.tla      # a run
    tlapm NodeAudit_proofs.tla                       # the proofs of a module

## The system

The kernel computes over the 521-bit prime field in C++ and modulo the 521-bit curve order in
circuits, and keeps *evidence*: reports whose bytes are hashed, written by one tool and verified by
another. A node's state is reduced by a state machine that asks for evidence.

| Part | State | Operations | What makes it correct |
| --- | --- | --- | --- |
| Genesis runner, `tools/run-genesis.mjs` | files under `tests/genesis/reports` and `artifacts/pn521-genesis`; its memory | clear, compile, run cases, write reports, hash sources, write aggregate and manifest | what it leaves is whole, of one run, and about the sources it tested |
| Genesis verifier, `tools/verify-evidence.mjs` | what it has read | read manifest, compare files, records, sources | accepts only such evidence, and accepts it |
| Proof pipeline, `tools/prove.mjs` | keys under `artifacts/pn521-development-proofs`, public files under `tests/proofs/evidence`; its memory | run Genesis, clear, ceremony, set up, prove, verify, tamper, bind, report | what it reports is of one ceremony, verifies, and is about the circuits in the tree |
| Proof verifier, `tools/verify-proofs.mjs` | what it has read | list, read the report, compare files, verify, refuse the changed signals | accepts only such proofs, and accepts them |
| Workflow, `justfile` | the working tree | `just test`, `just prove`, `just evidence`, edits | holds however these overlap or die |
| SDK, `sdk/src/index.ts` | none between calls | find the checkout, start the tools, read their reports | returns the result of the call, of the right checkout |
| Field element, `lib/p521_field_element.cpp` | none across calls; limbs and carries within one | add, subtract, negate, parse, encode | exact modulo p, canonical, no carry lost |
| Native probe, `tests/native/pn521_probe.cpp` | one command | parse, compute, print | answers every command exactly or rejects it |
| Order circuits, `kernel/circuits` | signals of a witness | add, subtract, range | every witness is right; every valid statement has one |
| Node, `mesh/state_machine.cpp` | state, number of events processed | `apply` | serves only on evidence; transitions can be audited |
| Reference, digests, build and fixture tools, tests | none | | see *Not modelled* |

They interact through files. The runner, the two verifiers, the pipeline (which starts the runner)
and the SDK (which starts all of them) are processes over one working tree with no lock; the
runner starts the native probe and the witness calculators on the binaries it built.

What is hard to test: two processes that overlap; one killed while it clears or writes; a reader
between the truncation and the write of a file; a source saved while a run is under way, or a
circuit compiled again while it is being proved; files read again after they were compared; carries
at the boundary of the last limb; hints a prover chooses; a stream of events read late.
`PROJECT.json` lists each of these at its line, with the properties about it. Three hazards have
none. A delayed validation result names no round (`mesh/state_machine.cpp:61`): matching results to
rounds is left to the caller, who is outside the repository. Two pipelines at once write over each
other (`tools/prove.mjs:115`): nothing in the code keeps them apart and nothing in the repository
says that they may overlap, so there is no promise to check. `runGenesis` of the SDK reads two
files after its tool has ended (`sdk/src/index.ts:226`), which another run may replace in between:
nothing is promised of a working tree that others use, and what holds of a client that is alone
does not speak of it. Of one hazard only a half is covered: a proof stays acceptable when its
circuit is edited afterwards (`tools/verify-proofs.mjs:110`), which nothing in the repository rules
out; the properties are about circuits that were not edited.

## Modules

    EvidenceTree <- RunGenesis      \
                 <- VerifyEvidence   > GenesisEvidence (implements EvidenceStore)
                                        <- MCGenesisEvidence
                                        <- GenesisEvidence_proofs
    GenesisRuns <- ProofEvidence <- ProofPipeline \
                                 <- VerifyProofs   > DevelopmentProof
                                        <- MCDevelopmentProof
                                        <- Sdk <- MCSdk
                                               <- Sdk_proofs
    KernelRoot <- MCKernelRoot
               <- KernelRoot_proofs (and CountingTheorems)
    FieldLimbs <- FieldElement (implements ModularArithmetic)
               <- FieldEncoding
               <- LimbTheorems (and CountingTheorems)
    FieldElement, FieldEncoding <- FieldProbe <- MCFieldProbe
                                              <- FieldProbe_proofs (and LimbTheorems)
    FieldLimbs <- OrderCircuits <- MCOrderCircuits
                                <- OrderCircuits_proofs (and LimbTheorems)
    NodeStateMachine (implements EvidenceGate) <- NodeAudit <- MCNodeAudit
                                                            <- NodeAudit_proofs

A definition with the comment "Fault:" is not part of a specification: it is the definition after
it with a plausible mistake, and `PROJECT.json` names the property that finds it.

### Genesis evidence

`EvidenceTree` is the shared tree. `source` holds the version of each group of sources that is
compiled together (the native probe, each circuit), `binary` what each binary was built from,
`reportFile` the reports of cases and regressions, which the runner treats alike, and `rootFile` the
three files beside them. A file is missing, torn (truncated and not yet written), or a record.

`RunGenesis` is one process of the runner per member of `Runs`, its program counter and memory in
`run[r]`. Every operation on a file is a step. `writeJson` is two, and when another process has
touched the file in between, `Written` lets the write be lost (the file was removed), lose to the
other's, or leave a mixture. The directory is cleared file by file in any order. A case is run on
the binary found on the disk at that moment. `Throw` is the exception of a read whose file has been
removed; `Kill` is the death of the process anywhere, and stands for every other exception.

`VerifyEvidence` is a verification. It reads each file twice, as the code does: once to compare its
bytes with the manifest, once to parse it. A check that fails ends it.

`GenesisEvidence` composes them with a developer's edits. Its constants say what may happen at once
(`Exclusive`, `EditsDuringRuns`, `CheckDuringRuns`), so that each property is checked, and stated,
under the weakest of them that it needs. `owner`, `calm` and `stood` are history variables.

`EvidenceStore` is what the commands promise while runs do not overlap: a store that holds what one
finished run published, or nothing. In `GenesisEvidence` the evidence is published at the last write
of a run and withdrawn at the first file the next run removes; every other step is a stutter.

Abstractions. SHA-256 is injective, so a digest is what it is the digest of; the size and digest of a
file are read in one step. Two runs differ in their metadata: two with the same
`SOURCE_DATE_EPOCH` write the same bytes, and it does not matter whose they are. The comparison of
an observation with what the runner's and the verifier's references expect is `Matches`. The two
directory listings are one step. Fixtures, tools, dependencies, git and host metadata are left out:
nothing in a run changes them. The intermediate witness files of overlapping runs are not told
apart from the binary that makes them. Compiling a group of sources is one step, and so is removing
the binaries: a source saved during a compilation counts as saved before or after it. An `rmSync` or
`writeFileSync` that fails because another run has just changed the directory is a `Kill`, or
a `RemoveFile` more. A verification leaves nothing behind, so one is enough.

### Development proofs

`GenesisRuns` is the runner as the pipeline depends on it: it clears the artifacts and the evidence,
compiles, makes a witness with each circuit, hashes the sources, writes the aggregate and then the
manifest. It is coarser than `RunGenesis`, which has the reports of cases and the torn files; only
the circuits that are proved appear, each standing for the one case whose witness is used.

`ProofEvidence` is the public evidence: four files for each circuit, and the report. `ProofPipeline`
is `tools/prove.mjs` with its program counter and memory in `pipeline[p]`, one action per command or
file operation. `Ready` says what a phase needs; without it the command fails and `PipelineThrow`
ends the process, and `PipelineKill` ends it anywhere. A command that fails of itself is such a kill,
but for one: `Reject`, the verification of the changed signals, is run with `allowFailure`, and when
snarkjs crashes there the pipeline counts a rejection and goes on. The run of Genesis it started is
a process of its own and goes on when the pipeline dies. Any other command that outlives its
pipeline and still finishes is, for what is on the disk, a kill after that step; if a pipeline begins
before it has finished, that is two pipelines at once, and `Exclusive` excludes it. Reading again is kept: the circuit is read for its
metrics, for the setup, for the check of the key and for the digest, and each may find another file.
`VerifyProofs` is the verifier, which lists the files, compares their digests, reads the signals and
has snarkjs read them all twice more. A crash of snarkjs in the first of these verifications
(`CheckValid`) fails the tool, in the second (`CheckTampered`) it counts as a rejection.

`DevelopmentProof` composes these with `just test`, edits and a verification. `owner`, `edited`,
`calm` and the members `reason` are history.

Abstractions. A key and a proof are drawn at random, so those of two pipelines differ; the public
signals follow from the case and the circuit, so they do not. `Outcome` is snarkjs: a proof holds
if it was made with the key, of a witness that satisfies the circuit of the key, for these signals;
anything else is "invalid", or "missing" when a file is not there. `Endings` is how the tool may see
it end: with that outcome or, where processes may die (`Kills`), with a "crash", which is any end
without an answer, whatever the files. At the changed signals the code cannot tell "missing" or a
"crash" from "invalid"; `reason` remembers which it was. The report and each public file are written in one step, and the eight digests of
a case are taken in one. The check that the tools are installed (`prove.mjs:24-28`) comes
before any change of state and is left out. `just evidence` runs both verifiers;
`DevelopmentProof` has the second, `GenesisEvidence` the first, `Sdk` both. A file that is missing only for
the moment another process replaces its directory counts as missing.

### SDK

`Sdk` is the client of `sdk/example.ts`: `runGenesis`, `generateDevelopmentProofs`, `verifyEvidence`,
its program counter and what it has read in `client`. Each call starts a tool of `DevelopmentProof`
and waits; `runNodeTool` throws unless the exit status is 0. The two files of `runGenesis` are read
one after the other, the second not if the first is gone. The example catches the error of a
pipeline and goes on; `verifyEvidence` runs the second verifier whether the first passed or not.
Of the first verifier only the first and the last read are told apart, since `VerifyEvidence` has
the rest. `Alone` says that nobody else works in the tree while the client is busy.

`KernelRoot` is `findKernelRoot`: the walks upward from up to four candidates over a tree of
directories, each walk bounded by a limit (`Levels`, 8 in the code) and all sharing the set of
directories seen.

### Field element and probe

`FieldLimbs` has the arrays of limbs, with `LimbCount`, `Radix` and `TopRadix` for 9, 2^64 and 2^9, and
`Part(limbs, k)`, the number the limbs below limb k stand for.
`FieldElement` is a call, one limb a step, in limbs that wrap: a sum is taken `% Radix` and a carry
is found by comparison, as in the code. The dereference of an empty optional would be undefined
behaviour; the property `CanonicalOnReturn` is that it never is empty. `ModularArithmetic` is what
the header promises, on numbers; `FieldElement` implements it under `Value`. `FieldEncoding` parses
bytes and encodes an element again, limb by limb.

`FieldProbe` composes the two as the native probe does, from bytes to bytes: it parses both operands,
rejects or computes, and prints. The command "negate" is not the probe's; it stands for the tests
that negate an element they parsed. `NoElement` is the empty optional of a parse that failed. The
probe's hexadecimal digits are left out.

### Order circuits

`OrderCircuits` makes a witness limb by limb. The calculator takes the hints the circuit assigns
(`<--`); anyone else takes any values of the circuit field. Both must satisfy the constraints
(`===`, `Num2Bits`, the bit checks). The loops differ only in the sum or difference they split, so
`LimbStep` is all of them and `Splits` says which limb and carry each allows. The bits of
`Num2Bits`, the inverse in `IsZero` and the bits of `LessThan` are determined by their inputs, as
long as the field is larger than the numbers (`CircuitAssumption`), and are left out.

The order and its complement are tables in `p521_params.circom`; the assumption
`N + Value(Complement) = TwoTo521` was confirmed for the real tables by adding them up, and they
agree with the hexadecimal constant of `tools/pn521-reference.mjs`.

### Node

`NodeStateMachine` is `apply`. `EvidenceGate` is the same seen from outside: service opens and closes
with evidence only, and may shut for good. `NodeAudit` adds the use the header describes: a caller
persists every transition returned and an auditor reads them later. Both are outside the
repository. The `reason` strings are left out, `accepted` tells what they tell.

## Runs

| Run | Checks | On | States |
| --- | --- | --- | --- |
| `race` | `AcceptedIsOneRun`, `EvidenceInv` | two runs overlap, may be killed, and race an edit and a verification; one report | 1.3 million |
| `exclusive` | `AcceptedPassed`, `NoStaleAcceptance`, `NoFalseAlarm`, `TreeIsOwned`, `ImplementsStore` | one run at a time, killed anywhere; two reports, two sources edited and reverted | 0.3 million |
| `quiet` | `RecordedSourcesWereTested`, `SourcesRest`, `EveryRunEnds` | two overlapping runs, two sources, edits between runs only | 0.5 million |
| `source_edit` | `RecordedSourcesWereTested`, violated | one run, one edit | |
| `ceremony` | `AcceptedOfOneCeremony`, `RecordedCircuitWasProved`, `RecordedGenesisIsAboutIt`, `ProofsGoStaleByEdits`, `NoStaleProofs`, `RejectionIsDue`, `NoFalseRefusal`, `OwnerHolds`, `ProofInv` | two pipelines in turn, a `just test` over them, an edit, a verification, deaths anywhere and crashes of snarkjs that count as rejections; no three of edit, `just test`, death and such a crash at once (`NoThree`) | 0.6 million |
| `rejection` | `RejectedForTheReason`, violated | a pipeline begins during a verification | |
| `sdk` | `ResultIsOfTheCall`, `VerifiedWhatWasProved`, `CallsEnd` | the client alone, its tools killed anywhere; before and after it another pipeline and edits; two circuits | 0.4 million |
| `root` | `ShallowSearchIsExact`, `FirstCandidateDecides` | every tree of five directories, every set of checkouts, every choice of candidates; walks of three | 0.1 million |
| `root_deep` | `FindsRoot`, violated | the same | |
| `field` | `CanonicalOnReturn`, `NoCarryIsLost`, `FoldsOnce`, `AcceptsExactly`, `AnswersExactly`, `IsExact`, `ProbeInv`, `EveryCommandIsAnswered` | every command on every one or two strings of 0, 5, 6 and 7 bytes of one bit; p = 31, limbs of 2, 2 and 1 bits | 0.6 million |
| `circuits` | `Sound`, `Complete`, `HintsAreForced`, `CircuitInv` | n = 27 in limbs of 2, 2 and 1 bits, circuit field of 61; every shaped pair and misshaped ones | 73 thousand |
| `audit` | `StreamIsContinuous`, `ServesOnAuditedEvidence`, `ImplementsGate`, `AuditInv` | any 8 events, an auditor up to 2 behind | 10 thousand |

The properties whose names end in `Inv`, and `TreeIsOwned`, `SourcesRest` and `OwnerHolds`, are the
invariants the proofs rest on, checked on the same instances.

Why the bounds are enough. Evidence of two runs can be mixed only if there are two of it and several
files of it: `race` has four files for each of two runs, and the theorem has any number of both; what
a third run could leave on the disk, one of two leaves as well. Two versions tell a tested source
from an untested one, and a revert brings an old one back. `LastCaseBroken` makes the last case fail
on the second version, so there are runs that fail whole. Both reports and sources are needed at
once only where a property relates them. In `ceremony` one circuit has four files and a report, so
files of two ceremonies can be mixed, and the theorems have any number of circuits. `NoThree`
stops the search where a third of an edit, a separate `just test`, a death and a crash of snarkjs that
counts as a rejection has come to two others (the state in which it has come is still checked); the
run of a killed pipeline goes on, so an edit and a death still meet two overlapping runs, and the
theorems have no such bound. `NoCrashTaken` leaves such crashes out of `sdk`, and only these: they
lead where a rejection leads, no action reads `reason` and no property of that run names it, so that
every behaviour left out has one that differs from it in `reason` alone. `sdk` has two
circuits, of which the second version of one fails its Genesis case and of the other has other
metrics, so a call of each tool can pass and fail. In `root` five directories in a row are more
than a walk of three can see, and there may be several checkouts, one within another.

Three limbs are the fewest with a first, a middle and a last; the last is smaller than the others,
with room above it for the carry, as 9 of 64 bits are. The strings of bytes include every encoding,
p itself, all larger values, and the wrong lengths. n = 27 has, as the real order, full upper limbs
and a complement that is short and has several limbs. Eight events reach every state of the node
with rejections in between; a lag of two has a transition behind another. The symmetry is over
processes, which are interchangeable; no run with symmetry checks liveness, and the one that
checks an implementation with it (`exclusive`) maps to a store that is symmetric in the runs.

Deadlock checking is off in all runs: tools, a client, a verification, a witness and a command end,
a search returns, and the events of the node are bounded.

Fairness. `quiet` assumes that a run or a verification that can take a step takes one (`Fairness`):
the operating system schedules its process. No run is bound to start, and none is killed there.
`sdk` assumes it of the client and the tools it waits for (`SdkFairness`), which may be killed;
nothing is assumed of the others, and once the client has called, `Alone` keeps them away. `field`
assumes that the probe is scheduled.

What the failing runs show.

- `source_edit`: `tools/run-genesis.mjs:313` hashes the sources when every case has been run. A source
  saved after it was compiled and before that is recorded with its new digest; the verifier finds
  that digest in the tree and accepts, though no case was run on it. README.md:95-100 says that the
  baseline binds "source and toolchain identity". `quiet` shows that nothing else breaks the
  binding: if nobody edits during a run it holds, even when runs overlap.
- `rejection`: both proof tools take any end of snarkjs without "OK" for a rejection of the changed
  signals. When a pipeline clears the evidence under a verification, the verifier reports a
  rejection that never took place. README.md:161-162 says that a proof stage that was skipped or
  failed is never reported as passed. The run has no kills: with them a crash of snarkjs alone
  violates the property, in a pipeline and in the verifier. What is left is `RejectionIsDue`: the
  proof accepted does not hold for the changed signals beside it, so that a rejection is what a
  verification carried out would have come to; and the pipeline, and the verifier when nothing
  disturbs it, never take a missing file for one. Whether it was carried out or snarkjs crashed,
  neither the record nor the verifier tells.
- `root_deep`: a walk that is cut short leaves the directories it saw marked, and a later walk that
  meets one of them gives up, though it could have gone further: `findKernelRoot` throws with a
  checkout in reach of a candidate (`sdk/src/index.ts:49`). `ShallowSearchIsExact` shows that the
  search is exact as long as no walk is cut short.

Three conditions the other properties carry are worth knowing. A circuit that is edited and compiled
again by `just test` while a pipeline runs makes the report name another circuit than the one
proved, and the verifier does not notice: `RecordedCircuitWasProved` and `RecordedGenesisIsAboutIt`
say it holds of the circuits not edited since. And `runGenesis` of the SDK returns the files found
after its run has ended, which may be another run's when others work in the same tree:
`ResultIsOfTheCall` holds when the client is alone. And `NoFalseRefusal` excepts a crash of snarkjs
on the valid proof, which the verifier cannot tell from a proof that does not hold.

## Proofs

Every property of a run that is expected to pass is a theorem, except the three about liveness. All
theorems hold for any number of processes, reports, circuits, versions, limbs, bytes, directories
and so on, with processes killed at any step. Those that need runs or pipelines to exclude each other have
`ASSUME Exclusive`, the constant of the specification.

`GenesisEvidence_proofs`, whatever may happen at once: `EvidenceInvariant`
(`Spec => []EvidenceInv`), `AcceptedFromOneRun` (`[]AcceptedIsOneRun`), `AcceptedAllPassed`
(`[]AcceptedPassed`).

A passing verification says nothing of the files as they are now: they may have changed since they
were read. What lasts is the manifest it read at the start. `EvidenceInv` therefore says, of every
whole manifest on the disk or in the verifier's memory, that it is the one its run computes from its
own memory, and that this run is done (`ManifestsAreWhole`): a run writes it last and its
memory does not change after that, so no later step of any process can falsify it. For the write to
establish it, the memory of a run must be full when it gets there (`MemoryFills`). And what the
verifier has accepted so far is what that manifest names (`CheckFollowsManifest`). At "pass" the
three give the claim. Which files were mixed on the disk does not enter; that is why it holds under
every overlap. A mixture another process leaves is never whole: it does not parse.

The same module, where less may happen at once:

- `RunsRestOnTheSources`, `RecordedWereTested`, if nobody edits during runs: everything an active
  run has made, and every binary on the disk, is of the sources as they are (`SourcesRest`), even
  when runs use each other's binaries.
- `OneRunOwnsTheTree`, `StaleIsNotAccepted`, `StandingIsAccepted`, under `Exclusive`. Here the disk
  does enter. `OwnedTree`: the files are what the run that cleared the tree last has written so far
  and has in its memory, and a manifest of an earlier run survives only while a file it names is
  gone. `LateIsDoomed`: a verification that began when its manifest was not whole evidence is
  going to miss a file, or the aggregate. `NoStaleAcceptance` follows even for a verification that
  is disturbed.
- `TreeIsAStore`, under `Exclusive`: `Spec => ImplementsStore`. What is whole is the finished
  owner's, so it appears at one write and goes with the first removal.

`Sdk_proofs`, on the tools alone, under `Exclusive` of pipelines; Genesis runs, edits and verifications
happen at any moment: `ProofInvariant` (`[]ProofInv`), from which `AcceptedFromOneCeremony`,
`StaleOnlyByEdits`, `StaleProofsAreRefused`, `RecordNamesTheCircuit`, `RecordNamesTheEvidence` and
`RejectionsAreDue`; and `RecordsAreOnTheDisk` (`[]OwnerHolds`) and `StandingProofsPass`
(`[]NoFalseRefusal`). `Progress` says what a pipeline has made at each phase: the key is of its own
ceremony and of the circuit in the tree unless that was edited since, the proof is of the key,
what is bound was verified. `ArtifactsAreFresh` carries the circuit past a `just test` that
compiles it again, and `SourcesAreNamed` the manifest past one that replaces it. A report is its
pipeline's last word (`OfItsPipeline`), and an older report has lost files (`OldReportIsBroken`), so
a verification that follows the report it read (`FollowsReport`) accepts one ceremony. For the
converse, that nothing good is refused, `OwnerHolds` says that what was bound is still on the disk.
Without `Exclusive` none of this holds: a pipeline binds what it finds, and that may be another's.

The same module on the client: `ClientCallsTheTools`, `SdkSpec => Spec`, so what is proved of the tools holds with a
client; and, under `Exclusive` and `Alone`, `ResultsAreOfTheCall` and `VerifiedIsWhatWasProved`. A tool
the client started may outlive its call (the run of a pipeline that died), but not into a phase
where the client reads what that tool writes (`SdkInv`).

`FieldProbe_proofs`, for any limbs, radix and top limb with a bit to spare, and limbs of any number
of whole bytes. It has three layers, each with its invariant.

- `LoopInv` (`LoopsKeepTheirInvariants`), without numbers: what a carry of 1 or a limb of all ones so
  far means for the limbs done. The top limb leaves room, so the carry out of it is 0; after one fold
  of a carry of 1 the limbs below it cannot all be full; a borrow is paid back because the comparison
  came first. From it `ElementsStayCanonical`, `LastCarryIsZero` and `OneFoldIsEnough`.
- `FieldInv` (`LoopsComputeNumbers`), with numbers: the limbs done and the carry or borrow into the
  next, at its place, are the sum or the difference of the limbs done of the operands (`PartSum`,
  `PartDifference`). A step keeps it because splitting one limb does
  (`x + y + carry = limb + Base(k) * carry'`); at the end of a loop the place of the carry is p + 1,
  so a carry of 1 folded into limb 0 takes p away. `ElementImplementsArithmetic`
  (`Spec => IsExact`): the return of a call is the one step of `ModularArithmetic`, any
  other a stutter.
- `ProbeInv` (`ProbeKeepsTheInvariant`): the same of bytes (`EncodingInv`: the limbs parsed so far, or
  the bytes written so far, are the number of the bytes or limbs read), and what each stage of a command
  has (`OperandsInv`, `StageInv`, `CommandInv`). From it `ParserAcceptsExactly` and
  `ProbeAnswersExactly`. `ProbeCallsTheElement` and `ProbeImplementsArithmetic` carry the first two layers
  over: every step of the probe is a call, a step of a call, or leaves the element alone.

`OrderCircuits_proofs`, for any limbs, radix, order and circuit field of more than four radixes:

- `CarriesAreBits` (`[]TypeOK`) and `ProversHaveNoChoice` (`[]HintsAreForced`), for operands in range
  or not. Of two splits of the same sum the limbs differ by a radix or not at all, and in a field of
  more than four radixes a number a radix away from a limb is no limb.
- `CircuitsKeepTheirSums` (`[]CircuitInv`), from which `AcceptedWitnessIsExact` (`[]Sound`) and
  `NoOperandsInRangeAreRefused` (`[]Complete`). Since hints are forced, the constraints of a loop
  keep the same sum of limbs done as the field element does, now for any prover, and the selectors
  `wrapped` and `needs` are what the comparisons with 2^521 and with the order say. The fold adds
  2^521 - N for each 2^521 dropped. That nothing is refused needs more than that nothing wrong is
  accepted: that the last carry of each loop is what its constraint asks for, and
  that both results stay below the order.

`KernelRoot_proofs`, for any directories, candidates and limit of a walk: `SearchKeepsItsInvariant`
(`[]RootInv`), `TheFirstCandidateDecides` and `AShallowSearchIsExact`. `Upward(d)` is the way up from
d; `WalkInv` says how far along it the walk is and that it has passed no checkout; `SeenInv`, that
whatever is above a directory seen was seen too, unless the walk has still to come to it, so passing over one
that was seen loses nothing. The second fails when a walk is cut short, which is what
`root_deep` shows. TLC has checked `RootInv` on the instance of `root`.

`NodeAudit_proofs`, for any set of digests, number of events and lag: `NodeImplementsGate`
(`Spec => ImplementsGate`) and `AuditInvariant` (`[]AuditInv`), from which `StreamContinues` and
`EvidenceIsAudited`. The claim is about what the auditor will read, so the invariant must speak of
what is still in the stream: `StreamIsContinuous` ties each transition to the one before it and the
last to the node, and `StreamIsGrounded` says that one into service brings its evidence.

The proofs assume the named assumptions on the constants and no others: `TreeAssumption`,
`RunAssumption`, `NoRunAssumption`, `ScheduleAssumption`, `GenesisAssumption`, `ProfileAssumption`,
`ProofScheduleAssumption`, `ClientAssumption`, `LimbAssumption`, `EncodingAssumption`,
`CommandAssumption`, `CircuitAssumption`, `RootAssumption`, `EventAssumption`, `BehindAssumption`.

`CountingTheorems` and `LimbTheorems` are what these rest on. The library's induction theorems take an
operator as a parameter, which the provers do not instantiate, so induction goes through a set:
`CountingUp` (a set that has 0 and with every number up to `n` the next has them all) follows from the
library's least element of a well-founded relation, and `Recursion` gives the equations of a
function that is defined by recursion on 0 .. n. A property is proved of all numbers by taking the set
of those that have it. `LimbTheorems` uses both for the weights of limbs and for `Part`, and
has the lemma each loop over limbs rests on: what one limb and carry add to `PartSum` and
`PartDifference`.

Model-checked only: `EveryRunEnds`, `CallsEnd` and `EveryCommandIsAnswered`. They need fairness and
`ENABLED`, which the prover does not reach.

## Not modelled

- `tools/verify-evidence.mjs:321-432`, tools, dependencies and run metadata, and `--same-host`:
  comparisons of values that no modelled process changes. So are the constants of the formats in
  both verifiers.
- `tools/pn521-reference.mjs` but for the order functions the circuits are compared with.
- `kernel/circuits/p521_limb_range.circom` and `BigLessThan9`: bit decompositions, and a template
  that nothing uses.
- Two pipelines at once: see *The system*.
- Readers and options of the SDK that the example does not use.
- `lib/sha256_digest.cpp` and the research interfaces: parsing of hexadecimal digits and plain types.
- Build and fixture tools, tests and CI: no state of their own.

## Plan

Done, in this order: the Genesis evidence, the field element, the node with its gate and auditor,
the order circuits; the proof pipeline with its verifier, the SDK and its search for the checkout,
the probe; the store and that the Genesis commands implement it; the proofs above.

What is left:

1. Two pipelines at once, if the repository comes to say what they may expect of each other.
2. What the evidence says of tools and dependencies, if a modelled process comes to change them.
3. The safety half of the three liveness properties: a bound on the steps that are left, which
   falls with every step of a run, a command or a call.
