# Formal model of rmp-eval

rmp-eval measures real-time jitter. It has two sources:

- `src/source/main.cpp` is the measurement program. A sender thread runs a cyclic loop, a receiver thread runs when a NIC is given, and a live reporter thread prints progress. `main()` parses arguments, runs checks, converts units, spawns the threads and joins them.
- `src/source/config.cpp` is the system audit. It holds 20 `ICheck` implementations, the CPU-list parser `ParseCpuList`, the live data source (`Slurp`, `GetCmdLineParam`), and `ReportSystemConfiguration`, which runs them.

This directory holds TLA+ models of both, the TLC configurations that check them, and TLAPS proofs for the harness, the orchestrator, the `FileDescriptor` class, the audit dispatcher and the check catalog.

## Parts and how they interact

```
main()  --ReportSystemConfiguration(SendCpu, NicName)-->  Audit --> Checks --> ParseCpuList
   |                                                    (refines AuditSpec)  \--> DataSource (Slurp, GetCmdLineParam)
   +-- SetLatencyTarget() --> FileDescriptor (owns /dev/cpu_dma_latency until main() returns)
   |
   +-- spawns SenderThread, ReceiverThread (NIC mode), ReportThread
         shared: atomic testRunning, atomic liveReport, ReportData sinks, the wire
```

| Module | Models | State and actions |
|---|---|---|
| `Harness` | `SenderThread`, `ReceiverThread` and `ReportThread` of main.cpp, plus main()'s join sequence (lines 477-534) | See the Harness section below. |
| `Orchestrator` | `main()` from its defaults to its return value, and `SetLatencyTarget` | See the Orchestrator section below. |
| `CpuList` | `ParseCpuList` | A token is a sequence of segments: a number, `Text`, or `Empty`. `StoiHead` and `StoiRest` are the two `std::stoi` calls. `TokenSet` handles one token; the parser takes the union over all tokens. `SpecCpuList` is the grammar of the spec's section 4.1. |
| `Checks` | every `Evaluate` of config.cpp | See the Checks section below. |
| `CheckMatrix` | nothing new | It enumerates every check and every context, and compares `Evaluate` with an independent, spec-level table of outcomes (`Row`). |
| `Audit` | `ReportSystemConfiguration` | `Start` does the CPU range check and builds the context. `EvaluateNext` runs one loop iteration: `Evaluate` followed by `PrintResult`. `CoreSection`, `NicSection`, `Presence` (the NicPresent gate) and `NicDone` follow. `printed` is the sequence of results. |
| `AuditSpec` | what `ReportSystemConfiguration` promises | The arguments fix one sequence `Expected` of `<<check, status>>` results: empty for an invalid core, else the system and core checks and, with a NIC, NicPresent and (if it passed) the NIC checks. `PrintNext` appends the next expected result, and `Finish` returns once all of it is printed. `Audit` refines it: `ABS == INSTANCE AuditSpec WITH finished <- (pc = "done")`. |
| `DataSource` | `Slurp`, `ReadCmdLine`, `GetCmdLineParam` (the live `IDataSource`) | A file is a sequence of characters over `Letters`, `Eq` and `Space`. `SlurpLoop` is the chunked `while (ifs.good())` loop with its `max_bytes` clamp. `Words` is `iss >> tok`. `Matches` and `Value` are the `'='` split. `SpecRead` and `SpecCmdLineParam` are section 3's `read` and `cmdline_param`, written independently. |
| `FileDescriptor` | the move-only RAII class of main.cpp | Objects have `alive` and `fd`. The kernel has `opened`, and hands out its lowest free descriptor. `loose` holds the descriptors that `Release()` gave to its caller. There is one action per member: `DefaultConstruct`, `OpenConstruct` (SetLatencyTarget), `Release`, `Reset` (with -1, the object's own descriptor, or a released one), `ResetOpen`, `MoveConstruct`, `MoveAssign` (self-assignment included), and `Destroy`. |

### Harness

State:

- `testRunning` and `liveReport` are the two atomics.
- `wire` counts frames that were sent and not yet received.
- The sender has a pc, `index`, `next`, `current` and a sample count.
- The receiver has a pc, `index` and a sample count.
- The reporter has a pc and `shown`, the counts it last rendered.
- `mPc` is main()'s position in the join sequence.

There is one action per loop segment of each thread:

- Sender: `SenderSetup`, `SenderLoop`, `SenderSend`, `SenderStamp`, `SenderWake`.
- Receiver: `ReceiverSetup`, `ReceiverLoop`, `ReceiverReceive`.
- Reporter: `ReporterRender`, `ReporterExit`.
- main(): `MainJoinReceiver`, `MainJoinSender`, `MainFinalReport`.
- Faults: `SenderSetupFail`, `ReceiverSetupFail`, `ReceiverReceiveFail`, `FrameLost`.

`SenderStamp` contains the whole catch-up loop as `CatchUp` / `Periods` (main.cpp lines 136-142). It also contains the `AddObservation` under `RecordTime`. The clock advances only in the sender's steps: by a bounded lateness before the clock read, and up to the deadline when `clock_nanosleep` returns.

### Orchestrator

Constants:

- `args` is the parsed command line: the CLI outcome, the two config flags, `-s`, `-b`, `-sc`, and NIC mode.
- `host` is root or not, `hardware_concurrency()`, whether `mlockall` succeeds, and the state of `/dev/cpu_dma_latency`.

Variables:

- `sendSleep` and `bucketWidth` hold the values after conversion, as uint64 scaled down to `U64Bits` bits.
- `sendCpu`, `fd` (the latency descriptor), `running` (the started threads) and `exitCode`.

Actions:

- One per early return: `Parse`, `CheckFlags`, `CheckRoot`, `Audit`, `LockMemory`.
- `Convert`, then `SetLatencyTarget`.
- `Spawn` and `SpawnFail` for each thread constructor, in the code's order (`SpawnOrder`).
- `Join`, then `FinalReport`.

### Checks

- Every check is an operator of `(ctx, ds, env)`.
- `ds` is what `IDataSource` returns. Each file is an optional value, and the kernel command line is a set of tokens.
- `env` is what some checks read directly from the machine: `uname`, `getifaddrs`, and the rx queue directories.
- `Evaluate(kind, ...)` dispatches over the kind names.

## Runs

| Run | Checks | Expect | What it shows |
|---|---|---|---|
| `harness_faults` | `TypeOK`, `SenderNoBacklog`, `FirstLastExcluded`, `FinalReportIsFinal` | pass | See note 1. |
| `harness_live` | `Termination` | pass | With setup failures and lost frames switched off, and `Receive()` allowed to fail, main() always prints its final report. The teardown order of the atomics is right. The hang of note 2 needs the faults this run leaves out. |
| `harness_cancel` | `CancellationHonoured` | violation | See note 2. |
| `parsers` | `ParseAgreesOnWellFormed`, `SlurpReadsPrefix`, `CmdLineParamAsSpecified` | pass | See note 7. |
| `fdesc` | `OwnedOnce`, `NoDangling`, `NoLeak` | pass | See note 8. |
| `orch_faults` | `LatencyVetoScoped`, `OrderlyExitCode`, `PreparedBeforeThreads` | pass | See note 3. |
| `orch_spawn` | `ExitCodeAsSpecified` | violation | See note 4. |
| `orch_params` | `ValidParametersAtSpawn` | violation | With the default period, on a host whose `hardware_concurrency()` counts its CPUs, `-b 8192` wraps the bucket width to 0 (16-bit uint64), and the workers start with it. |
| `checks` | `CatalogMatchesTable` | pass | Every check but `DeepCStatesCapped` (next row) agrees with the spec's outcome table, over every context and every combination of file contents. `NoUnrelatedIrqsOnRt` is compared only when the context names a NIC, because the spec does not say what it means without one. It is compared on headers that name CPU0 (`config.cpp:590` finds the header that way). `SwapDisabled` is compared on a file with its header line, because the spec is silent on an empty `/proc/swaps`. This covers precedence between sysfs and cmdline, the 5 % frequency tolerance, SMT siblings and so on. |
| `checks_cstates` | `CStatesAsSpecified` | violation | `intel_idle.max_cstate=10` passes as capped. It is a substring match. |
| `audit` | `AuditOrder`, `AuditRefinesSpec` | pass | See note 5. |
| `audit_nic` | `NicSectionIffNicMode` | violation | See note 6. |

Notes on the longer entries:

1. Over every interleaving of four threads with setup failures, receive failures and lost frames, the sleeping sender's deadline lies in `[current, current + SendSleep]`, so no backlog of missed periods builds up. A fault-free run also ends with exactly `Iterations - 2` samples per sink, and that is what the final report shows. The action property `FinalReportIsFinal` says that once main() has returned, no step changes a count or the shown report. Every thread was joined before the last `PrintReport`.
2. A receiver blocked in `Receive()` does not observe `testRunning = FALSE`. After a sender failure, or a lost frame, it never leaves its loop, and main() hangs in `join`.
3. On every path, including a failed `std::thread` constructor, the cpu_dma_latency descriptor is open while workers run and closed at every orderly exit. Every return of main() (every exit but `std::terminate`) gives the status of spec section 6. The action property `PreparedBeforeThreads` says that a step which starts a measurement thread is taken only as root, after `ReportSystemConfiguration` (unless `--no-config`), after `mlockall` succeeded, and with the cpu_dma_latency veto held whenever the device could be opened.
4. If the reporter's (or the sender's) thread constructor throws after another thread runs, the process aborts in `std::terminate` with status 134, not 1.
5. The system checks, the core checks, and then (NIC in the context) NicPresent and, only if it passed, the NIC checks are printed in this order. Each printed result is that check's own evaluation. `AuditRefinesSpec` (the property `ABS!FairSpec`) adds three things. Every step prints the next result `AuditSpec` expects, or prints nothing. The audit returns only when it has printed everything. And it does return. It also judges invalid cores, where `AuditOrder` says nothing: an off-by-one in the range check breaks it.
6. In cyclic mode the audit runs a NIC section for `"NoNicSelected"`, whose NicPresent is Unknown. With `--nic ""` it runs none, even though main() measures in NIC mode.
7. This run covers two things:
   - `ParseCpuList` equals the grammar on every list of 0-2 well-formed tokens, with descending ranges swapped.
   - The data source is checked on every file of up to 5 characters, read in chunks of 2, with every cap from 0 to 6:
     - `Slurp` returns exactly the file's first `max_bytes` characters;
     - `GetCmdLineParam` returns what section 3's `cmdline_param` does, on every command line and for every key of one or two letters. This covers a bare flag, `key=` and `key=a=b`, a key that is a proper prefix of a token (`k` against `kk=v`), the first of two matches, runs of whitespace, and an unreadable file.
8. Three `FileDescriptor` objects can be constructed, reset, released, moved and destroyed in any order. Across all of them:
   - no descriptor is held twice;
   - none is held after it was closed;
   - none is open without an owner.

   The kernel reuses the lowest free number, so a wrong close shows up as a second owner later on.

The findings these violations stand for are listed in `PROJECT.json` under `findings`. Every property of a passing run also has a mutant: a plausible bug in the mapped code, which TLC must catch. The mutants are:

- the catch-up loop dropped;
- the last-sample index off by one;
- main() going on without joining the sender;
- `Receive()` no longer blocking;
- `liveReport` never cleared;
- the range swap dropped;
- Slurp's clamp dropped;
- a cmdline key matched as a bare prefix;
- a move constructor that copies;
- `Reset` without its `newFd != fd` test;
- a destructor that does not reset;
- the audit's core range off by one;
- the latency fd held as a temporary;
- the euid check dropped (it breaks both `OrderlyExitCode` and `PreparedBeforeThreads`);
- cmdline taking precedence over sysfs;
- the NicPresent gate dropped.

## Bounds and why they suffice

**Harness**

- It uses `Iterations = 4`, which includes a first, two recorded and a last index.
- `SendSleep = 2` and `MaxLate = 5` let a wake be late by more than two periods, so the catch-up loop iterates several times.
- Every fault is enabled. The liveness run disables faults because they are nondeterministic, not due.

**Orchestrator**

- uint64 is scaled to 16 bits and `unsigned` to 8 bits, keeping `NanoPerMicro = 1000`. A `-s`/`-b` of 8192 then wraps exactly (8192·1000 ≡ 0 mod 2^16), as a value near 2^64/1000 does on the real width.
- `OnlineCpus = 2`. `hardware_concurrency()` ranges over {0, 2} (`HcValues`), except in `orch_params`, whose host counts its CPUs.
- `-s` ranges over 0, 1, the default 1000 and the wrapping 8192. In `orch_params` it is the default only, so that the trace shows the `-b` wrap and nothing else. The `-s 0` and `hardware_concurrency() == 0` problems are listed as hazards.

**Checks**

- There are two CPUs, two IRQs, two rx queues, and frequencies 100/104/106. These lie below, at and above the 5 % tolerance around 100.
- Each file ranges over its absent, malformed and meaningful values.

**CpuList and DataSource** (one run)

- Lists have up to two tokens of up to three segments over the numbers 0..2, plus text and empty segments.
- Files have up to 5 characters over two letters, `=` and a space, and are read in chunks of 2. A file can then end inside a chunk, on a chunk's end, or after a cap cuts a chunk.
- Keys have one or two letters, so a key can be a proper prefix of another token.
- The two input sets form a union in `MC_Parsers`, not a product.

**FileDescriptor**

- There are 3 objects (interchangeable, so symmetry is used) and 4 descriptor numbers. That allows a chain of moves, a move-assign between two holders, a released descriptor, and a table that fills up and hands out a closed number again.

**Audit**

- CpuCount is 2, and the core is -1, 1 or 2, so the range check sees a core below, inside and at the top of its range.

## Fairness

`Harness` assumes weak fairness for each thread's actions (`Sender`, `Receiver`, `Reporter`, `Main`). Each of them is an OS thread, so an enabled step is eventually scheduled. Faults (`SenderSetupFail`, `ReceiverSetupFail`, `ReceiverReceiveFail`, `FrameLost`) have no fairness, because nothing forces a failure. `Audit` has weak fairness on its whole next-state relation (`FairSpec`), and so does `AuditSpec`. `ReportSystemConfiguration` runs on main()'s thread from start to return, and no other thread can stop it. The other modules check only safety.

## What is proved

`Harness_proofs` EXTENDS `Harness` and TLAPS. It proves four theorems for every value of the constants that satisfies `ConstantsAssumption`.

- **`TypeCorrect`: `Spec => []TypeOK`.**
  - It rests on `LEMMA TypeOKStep`, which states that TypeOK is inductive under `[Next]_vars`.
  - That in turn rests on `CatchUpNat`: `CatchUp` of naturals is a natural.
- **`NoBacklog`: `Spec => []SenderNoBacklog`.**
  - `SenderNoBacklog` is not inductive on its own. A step into `"sleep"` needs the deadline carried over from the previous iteration to lie at or before the clock. A sleep step needs nothing to move the clock while the sender sleeps.
  - The proof therefore uses the inductive invariant `IInv == TypeOK /\ SenderClock /\ SenderNoBacklog`. Here `SenderClock` says that `next <= now` in the loop states and `current = now` during the sleep.
  - The step case has one step per action, with `SenderStamp` split out. Its arithmetic core is `LEMMA CatchUpBounds`: for `n <= c`, `c <= CatchUp(n, c) <= c + SendSleep`. That lemma is the correctness of the catch-up loop for every period.
  - The last step combines the three facts `Init => IInv`, `IInv /\ [Next]_vars => IInv'` and `IInv => SenderNoBacklog` by PTL.
- **`FirstLastExcludedHolds`: `Spec => []FirstLastExcluded`.** It holds for every iteration count, including 0 and 1, and for every fault setting.
  - It uses the inductive invariant `FLInv == TypeOK /\ Progress /\ Roles /\ EarlyExit /\ Joined`.
  - `Progress` says that each count is `RecordedBefore(k)`, the number of recorded indices below the `k` indices the worker has stamped. It also says that the frames received never exceed the frames sent (`rIndex + wire <= Sent`).
  - `EarlyExit` records why `testRunning` can be false: a worker failed, or main() cleared it after joining the receiver or the sender. It follows that a sender which is done early implies a failed receiver. A receiver that has taken every frame forces the sender to have sent every frame.
  - `Joined` records what main() has joined and what its final report printed.
  - `LEMMA RecordedStep` is the arithmetic of `recordTime`. Stamping index `i < Iterations` adds a sample exactly when `RecordTime(i)` holds. `RecordedAll` says `RecordedBefore(Iterations) = Iterations - 2` (0 below 2).
  - TLC checked `FLInv` as an invariant for `Iterations` from 0 to 5 before the proof was written.
- **`FinalReportFinal`: `Spec => FinalReportIsFinal`.** This is the action property `[][mPc = "exited" => UNCHANGED <<sCount, rCount, shown>>]_vars`. `FLInv` gives that, after the exit, the sender, the receiver and the reporter have all exited, so no counting or rendering step is enabled. The theorem follows from `[]FLInv` and `LEMMA FLInvFinal` by PTL.

`Orchestrator_proofs` EXTENDS `Orchestrator`, SequenceTheorems and TLAPS. It proves three theorems under `OrchestratorAssumption`, for every width, argument set and host. The assumption includes `1000 < 2^U64Bits`, so that the default `-s` fits.

- `TypeOK` is not a theorem of its own. The converted timings stay in `0..2^U64Bits-1` by the `% U64` of `Convert` (`LEMMA ConvertRange`), so it says nothing about the code. It serves only as a conjunct of the inductive invariants below.
- **`VetoScoped`: `Spec => []LatencyVetoScoped`.**
  - It uses the inductive invariant `IInv == TypeOK /\ Phases`. `Phases` says:
    - before `SetLatencyTarget` there is no descriptor and no thread;
    - during spawn and join, the descriptor is the one the host yields (`HeldFd`), and every started thread is still in `toJoin`;
    - every thread still to be spawned is in `toJoin` or is the tester;
    - an exit other than the abort has no open descriptor and no running thread.
  - The join bookkeeping is needed because `FinalReport` closes the descriptor. It must know that no worker still runs once `toJoin` is empty.
  - `LEMMA HeadTailRange` gives the sequence facts that `Spawn` and `Join` need.

- **`OrderlyExit`: `Spec => []OrderlyExitCode`.**
  - This also needs `ExitInv`. For each stage of main(), `ExitInv` records which checks main() has passed to reach it: the CLI said run, the flags are compatible, the user is root, `--only-config` is not set, and `mlockall` succeeded. It also records that no spawn has failed before the exit.
  - A `Return` step then knows which of the section-6 conditions holds.
- **`PreparedBefore`: `Spec => PreparedBeforeThreads`.** This is an action property.
  - Only `Spawn` adds to `running`, and `Phases` places it at the `"spawn"` stage.
  - At that stage `ExitInv` gives root and a successful `mlockall`, and `HeldFd` gives the descriptor.
  - The new invariant `AuditedInv` records, from the `"mlock"` stage on, that the audit ran exactly when `--no-config` was not given. `LEMMA AuditedInvStep` shows it is inductive.
  - `LEMMA PreparedStep` derives the action from the three invariants and `[Next]_vars`. PTL combines them.

`FileDescriptor_proofs` EXTENDS `FileDescriptor`, WellFoundedInduction and TLAPS. It proves three theorems for every set of objects and every `MaxFd` in `Nat \ {0}`:

- `OwnedOnceHolds`;
- `NoDanglingHolds`;
- `NoLeakHolds`.

The proof works as follows:

- All three follow from `Ownership: Spec => []IInv`.
- `IInv` adds two facts to the three properties: a destroyed object holds -1, and a descriptor returned by `Release()` is still open. Together these make the properties inductive.
- The step proof has one step per member function, and under each step one step per conjunct.
- `LEMMA LowestFreeIsFree` says that `open()` returns a descriptor that is not open, whenever the table is not full. It follows from `WFMin` applied to `NatLessThanWellFounded`. `<` is named once as `NatLess` and kept opaque, because the SMT backend does not take the `LAMBDA` inside `OpToRel`.

`Audit_proofs` EXTENDS `Audit`, SequenceTheorems and TLAPS. It proves two theorems for every `CpuCount` in `Nat \ {0}` and every host:

- **`AuditOrderHolds`: `Spec => []AuditOrder`.**
  - `AllKinds` is the catalog order: the system, core, NicPresent and NIC vectors. `Prefix(n)` is its first `n` kinds, and `Res` maps kinds to `<<kind, Evaluate(kind, ...)>>`.
  - The inductive invariant `AuditInv` is a disjunction of stages: `AtStart`, `InSystem`, `InCore`, `AtPresence`, `InNic`, `DoneInvalid` and `DoneValid`. Within a loop stage at position `n`, `printed = Res(Prefix(n))`, and the loop's remaining vector is `Pending(n, m)`, the rest of the catalog up to the end of the section.
  - `LoopStep` (the head and tail of `Pending`), `ResStep` (appending the next result) and `LoopOver` are the sequence lemmas behind one `EvaluateNext` step. `AllKindsFacts` fixes the positions of the sections (5, 15, 16, 20).
- **`AuditRefinesSafety`: `Spec => ABS!Spec`**, where `ABS!Spec == AInit /\ [][ANext]_avars` is `AuditSpec`'s safety specification.
  - `RefineInit` maps the initial state to `AInit`. `RefineStep` maps every step under `AuditInv` to `PrintNext`, `Finish` or a stutter.
  - The instance copies `AuditSpec`'s operators, so `ABS!Expected` is a different symbol from `Audit`'s catalog. `SameKinds`, `SameNicPresent` and `SameEvaluate` show that the two agree. `ExpectedIsRes` then identifies `ABS!Expected` with `Res(Prefix(ExpLen))`.
  - The fairness half of `AuditRefinesSpec` (that the audit returns) is a liveness property, and stays with TLC.

`CheckMatrix_proofs` EXTENDS `CheckMatrix` and TLAPS. It proves **`CatalogHolds`: `Spec => []CatalogMatchesTable`** for every set of CPUs, IRQs, rx queues and frequency values that satisfies `ChecksAssumption` and `NoneAssumption`.
- `NoneAssumption` says that `std::nullopt` is no string and no clock-source name. TLC evaluates it on the `checks` and `audit` runs, whose modules extend `Checks`. The clock-source row needs it, because the table tests membership before it tests `None`. The provers do not know that a string literal is in `STRING`, so the clock-source names are stated as their own set.
- The invariant is `TypeOK`: the kind is in the catalog and the context is one `ReportSystemConfiguration` builds. `Next` changes nothing, so `TypeOK` is inductive as it stands.
- `TypeOKRow` splits over the 20 kinds (`AllKindsListed`) and uses one lemma per row. Each lemma follows the same pattern:
  - it takes the file contents the row ranges over;
  - it reduces `Evaluate` to that kind's check, and reads each field of the host record;
  - it compares the check with the table, with a case split on an unset CPU or NIC when the rule depends on it.
- The lemmas that carry real content:
  - `ToleranceExact`: the integer tolerance `(max * 5) \div 100` bounds a natural drift exactly when `100 * drift <= 5 * max`. This is why `CpuFrequencyCheck`'s integer division cannot admit a reading that the 5 % rule rejects.
  - `RowNoUnrelatedIrqs` and `RowNicIrqsPinned`: the code's test (unlabeled, or a label without the NIC's name) selects the same rows as the table's test (the label is not the NIC's), because a context's NIC is neither `""` nor `"unlabeled"` (`ContextNic`).
  - `RowNicLink`, `RowRpsDisabled` and `RowNicQuiet`: `NicExists` reads the context's NIC from the net table as `NicPresentIn` reads the table's entry.
- This proof exposed a flaw in the model. Several table rules (`SpecPreemptRT`, `SpecTurbo`, `SpecLinkUp` and others) had been written as CASE with overlapping guards. In TLA+ such a CASE chooses an arm arbitrarily. TLC takes the first true arm, but nothing in the semantics makes it do so. The rules are now IF/ELSE chains in the spec's order. TLC's results did not change, and the proofs became possible.

## What is only model-checked

The following are shown by TLC on the instances above and are not proved:

- liveness (`Termination`) and anything about ENABLED, which are out of TLAPS's reach;
- the agreement of `ParseCpuList` with the grammar, and of `Slurp` and `GetCmdLineParam` with section 3. These are statements about all lists and strings. `CpuList` and `DataSource` compute them with RECURSIVE operators, which take away TLAPS's SMT backend in any module that reaches them. Proving them for every input would also need induction over data, which the installed provers cannot instantiate;
- the liveness half of the refinement of `AuditSpec` by `Audit` (`AuditRefinesSpec` is `ABS!FairSpec`). Its safety half is proved;
- `CStatesAsSpecified`, which the `checks_cstates` run shows to be violated;
- the orchestrator's exit status when a thread constructor fails (`orch_spawn`), and parameter validity (`orch_params`). Both are violated.

## Not modelled

- The syscalls behind the data source (`open`, `read`, `fs::exists`), and the host-information strings. `DataSource` models what `Slurp` and `GetCmdLineParam` compute from a file's contents. `MaxFileSize` and `ReadBufferSize` live in a header that is not in the repository, so they are parameters.
- Printing, the table widget and `GetEstimatedRunTime`.
- Indefinite runs (`Iterations == RunIndefinitely`, the default of `-i`). `KeepLooping` models only `index < Iterations`, and drops the `RunIndefinitely` disjunct of `main.cpp:118`. In such a run the loops end only when a thread fails or main() clears `testRunning`, and the index has no bound. The finite runs exercise the same stores of `testRunning`.
- `WriteTraceMarker`, which is never called.
- The bodies of the NIC tester, `TimerReport` and the argument parser, whose headers are not in the repository. The tester's `Send`/`Receive` are modelled from the spec as a lossy wire (`FrameLost` is spec-modelled).
- Malformed CPU-list tokens with extra dashes. Here `ParseCpuList` disagrees with section 4.1 (`"0--0"` yields CPU 0). sysfs never writes such a token, so this is a hazard note rather than a run.
- Whether a check depends only on its data source. PreemptRTActive, RpsDisabled and NicQuiet read the machine directly (the `env` argument of `Checks`), and the catalog run checks them with that argument.
- Torn reads of `ReportData` by the live reporter. Only the workers write it, and `reportMutex` is taken by the reader alone. This is listed as a hazard.
- The `INT_MAX` overflow of the range loop in `ParseCpuList`. It needs full `int` widths.
