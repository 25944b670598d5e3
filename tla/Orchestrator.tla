---------------------------- MODULE Orchestrator ----------------------------
(***************************************************************************)
(* The orchestrator: main() of main.cpp from the parsed command line to    *)
(* the process exit.  It validates the flags, requires root, runs the      *)
(* audit, locks memory, converts the timing parameters to nanoseconds,     *)
(* opens the /dev/cpu_dma_latency veto, spawns the threads one by one,     *)
(* joins them and exits.                                                   *)
(*                                                                         *)
(* The threads' own behaviour is the Harness module; here a spawned worker *)
(* runs until main joins it.  Unsigned widths are scaled down: U64Bits     *)
(* stands for the 64 bits of uint64_t and UBits for the 32 of unsigned    *)
(* int, so that their wrap-around stays in reach of TLC.                   *)
(***************************************************************************)
EXTENDS Integers, Sequences

CONSTANTS
    U64Bits,       \* width of uint64_t (params.SendSleep, params.BucketWidth)
    UBits,         \* width of unsigned int (hardware_concurrency())
    NanoPerMicro,  \* Evaluator::NanoPerMicro
    SleepArgs,     \* values given to --send-sleep, in microseconds
    BucketArgs,    \* values given to --bucket-width, in microseconds
    CpuArgs,       \* values given to --send-cpu
    Default,       \* --send-cpu not given
    OnlineCpus,    \* the number of CPUs the host really has online
    HcValues,      \* what std::thread::hardware_concurrency() may return
    SpawnCanFail   \* std::thread's constructor may throw (EAGAIN)

ASSUME OrchestratorAssumption ==
    /\ U64Bits \in Nat \ {0}
    /\ 1000 < 2^U64Bits   \* DefaultSendSleepMicroseconds fits in a uint64_t
    /\ UBits \in Nat \ {0}
    /\ NanoPerMicro \in Nat \ {0}
    /\ SleepArgs \subseteq 0..(2^U64Bits - 1)
    /\ BucketArgs \subseteq 0..(2^U64Bits - 1)
    /\ CpuArgs \subseteq Int
    /\ \A c \in CpuArgs : c # Default
    /\ OnlineCpus \in Nat \ {0}
    /\ HcValues \subseteq {0, OnlineCpus}   \* 0: "not computable"
    /\ SpawnCanFail \in BOOLEAN

U64 == 2^U64Bits

\* The value of an unsigned int read back as an int (two's complement).
IntOfUnsigned(u) == IF u >= 2^(UBits - 1) THEN u - 2^UBits ELSE u

Max2U(a, b) == IF a >= b THEN a ELSE b

\* std::max(std::thread::hardware_concurrency() - 1, 0U): the subtraction
\* wraps before the max, so the max never clamps anything.
DefaultCpuCore(hc) == IntOfUnsigned(Max2U((hc - 1) % 2^UBits, 0))

\* The outcome of Evaluator::ParseArguments and the two early-exit flags.
CliOutcomes == {"bad", "help", "version", "run"}

\* stat/open/write of /dev/cpu_dma_latency in SetLatencyTarget.
LatencyDevices == {"absent", "unopenable", "writeFails", "ok"}

Args == [cli: CliOutcomes, noConfig: BOOLEAN, onlyConfig: BOOLEAN,
         sleep: SleepArgs, bucket: BucketArgs, cpu: CpuArgs \cup {Default},
         nic: BOOLEAN]

Hosts == [root: BOOLEAN, hc: HcValues, mlock: BOOLEAN,
          latency: LatencyDevices]

Workers == {"sender", "receiver"}

Abort == 134   \* std::terminate: SIGABRT, the status 128 + 6 a shell sees

VARIABLES
    args,         \* the command line, fixed
    host,         \* euid, hardware_concurrency(), mlockall, the veto device
    pc,           \* where main() is
    exitCode,     \* the status main() returns
    sendSleep,    \* params.SendSleep (us, then ns)
    bucketWidth,  \* params.BucketWidth (us, then ns)
    sendCpu,      \* params.SendCpu
    audited,      \* ReportSystemConfiguration was called
    fd,           \* latencyFd: "none", "open" or "closed"
    running,      \* joinable std::thread objects
    toSpawn,      \* what main() still has to construct, in order
    toJoin,       \* what main() still has to join, in order
    spawnFailed   \* a constructor threw

vars == <<args, host, pc, exitCode, sendSleep, bucketWidth, sendCpu, audited,
          fd, running, toSpawn, toJoin, spawnFailed>>

Init ==
    /\ args \in Args
    /\ host \in Hosts
    /\ pc = "parse"
    /\ exitCode = 0
    /\ sendSleep = 1000
    /\ bucketWidth = 0
    /\ sendCpu = DefaultCpuCore(host.hc)
    /\ audited = FALSE
    /\ fd = "none"
    /\ running = {}
    /\ toSpawn = <<>>
    /\ toJoin = <<>>
    /\ spawnFailed = FALSE

\* A return from main() before any resource is held.
Return(code) ==
    /\ pc' = "exited"
    /\ exitCode' = code

-----------------------------------------------------------------------------
(* The steps of main(), in order.                                          *)

\* ParseArguments fails: help, return 1; --help or --version: return 0.
\* Otherwise the parsed values replace the defaults.
Parse ==
    /\ pc = "parse"
    /\ \/ args.cli = "bad" /\ Return(1)
          /\ UNCHANGED <<sendSleep, bucketWidth, sendCpu>>
       \/ args.cli \in {"help", "version"} /\ Return(0)
          /\ UNCHANGED <<sendSleep, bucketWidth, sendCpu>>
       \/ /\ args.cli = "run"
          /\ pc' = "flags"
          /\ sendSleep' = args.sleep
          /\ bucketWidth' = args.bucket
          /\ sendCpu' = IF args.cpu = Default THEN sendCpu ELSE args.cpu
          /\ UNCHANGED exitCode
    /\ UNCHANGED <<args, host, audited, fd, running, toSpawn, toJoin, spawnFailed>>

\* --no-config together with --only-config: return 1.
CheckFlags ==
    /\ pc = "flags"
    /\ IF args.noConfig /\ args.onlyConfig THEN Return(1)
       ELSE pc' = "root" /\ UNCHANGED exitCode
    /\ UNCHANGED <<args, host, sendSleep, bucketWidth, sendCpu, audited, fd,
                   running, toSpawn, toJoin, spawnFailed>>

\* Mutant: the euid check is missing.
CheckRootMissing ==
    /\ pc = "root"
    /\ pc' = "audit"
    /\ UNCHANGED <<args, host, exitCode, sendSleep, bucketWidth, sendCpu,
                   audited, fd, running, toSpawn, toJoin, spawnFailed>>

\* geteuid() != 0: return 1.
CheckRoot ==
    /\ pc = "root"
    /\ IF ~host.root THEN Return(1)
       ELSE pc' = "audit" /\ UNCHANGED exitCode
    /\ UNCHANGED <<args, host, sendSleep, bucketWidth, sendCpu, audited, fd,
                   running, toSpawn, toJoin, spawnFailed>>

\* ReportSystemConfiguration(params.SendCpu, params.NicName) unless
\* --no-config; then --only-config returns 0.
Audit ==
    /\ pc = "audit"
    /\ audited' = ~args.noConfig
    /\ IF args.onlyConfig THEN Return(0)
       ELSE pc' = "mlock" /\ UNCHANGED exitCode
    /\ UNCHANGED <<args, host, sendSleep, bucketWidth, sendCpu, fd, running,
                   toSpawn, toJoin, spawnFailed>>

\* mlockall(MCL_CURRENT | MCL_FUTURE) != 0: return 1.
LockMemory ==
    /\ pc = "mlock"
    /\ IF ~host.mlock THEN Return(1)
       ELSE pc' = "convert" /\ UNCHANGED exitCode
    /\ UNCHANGED <<args, host, sendSleep, bucketWidth, sendCpu, audited, fd,
                   running, toSpawn, toJoin, spawnFailed>>

\* params.SendSleep *= NanoPerMicro; a zero BucketWidth becomes
\* SendSleep * 0.125 (truncated), any other is multiplied by NanoPerMicro.
\* Both products are uint64_t and wrap.
Convert ==
    /\ pc = "convert"
    /\ pc' = "latency"
    /\ sendSleep' = (sendSleep * NanoPerMicro) % U64
    /\ bucketWidth' = IF bucketWidth = 0 THEN sendSleep' \div 8
                      ELSE (bucketWidth * NanoPerMicro) % U64
    /\ UNCHANGED <<args, host, exitCode, sendCpu, audited, fd, running,
                   toSpawn, toJoin, spawnFailed>>

\* The order in which main() constructs the threads: the tester (its
\* constructor opens the NIC) before receiver, sender and reporter.
SpawnOrder ==
    IF args.nic THEN <<"tester", "receiver", "sender", "reporter">>
    ELSE <<"sender", "reporter">>

\* The order in which main() joins them.
JoinOrder ==
    IF args.nic THEN <<"receiver", "sender", "reporter">>
    ELSE <<"sender", "reporter">>

\* Mutant: the FileDescriptor returned is a temporary, closed at once.
SetLatencyTargetTemporary ==
    /\ pc = "latency"
    /\ pc' = "spawn"
    /\ fd' = IF host.latency \in {"writeFails", "ok"} THEN "closed" ELSE "none"
    /\ toSpawn' = SpawnOrder
    /\ toJoin' = JoinOrder
    /\ UNCHANGED <<args, host, exitCode, sendSleep, bucketWidth, sendCpu,
                   audited, running, spawnFailed>>

\* auto latencyFd = SetLatencyTarget(): no descriptor when stat or open
\* fails (a warning); one held open otherwise, even when the write of the
\* zero fails.
SetLatencyTarget ==
    /\ pc = "latency"
    /\ pc' = "spawn"
    /\ fd' = IF host.latency \in {"writeFails", "ok"} THEN "open" ELSE "none"
    /\ toSpawn' = SpawnOrder
    /\ toJoin' = JoinOrder
    /\ UNCHANGED <<args, host, exitCode, sendSleep, bucketWidth, sendCpu,
                   audited, running, spawnFailed>>

\* The next constructor succeeds: a thread starts (the tester is an object).
Spawn ==
    /\ pc = "spawn"
    /\ toSpawn # <<>>
    /\ running' = IF Head(toSpawn) = "tester" THEN running
                  ELSE running \cup {Head(toSpawn)}
    /\ toSpawn' = Tail(toSpawn)
    /\ UNCHANGED <<args, host, pc, exitCode, sendSleep, bucketWidth, sendCpu,
                   audited, fd, toJoin, spawnFailed>>

\* The next constructor throws.  With no joinable thread yet, the stack
\* unwinds (latencyFd closes) into the catch, which returns 1; with one, the
\* joinable std::thread's destructor calls std::terminate.
SpawnFail ==
    /\ SpawnCanFail
    /\ pc = "spawn"
    /\ toSpawn # <<>>
    /\ spawnFailed' = TRUE
    /\ pc' = "exited"
    /\ IF running = {}
       THEN exitCode' = 1 /\ fd' = IF fd = "open" THEN "closed" ELSE fd
       ELSE exitCode' = Abort /\ UNCHANGED fd
    /\ UNCHANGED <<args, host, sendSleep, bucketWidth, sendCpu, audited,
                   running, toSpawn, toJoin>>

\* Every thread is started: main() joins them.
Started ==
    /\ pc = "spawn"
    /\ toSpawn = <<>>
    /\ pc' = "join"
    /\ UNCHANGED <<args, host, exitCode, sendSleep, bucketWidth, sendCpu,
                   audited, fd, running, toSpawn, toJoin, spawnFailed>>

\* join() of the next thread returns (the workers stop on their own, the
\* reporter after liveReport is cleared).
Join ==
    /\ pc = "join"
    /\ toJoin # <<>>
    /\ running' = running \ {Head(toJoin)}
    /\ toJoin' = Tail(toJoin)
    /\ UNCHANGED <<args, host, pc, exitCode, sendSleep, bucketWidth, sendCpu,
                   audited, fd, toSpawn, spawnFailed>>

\* The final PrintReport, then the end of the try block: latencyFd's
\* destructor closes the descriptor and main() returns 0.
FinalReport ==
    /\ pc = "join"
    /\ toJoin = <<>>
    /\ pc' = "exited"
    /\ exitCode' = 0
    /\ fd' = IF fd = "open" THEN "closed" ELSE fd
    /\ UNCHANGED <<args, host, sendSleep, bucketWidth, sendCpu, audited,
                   running, toSpawn, toJoin, spawnFailed>>

\* The process is gone.
Exited ==
    /\ pc = "exited"
    /\ UNCHANGED vars

Next ==
    \/ Parse \/ CheckFlags \/ CheckRoot \/ Audit \/ LockMemory \/ Convert
    \/ SetLatencyTarget \/ Spawn \/ SpawnFail \/ Started \/ Join
    \/ FinalReport \/ Exited

Spec == Init /\ [][Next]_vars

-----------------------------------------------------------------------------
(* Properties.                                                             *)

TypeOK ==
    /\ args \in Args
    /\ host \in Hosts
    /\ pc \in {"parse", "flags", "root", "audit", "mlock", "convert",
               "latency", "spawn", "join", "exited"}
    /\ exitCode \in {0, 1, Abort}
    /\ sendSleep \in 0..(U64 - 1)
    /\ bucketWidth \in 0..(U64 - 1)
    /\ audited \in BOOLEAN
    /\ fd \in {"none", "open", "closed"}
    /\ running \subseteq Workers \cup {"reporter"}
    /\ spawnFailed \in BOOLEAN

\* The C-state veto is a scoped handle (spec, section 9): whenever a
\* worker thread runs and the device could be opened, the descriptor is
\* open, and every exit path through main()'s own code has closed it.
LatencyVetoScoped ==
    /\ (running \cap Workers # {} /\ host.latency \in {"writeFails", "ok"})
           => fd = "open"
    /\ (pc = "exited" /\ exitCode # Abort) => fd # "open"

\* The exit status of section 6: 1 for an argument error, contradictory
\* flags, a non-root user, a failed mlockall or an error thrown in main(),
\* 0 otherwise (help, version, --only-config, a completed run).
SpecFailure ==
    \/ args.cli = "bad"
    \/ /\ args.cli = "run"
       /\ \/ args.noConfig /\ args.onlyConfig
          \/ ~host.root
          \/ ~args.onlyConfig /\ ~host.mlock
          \/ spawnFailed

ExitCodeAsSpecified ==
    pc = "exited" => exitCode = IF SpecFailure THEN 1 ELSE 0

\* Every exit through main()'s own returns, that is all but std::terminate,
\* has the status of section 6: a thread constructor that throws before
\* any thread runs is caught and gives 1 like the other failures.
OrderlyExitCode ==
    (pc = "exited" /\ exitCode # Abort) => exitCode = IF SpecFailure THEN 1 ELSE 0

\* The order of main(): a measurement thread starts only after the euid
\* check passed, ReportSystemConfiguration ran (unless --no-config),
\* mlockall succeeded and the cpu_dma_latency veto is held whenever the
\* device could be opened, so no sample is taken on an unprepared host.
PreparedBeforeThreads ==
    [][running' \ running # {} =>
          /\ host.root
          /\ audited = ~args.noConfig
          /\ host.mlock
          /\ fd = IF host.latency \in {"writeFails", "ok"} THEN "open" ELSE "none"]_vars

\* Section 3: the measurement threads start only with validated timing
\* (send_sleep_ns > 0, bucket_width_ns > 0) and, when --send-cpu is not
\* given, on the last online core, within [0, online CPUs).
ValidParametersAtSpawn ==
    running # {} =>
        /\ sendSleep > 0
        /\ bucketWidth > 0
        /\ args.cpu = Default => sendCpu \in 0..(OnlineCpus - 1)

=============================================================================
