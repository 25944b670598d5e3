------------------------- MODULE Orchestrator_proofs -------------------------
(***************************************************************************)
(* Proofs about main(): type correctness, and that the cpu_dma_latency     *)
(* veto is held exactly while the workers can run, for every width,        *)
(* argument set and host.                                                  *)
(***************************************************************************)
EXTENDS Orchestrator, SequenceTheorems, TLAPS

\* What main() constructs and joins.
Threads == {"tester", "receiver", "sender", "reporter"}

\* The descriptor SetLatencyTarget hands back on this host.
HeldFd == IF host.latency \in {"writeFails", "ok"} THEN "open" ELSE "none"

\* The steps before any resource is taken.
Preamble == {"parse", "flags", "root", "audit", "mlock", "convert", "latency"}

\* LatencyVetoScoped is not inductive: a Spawn needs to know the descriptor
\* SetLatencyTarget left, and FinalReport that every thread started is
\* still to be joined, so that none runs once toJoin is empty.
Phases ==
    /\ toSpawn \in Seq(Threads)
    /\ toJoin \in Seq(Threads)
    /\ pc \in Preamble => fd = "none" /\ running = {}
    /\ pc \in {"spawn", "join"} => fd = HeldFd /\ running \subseteq Range(toJoin)
    /\ pc = "spawn" => Range(toSpawn) \subseteq Range(toJoin) \cup {"tester"}
    /\ pc = "exited" /\ exitCode = Abort => fd = HeldFd
    /\ pc = "exited" /\ exitCode # Abort => fd # "open" /\ running = {}

IInv == TypeOK /\ Phases

-----------------------------------------------------------------------------
(* Lemmas.                                                                 *)

\* Head and Tail of a non-empty sequence, in terms of its range.
LEMMA HeadTailRange ==
    ASSUME NEW S, NEW s \in Seq(S), s # << >>
    PROVE  /\ Tail(s) \in Seq(S)
           /\ Head(s) \in Range(s)
           /\ Range(Tail(s)) \subseteq Range(s)
           /\ \A x \in Range(s) : x # Head(s) => x \in Range(Tail(s))
<1>1. /\ Tail(s) \in Seq(S)
      /\ Len(Tail(s)) = Len(s) - 1
      /\ \A i \in 1..Len(Tail(s)) : Tail(s)[i] = s[i + 1]
  BY HeadTailProperties
<1>2. /\ DOMAIN s = 1..Len(s)
      /\ DOMAIN Tail(s) = 1..Len(Tail(s))
      /\ Len(s) \in Nat \ {0}
      /\ Head(s) = s[1]
  BY <1>1, EmptySeq
<1>3. Head(s) \in Range(s)
  BY <1>2 DEF Range
<1>4. Range(Tail(s)) \subseteq Range(s)
  BY <1>1, <1>2 DEF Range
<1>5. ASSUME NEW x \in Range(s), x # Head(s) PROVE x \in Range(Tail(s))
  <2>1. PICK i \in 1..Len(s) : s[i] = x
    BY <1>2 DEF Range
  <2>2. i - 1 \in 1..Len(Tail(s)) /\ Tail(s)[i - 1] = x
    BY <1>1, <1>2, <2>1, <1>5
  <2>3. QED
    BY <1>2, <2>2 DEF Range
<1>6. QED
  BY <1>1, <1>3, <1>4, <1>5

\* The converted values stay within the width of uint64_t.
LEMMA ConvertRange ==
    ASSUME NEW x \in 0..(U64 - 1)
    PROVE  /\ (x * NanoPerMicro) % U64 \in 0..(U64 - 1)
           /\ ((x * NanoPerMicro) % U64) \div 8 \in 0..(U64 - 1)
<1>1. U64 \in Nat \ {0}
  BY OrchestratorAssumption DEF U64
<1>2. (x * NanoPerMicro) % U64 \in 0..(U64 - 1)
  BY <1>1, OrchestratorAssumption
<1>3. QED
  BY <1>1, <1>2

\* The order main() constructs the threads in, and the one it joins them in.
LEMMA Orders ==
    /\ SpawnOrder \in Seq(Threads)
    /\ JoinOrder \in Seq(Threads)
    /\ Range(SpawnOrder) \subseteq Range(JoinOrder) \cup {"tester"}
<1>1. CASE args.nic
  BY <1>1 DEF SpawnOrder, JoinOrder, Threads, Range
<1>2. CASE ~args.nic
  BY <1>2 DEF SpawnOrder, JoinOrder, Threads, Range
<1>3. QED
  BY <1>1, <1>2

-----------------------------------------------------------------------------
(* The inductive invariant.                                                *)

LEMMA InitIInv == Init => IInv
<1> SUFFICES ASSUME Init PROVE IInv
  OBVIOUS
<1>1. 1000 \in 0..(U64 - 1) /\ 0 \in 0..(U64 - 1)
  BY OrchestratorAssumption DEF U64
<1>2. << >> \in Seq(Threads)
  BY EmptySeq
<1>3. TypeOK
  BY <1>1 DEF Init, TypeOK, Abort
<1>4. Phases
  BY <1>2 DEF Init, Phases, Preamble
<1>5. QED
  BY <1>3, <1>4 DEF IInv

LEMMA IInvStep == IInv /\ [Next]_vars => IInv'
<1> SUFFICES ASSUME IInv, [Next]_vars PROVE IInv'
  OBVIOUS
<1> USE DEF IInv, TypeOK, Phases
<1>1. CASE Parse
  <2>1. args.sleep \in 0..(U64 - 1) /\ args.bucket \in 0..(U64 - 1)
    BY OrchestratorAssumption DEF Args, U64
  <2>2. pc = "parse" /\ fd = "none" /\ running = {}
    BY <1>1 DEF Parse, Preamble
  <2>3. CASE args.cli = "run"
    BY <1>1, <2>1, <2>2, <2>3 DEF Parse, Return, Preamble
  <2>4. CASE args.cli # "run"
    BY <1>1, <2>2, <2>4 DEF Parse, Return, Preamble, Abort
  <2>5. QED
    BY <2>3, <2>4
<1>2. CASE CheckFlags
  BY <1>2 DEF CheckFlags, Return, Preamble, Abort
<1>3. CASE CheckRoot
  BY <1>3 DEF CheckRoot, Return, Preamble, Abort
<1>4. CASE Audit
  BY <1>4 DEF Audit, Return, Preamble, Abort
<1>5. CASE LockMemory
  BY <1>5 DEF LockMemory, Return, Preamble, Abort
<1>6. CASE Convert
  <2>1. sendSleep' = (sendSleep * NanoPerMicro) % U64
    BY <1>6 DEF Convert
  <2>2. sendSleep' \in 0..(U64 - 1) /\ sendSleep' \div 8 \in 0..(U64 - 1)
    BY <2>1, ConvertRange
  <2>3. bucketWidth' \in 0..(U64 - 1)
    BY <1>6, <2>2, ConvertRange DEF Convert
  <2>4. QED
    BY <1>6, <2>2, <2>3 DEF Convert, Preamble
<1>7. CASE SetLatencyTarget
  BY <1>7, Orders DEF SetLatencyTarget, HeldFd, Preamble
<1>8. CASE Spawn
  <2>1. toSpawn # << >> /\ toSpawn \in Seq(Threads) /\ pc = "spawn"
    BY <1>8 DEF Spawn
  <2>2. /\ Tail(toSpawn) \in Seq(Threads)
        /\ Head(toSpawn) \in Range(toJoin) \cup {"tester"}
        /\ Range(Tail(toSpawn)) \subseteq Range(toJoin) \cup {"tester"}
        /\ Head(toSpawn) \in Threads
    BY <2>1, HeadTailRange, RangeOfSeq
  <2>3. running' \subseteq Range(toJoin) /\ running' \subseteq Workers \cup {"reporter"}
    BY <1>8, <2>1, <2>2 DEF Spawn, Threads, Workers
  <2>4. QED
    BY <1>8, <2>1, <2>2, <2>3 DEF Spawn, HeldFd, Preamble
<1>9. CASE SpawnFail
  BY <1>9 DEF SpawnFail, HeldFd, Preamble, Abort
<1>10. CASE Started
  BY <1>10 DEF Started, Preamble, HeldFd
<1>11. CASE Join
  <2>1. toJoin # << >> /\ toJoin \in Seq(Threads) /\ pc = "join"
    BY <1>11 DEF Join
  <2>2. /\ Tail(toJoin) \in Seq(Threads)
        /\ \A x \in Range(toJoin) : x # Head(toJoin) => x \in Range(Tail(toJoin))
    BY <2>1, HeadTailRange
  <2>3. running' \subseteq Range(toJoin')
    BY <1>11, <2>1, <2>2 DEF Join
  <2>4. QED
    BY <1>11, <2>1, <2>2, <2>3 DEF Join, HeldFd, Preamble
<1>12. CASE FinalReport
  <2>1. toJoin = << >> /\ pc = "join"
    BY <1>12 DEF FinalReport
  <2>2. running = {}
    BY <2>1 DEF Range
  <2>3. QED
    BY <1>12, <2>1, <2>2 DEF FinalReport, Preamble, Abort
<1>13. CASE Exited \/ UNCHANGED vars
  BY <1>13 DEF Exited, vars, HeldFd, Preamble
<1>14. QED
  BY <1>1, <1>2, <1>3, <1>4, <1>5, <1>6, <1>7, <1>8, <1>9, <1>10, <1>11,
     <1>12, <1>13 DEF Next

-----------------------------------------------------------------------------
(* The exit status.                                                        *)

\* OrderlyExitCode is not inductive either: a Return needs to know which
\* of the earlier checks main() has passed to reach its line.
ExitInv ==
    /\ pc \in {"flags", "root", "audit", "mlock", "convert", "latency", "spawn", "join"}
           => args.cli = "run"
    /\ pc \in {"root", "audit", "mlock", "convert", "latency", "spawn", "join"}
           => ~(args.noConfig /\ args.onlyConfig)
    /\ pc \in {"audit", "mlock", "convert", "latency", "spawn", "join"} => host.root
    /\ pc \in {"mlock", "convert", "latency", "spawn", "join"} => ~args.onlyConfig
    /\ pc \in {"convert", "latency", "spawn", "join"} => host.mlock
    /\ pc # "exited" => ~spawnFailed
    /\ OrderlyExitCode

LEMMA InitExitInv == Init => ExitInv
BY DEF Init, ExitInv, OrderlyExitCode

LEMMA ExitInvStep == TypeOK /\ ExitInv /\ [Next]_vars => ExitInv'
<1> SUFFICES ASSUME TypeOK, ExitInv, [Next]_vars PROVE ExitInv'
  OBVIOUS
<1> USE DEF ExitInv, OrderlyExitCode, SpecFailure, TypeOK
<1>1. CASE Parse
  BY <1>1 DEF Parse, Return, Abort
<1>2. CASE CheckFlags
  BY <1>2 DEF CheckFlags, Return, Abort
<1>3. CASE CheckRoot
  BY <1>3 DEF CheckRoot, Return, Abort
<1>4. CASE Audit
  BY <1>4 DEF Audit, Return, Abort
<1>5. CASE LockMemory
  BY <1>5 DEF LockMemory, Return, Abort
<1>6. CASE Convert
  BY <1>6 DEF Convert
<1>7. CASE SetLatencyTarget
  BY <1>7 DEF SetLatencyTarget
<1>8. CASE Spawn
  BY <1>8 DEF Spawn
<1>9. CASE SpawnFail
  BY <1>9 DEF SpawnFail, Abort
<1>10. CASE Started
  BY <1>10 DEF Started
<1>11. CASE Join
  BY <1>11 DEF Join
<1>12. CASE FinalReport
  BY <1>12 DEF FinalReport, Abort
<1>13. CASE Exited \/ UNCHANGED vars
  BY <1>13 DEF Exited, vars
<1>14. QED
  BY <1>1, <1>2, <1>3, <1>4, <1>5, <1>6, <1>7, <1>8, <1>9, <1>10, <1>11,
     <1>12, <1>13 DEF Next

-----------------------------------------------------------------------------
(* Theorems.                                                               *)

\* The cpu_dma_latency veto (main(), auto latencyFd = SetLatencyTarget())
\* is held while a worker runs whenever the device could be opened, and
\* every exit through main()'s own code has released it.
THEOREM VetoScoped == Spec => []LatencyVetoScoped
<1>1. IInv => LatencyVetoScoped
  BY DEF IInv, TypeOK, Phases, HeldFd, Preamble, LatencyVetoScoped
<1>2. QED
  BY <1>1, InitIInv, IInvStep, PTL DEF Spec

\* Every return of main() (every exit but std::terminate) gives the status
\* of section 6, for every argument set and host.
THEOREM OrderlyExit == Spec => []OrderlyExitCode
<1>1. IInv /\ ExitInv => OrderlyExitCode
  BY DEF ExitInv
<1>2. Init => IInv /\ ExitInv
  BY InitIInv, InitExitInv
<1>3. IInv /\ ExitInv /\ [Next]_vars => (IInv /\ ExitInv)'
  BY IInvStep, ExitInvStep DEF IInv
<1>4. QED
  BY <1>1, <1>2, <1>3, PTL DEF Spec

-----------------------------------------------------------------------------
(* Preparation before the threads.                                         *)

\* From the audit on, audited records whether ReportSystemConfiguration ran:
\* it did exactly when --no-config was not given.
AuditedInv ==
    pc \in {"mlock", "convert", "latency", "spawn", "join"} => audited = ~args.noConfig

LEMMA AuditedInvStep == AuditedInv /\ [Next]_vars => AuditedInv'
<1> SUFFICES ASSUME AuditedInv, [Next]_vars PROVE AuditedInv'
  OBVIOUS
<1> USE DEF AuditedInv
<1>1. CASE Parse \/ CheckFlags \/ CheckRoot
  BY <1>1 DEF Parse, CheckFlags, CheckRoot, Return
<1>2. CASE Audit
  BY <1>2 DEF Audit, Return
<1>3. CASE LockMemory \/ Convert \/ SetLatencyTarget
  BY <1>3 DEF LockMemory, Convert, SetLatencyTarget, Return
<1>4. CASE Spawn \/ SpawnFail \/ Started \/ Join \/ FinalReport
  BY <1>4 DEF Spawn, SpawnFail, Started, Join, FinalReport
<1>5. CASE Exited \/ UNCHANGED vars
  BY <1>5 DEF Exited, vars
<1> QED
  BY <1>1, <1>2, <1>3, <1>4, <1>5 DEF Next

\* Only Spawn adds a thread, and it runs with main() at "spawn", where the
\* three invariants give the checks passed and the veto held.
LEMMA PreparedStep ==
    IInv /\ ExitInv /\ AuditedInv /\ [Next]_vars =>
        [running' \ running # {} =>
            /\ host.root
            /\ audited = ~args.noConfig
            /\ host.mlock
            /\ fd = IF host.latency \in {"writeFails", "ok"} THEN "open" ELSE "none"]_vars
<1> SUFFICES ASSUME IInv, ExitInv, AuditedInv, [Next]_vars, running' \ running # {}
             PROVE  /\ host.root
                    /\ audited = ~args.noConfig
                    /\ host.mlock
                    /\ fd = IF host.latency \in {"writeFails", "ok"} THEN "open" ELSE "none"
  OBVIOUS
<1>1. pc = "spawn"
  <2>1. CASE Spawn
    BY <2>1 DEF Spawn
  <2>2. CASE ~Spawn
    <3>1. running' \subseteq running
      BY <2>2 DEF Next, Parse, CheckFlags, CheckRoot, Audit, LockMemory, Convert,
         SetLatencyTarget, SpawnFail, Started, Join, FinalReport, Exited, vars
    <3> QED
      BY <3>1
  <2> QED
    BY <2>1, <2>2
<1> QED
  BY <1>1 DEF IInv, Phases, HeldFd, ExitInv, AuditedInv

\* main() starts a measurement thread only after the euid check, the audit
\* (unless --no-config) and mlockall, and while it holds the cpu_dma_latency
\* veto whenever the device opened, for every argument set and host.
THEOREM PreparedBefore == Spec => PreparedBeforeThreads
<1>1. Init => IInv /\ ExitInv /\ AuditedInv
  BY InitIInv, InitExitInv DEF Init, AuditedInv
<1>2. IInv /\ ExitInv /\ AuditedInv /\ [Next]_vars => (IInv /\ ExitInv /\ AuditedInv)'
  BY IInvStep, ExitInvStep, AuditedInvStep DEF IInv
<1>3. QED
  BY <1>1, <1>2, PreparedStep, PTL DEF Spec, PreparedBeforeThreads

=============================================================================
