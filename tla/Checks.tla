------------------------------- MODULE Checks -------------------------------
(***************************************************************************)
(* The check catalog of config.cpp: the Evaluate method of every ICheck,   *)
(* as a function of the check context and of what the data source returns *)
(* for the files the check reads.                                          *)
(*                                                                         *)
(* A file's content is abstracted to the classes the check tells apart    *)
(* after Trim; None is a file that cannot be read (std::nullopt).  A CPU   *)
(* list file is given by the set ParseCpuList makes of it (the parser is   *)
(* the CpuList module).  What a check learns from the machine and not      *)
(* from the data source (uname, getifaddrs, the queues directory) is the   *)
(* environment env.                                                        *)
(***************************************************************************)
EXTENDS Integers, FiniteSets

CONSTANTS
    None,         \* std::nullopt: an unreadable file, an unset optional
    Cpus,         \* CPU numbers
    Irqs,         \* IRQ numbers in /proc/interrupts
    RxQueues,     \* rx-* queue directories of a NIC
    FreqValues    \* kHz values a cpufreq file may hold

ASSUME ChecksAssumption ==
    /\ Cpus \subseteq Nat /\ 0 \in Cpus
    /\ Irqs \subseteq Nat
    /\ FreqValues \subseteq Nat
    /\ \A c \in Cpus : c # None

Pass == "Pass"
Fail == "Fail"
Unknown == "Unknown"

\* The NIC names a context may carry: a real interface, main()'s sentinel
\* and the empty name.
Nic == "eth0"
NoNicSelected == "NoNicSelected"
NicNames == {Nic, NoNicSelected, ""}

Opt(S) == S \cup {None}
CpuFile == Opt(SUBSET Cpus)

\* The label at the end of a /proc/interrupts row: one naming the NIC,
\* another device's, or none at all.
Labels == {Nic, "other", "unlabeled"}
Rows == [label: Labels, hot: BOOLEAN]   \* hot: non-zero at the RT core

\* The kernel command line as the set of its tokens, and the tokens that
\* contain another as a substring (what std::string::find sees).
CmdTokens == {"cpuidle.off=1", "intel_idle.max_cstate=1",
              "intel_idle.max_cstate=10", "processor.max_cstate=1", "quiet"}
Embeds == {<<"intel_idle.max_cstate=10", "intel_idle.max_cstate=1">>}
CmdlineFind(cmd, needle) == \E t \in cmd : t = needle \/ <<t, needle>> \in Embeds

\* The contents a clock source file is abstracted to.
ClocksourceNames == {"tsc", "arch_sys_counter", "hpet", "jiffies", "acpi_pm"}

\* std::nullopt holds no value: None is not a string, nor one of the clock
\* sources a file is abstracted to.
ASSUME NoneAssumption ==
    /\ None \notin STRING
    /\ None \notin ClocksourceNames

\* What the data source returns, path by path.
DataSources == [
    realtime: Opt({"1", "0", "other"}),            \* /sys/kernel/realtime
    bootConfig: Opt({"rt", "preempt", "none"}),    \* /boot/config-<release>
    swaps: Opt({"empty", "headerOnly", "entries"}),\* /proc/swaps
    timerMigration: Opt({"0", "1"}),
    rtRuntime: Opt({"-1", "950000"}),               \* sched_rt_runtime_us
    clocksource: Opt(ClocksourceNames),
    isolated: CpuFile, nohzSys: CpuFile, rcuSys: CpuFile,
    nohzCmd: CpuFile, rcuCmd: CpuFile, irqaffinityCmd: CpuFile,
    governor: [Cpus -> Opt({"performance", "powersave"})],
    freq: [Cpus -> [cur: Opt(FreqValues), min: Opt(FreqValues), max: Opt(FreqValues)]],
    interrupts: Opt([cols: SUBSET Cpus, row: [Irqs -> Opt(Rows)]]),
    irqAffinity: [Irqs -> CpuFile],                 \* /proc/irq/<n>/smp_affinity_list
    siblings: [Cpus -> CpuFile],                    \* topology/thread_siblings_list
    cmdline: Opt(SUBSET CmdTokens),                 \* /proc/cmdline
    intelCstate: Opt({"0", "1", "9"}), processorCstate: Opt({"0", "1", "9"}),
    boost: Opt({"0", "1", "other"}), noTurbo: Opt({"0", "1", "other"}),
    net: [NicNames -> [operstate: Opt({"up", "down", ""}),
                       carrier: Opt({"1", "0", "other"}),
                       address: Opt({"set"})]],
    rps: [RxQueues -> Opt({"zero", "nonzero"})],     \* rx-*/rps_cpus
    route4: Opt(SUBSET NicNames), route6: Opt(SUBSET NicNames)]  \* default routes

\* What the checks read from the machine itself.
Environments == [
    uname: {"fail", "rt", "plain"},          \* uname(); "rt": PREEMPT RT in version
    ifaddrs: Opt(SUBSET NicNames),           \* getifaddrs(): the NICs with an address
    queues: [NicNames -> Opt(SUBSET RxQueues)]]   \* /sys/class/net/<nic>/queues

\* The contexts ReportSystemConfiguration builds: an empty NIC name is unset.
Contexts == [cpu: Opt(Cpus), nic: Opt(NicNames \ {""})]

\* A data source on which nothing can be read, and a machine on which
\* uname works and nothing else is known: the bases hosts are built from.
NoFiles ==
    [realtime |-> None, bootConfig |-> None, swaps |-> None,
     timerMigration |-> None, rtRuntime |-> None, clocksource |-> None,
     isolated |-> None, nohzSys |-> None, rcuSys |-> None, nohzCmd |-> None,
     rcuCmd |-> None, irqaffinityCmd |-> None,
     governor |-> [c \in Cpus |-> None],
     freq |-> [c \in Cpus |-> [cur |-> None, min |-> None, max |-> None]],
     interrupts |-> None, irqAffinity |-> [i \in Irqs |-> None],
     siblings |-> [c \in Cpus |-> None], cmdline |-> None,
     intelCstate |-> None, processorCstate |-> None, boost |-> None,
     noTurbo |-> None,
     net |-> [n \in NicNames |-> [operstate |-> None, carrier |-> None, address |-> None]],
     rps |-> [q \in RxQueues |-> None], route4 |-> None, route6 |-> None]

PlainHost == [uname |-> "plain", ifaddrs |-> {}, queues |-> [n \in NicNames |-> None]]

\* A NIC that exists and is down, and one that does not exist.
Down == [operstate |-> "down", carrier |-> "0", address |-> "set"]
NoNet == [operstate |-> None, carrier |-> None, address |-> None]

-----------------------------------------------------------------------------
(* System checks.                                                          *)

\* /sys/kernel/realtime, then uname -v, then /boot/config-<release>.
EvalPreemptRT(ds, env) ==
    IF ds.realtime = "1" THEN Pass
    ELSE IF ds.realtime = "0" THEN Fail
    ELSE IF env.uname = "fail" THEN Fail
    ELSE IF env.uname = "rt" THEN Pass
    ELSE IF ds.bootConfig = "rt" THEN Pass
    ELSE Fail

\* /proc/swaps: no header line is Unknown; entries after it are a Fail.
EvalSwap(ds) ==
    IF ds.swaps \in {None, "empty"} THEN Unknown
    ELSE IF ds.swaps = "headerOnly" THEN Pass
    ELSE Fail

EvalTimerMigration(ds) ==
    IF ds.timerMigration = None THEN Unknown
    ELSE IF ds.timerMigration = "0" THEN Pass ELSE Fail

EvalRtThrottling(ds) ==
    IF ds.rtRuntime = None THEN Unknown
    ELSE IF ds.rtRuntime = "-1" THEN Pass ELSE Fail

\* tsc, arch_sys_counter (whatever the alternatives) and hpet pass,
\* jiffies fails, anything else is Unknown.
EvalClocksource(ds) ==
    IF ds.clocksource = None THEN Unknown
    ELSE IF ds.clocksource \in {"tsc", "arch_sys_counter", "hpet"} THEN Pass
    ELSE IF ds.clocksource = "jiffies" THEN Fail
    ELSE Unknown

-----------------------------------------------------------------------------
(* Core checks.  Each starts with "no CPU subject" when ctx.cpu is unset.  *)

\* CPU0 fails whatever the isolated list says, once the list is read.
EvalCoreIsolated(ctx, ds) ==
    IF ctx.cpu = None \/ ds.isolated = None THEN Unknown
    ELSE IF ctx.cpu = 0 THEN Fail
    ELSE IF ctx.cpu \in ds.isolated THEN Pass
    ELSE Fail

\* Mutant: the kernel parameter is preferred to the sysfs list.
DualSourceCmdlineFirst(ctx, sys, cmd) ==
    IF ctx.cpu = None THEN Unknown
    ELSE IF cmd # None THEN IF ctx.cpu \in cmd THEN Pass ELSE Fail
    ELSE IF sys # None THEN IF ctx.cpu \in sys THEN Pass ELSE Fail
    ELSE Unknown

\* The sysfs list when it can be read, else the kernel parameter.
DualSource(ctx, sys, cmd) ==
    IF ctx.cpu = None THEN Unknown
    ELSE IF sys # None THEN IF ctx.cpu \in sys THEN Pass ELSE Fail
    ELSE IF cmd # None THEN IF ctx.cpu \in cmd THEN Pass ELSE Fail
    ELSE Unknown

EvalNohzFull(ctx, ds) == DualSource(ctx, ds.nohzSys, ds.nohzCmd)

EvalRcuNoCbs(ctx, ds) == DualSource(ctx, ds.rcuSys, ds.rcuCmd)

EvalCpuGovernor(ctx, ds) ==
    IF ctx.cpu = None THEN Unknown
    ELSE IF ds.governor[ctx.cpu] = None THEN Unknown
    ELSE IF ds.governor[ctx.cpu] = "performance" THEN Pass
    ELSE Fail

\* Locked (min = max) and cur within (max * 5) / 100 of max passes; any
\* other complete reading fails; a partial one, or none (the /proc/cpuinfo
\* fallback only reports a MHz value), is Unknown.
EvalCpuFrequency(ctx, ds) ==
    IF ctx.cpu = None THEN Unknown
    ELSE LET f == ds.freq[ctx.cpu]
             tolerance == (f.max * 5) \div 100
             drift == IF f.cur >= f.max THEN f.cur - f.max ELSE f.max - f.cur
         IN  IF f.cur # None /\ f.min # None /\ f.max # None
             THEN IF f.min = f.max /\ drift <= tolerance THEN Pass ELSE Fail
             ELSE Unknown

\* The irqaffinity= kernel parameter: unset or empty is Unknown, the RT
\* core in it fails.
EvalIrqAffinity(ctx, ds) ==
    IF ctx.cpu = None \/ ds.irqaffinityCmd = None THEN Unknown
    ELSE IF ds.irqaffinityCmd = {} THEN Unknown
    ELSE IF ctx.cpu \in ds.irqaffinityCmd THEN Fail
    ELSE Pass

\* label.find(nic_filter): the empty filter is found in every label.
LabelHas(label, filter) == filter = "" \/ label = filter

\* /proc/interrupts: the RT core's column is known only when the header
\* (the first line naming CPU0) names it; a hot row is an offender when
\* unlabeled or when its label lacks the context's NIC name.
EvalNoUnrelatedIrqs(ctx, ds) ==
    IF ctx.cpu = None \/ ds.interrupts = None THEN Unknown
    ELSE LET t == ds.interrupts
             filter == IF ctx.nic = None THEN "" ELSE ctx.nic
             hotRows == {i \in Irqs : t.row[i] # None /\ t.row[i].hot}
             offender(i) == t.row[i].label = "unlabeled"
                            \/ ~LabelHas(t.row[i].label, filter)
         IN  IF ~(0 \in t.cols /\ ctx.cpu \in t.cols) THEN Unknown
             ELSE IF \E i \in hotRows : offender(i) THEN Fail
             ELSE Pass

\* The hyperthread siblings other than the core must all be isolated.
EvalSmtSibling(ctx, ds) ==
    IF ctx.cpu = None \/ ds.siblings[ctx.cpu] = None THEN Unknown
    ELSE LET others == ds.siblings[ctx.cpu] \ {ctx.cpu}
         IN  IF others = {} THEN Pass
             ELSE IF ds.isolated = None THEN Unknown
             ELSE IF others \subseteq ds.isolated THEN Pass
             ELSE Fail

\* A substring of /proc/cmdline, then the intel_idle and processor module
\* parameters.
CapParam(v) == IF v \in {"0", "1"} THEN Pass ELSE Fail

EvalCStates(ds) ==
    IF ds.cmdline # None /\ CmdlineFind(ds.cmdline, "cpuidle.off=1") THEN Pass
    ELSE IF ds.cmdline # None /\ (CmdlineFind(ds.cmdline, "intel_idle.max_cstate=1")
                                  \/ CmdlineFind(ds.cmdline, "processor.max_cstate=1"))
         THEN Pass
    ELSE IF ds.intelCstate # None THEN CapParam(ds.intelCstate)
    ELSE IF ds.processorCstate # None THEN CapParam(ds.processorCstate)
    ELSE Unknown

\* cpufreq/boost, then intel_pstate/no_turbo; other values fall through.
EvalTurbo(ds) ==
    IF ds.boost = "0" THEN Pass
    ELSE IF ds.boost = "1" THEN Fail
    ELSE IF ds.noTurbo = "1" THEN Pass
    ELSE IF ds.noTurbo = "0" THEN Fail
    ELSE Unknown

-----------------------------------------------------------------------------
(* NIC checks.  Each starts with "no NIC in context" when ctx.nic is unset *)
(* and, but for NicPresent, with "NIC not found" unless NicExists.         *)

\* Any of operstate, carrier, address readable under /sys/class/net/<nic>.
NicExists(ds, nic) ==
    \E f \in {"operstate", "carrier", "address"} : ds.net[nic][f] # None

EvalNicPresent(ctx, ds) ==
    IF ctx.nic = None THEN Unknown
    ELSE IF NicExists(ds, ctx.nic) THEN Pass
    ELSE Unknown

\* operstate "up" passes, any other non-empty operstate fails; then
\* carrier 1 passes and 0 fails.
EvalNicLinkUp(ctx, ds) ==
    IF ctx.nic = None \/ ~NicExists(ds, ctx.nic) THEN Unknown
    ELSE LET n == ds.net[ctx.nic]
         IN  IF n.operstate = "up" THEN Pass
             ELSE IF n.operstate \notin {None, ""} THEN Fail
             ELSE IF n.carrier = "1" THEN Pass
             ELSE IF n.carrier = "0" THEN Fail
             ELSE Unknown

\* The IRQs whose /proc/interrupts row names the NIC must each have the
\* affinity list {cpu}; an unreadable list makes the whole check Unknown.
EvalNicIrqsPinned(ctx, ds) ==
    IF ctx.cpu = None \/ ctx.nic = None \/ ~NicExists(ds, ctx.nic) THEN Unknown
    ELSE IF ds.interrupts = None THEN Unknown
    ELSE LET t == ds.interrupts
             nicIrqs == {i \in Irqs : t.row[i] # None /\ t.row[i].label # "unlabeled"
                                       /\ LabelHas(t.row[i].label, ctx.nic)}
         IN  IF nicIrqs = {} THEN Unknown
             ELSE IF \E i \in nicIrqs : ds.irqAffinity[i] = None THEN Unknown
             ELSE IF \A i \in nicIrqs : ds.irqAffinity[i] = {ctx.cpu} THEN Pass
             ELSE Fail

\* The queues directory is listed on the machine (PathExists and
\* directory_iterator), each rx queue's rps_cpus read from the data source.
EvalRpsDisabled(ctx, ds, env) ==
    IF ctx.nic = None \/ ~NicExists(ds, ctx.nic) THEN Unknown
    ELSE LET qs == env.queues[ctx.nic]
         IN  IF qs = None THEN Unknown
             ELSE IF \E q \in qs : ds.rps[q] = None THEN Unknown
             ELSE IF qs = {} THEN Unknown
             ELSE IF \A q \in qs : ds.rps[q] = "zero" THEN Pass
             ELSE Fail

\* The NIC's addresses come from getifaddrs(), its default routes from
\* /proc/net/route and /proc/net/ipv6_route (an unreadable file: none).
EvalNicQuiet(ctx, ds, env) ==
    IF ctx.nic = None \/ ~NicExists(ds, ctx.nic) THEN Unknown
    ELSE LET addrKnown == env.ifaddrs # None
             hasAddr == addrKnown /\ ctx.nic \in env.ifaddrs
             def4 == ds.route4 # None /\ ctx.nic \in ds.route4
             def6 == ds.route6 # None /\ ctx.nic \in ds.route6
         IN  IF addrKnown /\ ~hasAddr /\ ~def4 /\ ~def6 THEN Pass
             ELSE IF ~addrKnown THEN Unknown
             ELSE Fail

-----------------------------------------------------------------------------
(* ICheck::Evaluate, dispatched on the kind.                               *)

SystemKinds == <<"PreemptRTActive", "SwapDisabled", "TimerMigration",
                 "RtThrottlingDisabled", "ClocksourceStable">>
CoreKinds == <<"CoreIsolated", "NohzFull", "RcuNoCbs", "CpuGovernor",
               "CpuFrequency", "IrqAffinityDefaultAvoidsRt", "NoUnrelatedIrqsOnRt",
               "SmtSiblingIsolated", "DeepCStatesCapped", "TurboBoostPolicy">>
NicKinds == <<"NicLinkUp", "NicQuiet", "NicIrqsPinned", "RpsDisabled">>

Evaluate(kind, ctx, ds, env) ==
    CASE kind = "PreemptRTActive" -> EvalPreemptRT(ds, env)
      [] kind = "SwapDisabled" -> EvalSwap(ds)
      [] kind = "TimerMigration" -> EvalTimerMigration(ds)
      [] kind = "RtThrottlingDisabled" -> EvalRtThrottling(ds)
      [] kind = "ClocksourceStable" -> EvalClocksource(ds)
      [] kind = "CoreIsolated" -> EvalCoreIsolated(ctx, ds)
      [] kind = "NohzFull" -> EvalNohzFull(ctx, ds)
      [] kind = "RcuNoCbs" -> EvalRcuNoCbs(ctx, ds)
      [] kind = "CpuGovernor" -> EvalCpuGovernor(ctx, ds)
      [] kind = "CpuFrequency" -> EvalCpuFrequency(ctx, ds)
      [] kind = "IrqAffinityDefaultAvoidsRt" -> EvalIrqAffinity(ctx, ds)
      [] kind = "NoUnrelatedIrqsOnRt" -> EvalNoUnrelatedIrqs(ctx, ds)
      [] kind = "SmtSiblingIsolated" -> EvalSmtSibling(ctx, ds)
      [] kind = "DeepCStatesCapped" -> EvalCStates(ds)
      [] kind = "TurboBoostPolicy" -> EvalTurbo(ds)
      [] kind = "NicPresent" -> EvalNicPresent(ctx, ds)
      [] kind = "NicLinkUp" -> EvalNicLinkUp(ctx, ds)
      [] kind = "NicQuiet" -> EvalNicQuiet(ctx, ds, env)
      [] kind = "NicIrqsPinned" -> EvalNicIrqsPinned(ctx, ds)
      [] kind = "RpsDisabled" -> EvalRpsDisabled(ctx, ds, env)

=============================================================================
