----------------------------- MODULE CheckMatrix -----------------------------
(***************************************************************************)
(* The check catalog against the decision table of the spec (section 4.3) *)
(* and the error rule of section 7 ("file not readable" or "subject not   *)
(* in context" is Unknown).  A state is a check kind and a context; the   *)
(* properties range over every content of the files that check reads.     *)
(***************************************************************************)
EXTENDS Checks

AllKinds == {SystemKinds[i] : i \in 1..5} \cup {CoreKinds[i] : i \in 1..10}
            \cup {NicKinds[i] : i \in 1..4} \cup {"NicPresent"}

VARIABLES kind, ctx

Init == kind \in AllKinds /\ ctx \in Contexts

\* Evaluating changes nothing: every check and context is a state of its own.
Next == UNCHANGED <<kind, ctx>>

Spec == Init /\ [][Next]_<<kind, ctx>>

-----------------------------------------------------------------------------
(* The spec's rules, written from section 4.3.                             *)

Member(cpu, set) == IF cpu \in set THEN Pass ELSE Fail

SpecPreemptRT(realtime, uname, bootConfig) ==
    IF realtime = "1" THEN Pass
    ELSE IF realtime = "0" THEN Fail
    ELSE IF uname = "rt" THEN Pass
    ELSE IF uname # "fail" /\ bootConfig = "rt" THEN Pass
    ELSE Fail

SpecByValue(v, passing) ==
    IF v = None THEN Unknown ELSE IF v = passing THEN Pass ELSE Fail

SpecDual(cpu, sys, cmd) ==
    IF sys # None THEN Member(cpu, sys)
    ELSE IF cmd # None THEN Member(cpu, cmd)
    ELSE Unknown

SpecFrequency(f) ==
    IF f.cur = None \/ f.min = None \/ f.max = None THEN Unknown
    ELSE IF f.min # f.max THEN Fail
    ELSE IF 100 * (f.cur - f.max) <= 5 * f.max /\ 100 * (f.max - f.cur) <= 5 * f.max
         THEN Pass ELSE Fail

\* The RT core's column is the one its CPU<N> header names; an IRQ row
\* whose label lacks the NIC name is an offender when it is non-zero at
\* the RT core (an unlabeled row has an empty label).
SpecUnrelated(cpu, nic, t) ==
    IF t = None \/ cpu \notin t.cols THEN Unknown
    ELSE IF \E i \in Irqs : t.row[i] # None /\ t.row[i].hot /\ t.row[i].label # nic
         THEN Fail ELSE Pass

SpecSibling(cpu, sibs, iso) ==
    IF sibs = None THEN Unknown
    ELSE IF sibs \ {cpu} = {} THEN Pass
    ELSE IF iso = None THEN Unknown
    ELSE IF sibs \ {cpu} \subseteq iso THEN Pass ELSE Fail

SpecTurbo(boost, noTurbo) ==
    IF boost = "0" THEN Pass ELSE IF boost = "1" THEN Fail
    ELSE IF noTurbo = "1" THEN Pass ELSE IF noTurbo = "0" THEN Fail
    ELSE Unknown

SpecLinkUp(n) ==
    IF n.operstate = "up" THEN Pass
    ELSE IF n.operstate \notin {None, ""} THEN Fail
    ELSE IF n.carrier = "1" THEN Pass
    ELSE IF n.carrier = "0" THEN Fail
    ELSE Unknown

NetFiles == [operstate: Opt({"up", "down", ""}), carrier: Opt({"1", "0", "other"}),
             address: Opt({"set"})]

\* The /proc/interrupts headers the table is compared on: those naming
\* CPU0, which the kernel prints while CPU0 is online.
Cpu0Headers == {s \in SUBSET Cpus : 0 \in s}

NicPresentIn(n) == n.operstate # None \/ n.carrier # None \/ n.address # None

-----------------------------------------------------------------------------
(* One row of the table per kind, for the context of the state.           *)

CpuRule(rule) == IF ctx.cpu = None THEN Unknown ELSE rule
NicRule(n, rule) ==
    IF ctx.nic = None \/ ~NicPresentIn(n) THEN Unknown ELSE rule

Row ==
  CASE kind = "PreemptRTActive" ->
         \A rt \in Opt({"1", "0", "other"}), u \in {"fail", "rt", "plain"},
            bc \in Opt({"rt", "preempt", "none"}) :
             Evaluate(kind, ctx, [NoFiles EXCEPT !.realtime = rt, !.bootConfig = bc],
                      [PlainHost EXCEPT !.uname = u])
               = SpecPreemptRT(rt, u, bc)
    [] kind = "SwapDisabled" ->
         \A v \in {None, "headerOnly", "entries"} :
             Evaluate(kind, ctx, [NoFiles EXCEPT !.swaps = v], PlainHost)
               = SpecByValue(v, "headerOnly")
    [] kind = "TimerMigration" ->
         \A v \in Opt({"0", "1"}) :
             Evaluate(kind, ctx, [NoFiles EXCEPT !.timerMigration = v], PlainHost)
               = SpecByValue(v, "0")
    [] kind = "RtThrottlingDisabled" ->
         \A v \in Opt({"-1", "950000"}) :
             Evaluate(kind, ctx, [NoFiles EXCEPT !.rtRuntime = v], PlainHost)
               = SpecByValue(v, "-1")
    [] kind = "ClocksourceStable" ->
         \A v \in Opt({"tsc", "arch_sys_counter", "hpet", "jiffies", "acpi_pm"}) :
             Evaluate(kind, ctx, [NoFiles EXCEPT !.clocksource = v], PlainHost)
               = CASE v \in {"tsc", "arch_sys_counter", "hpet"} -> Pass
                   [] v = "jiffies" -> Fail
                   [] OTHER -> Unknown
    [] kind = "CoreIsolated" ->
         \A iso \in CpuFile :
             Evaluate(kind, ctx, [NoFiles EXCEPT !.isolated = iso], PlainHost)
               = CpuRule(IF iso = None THEN Unknown
                         ELSE IF ctx.cpu = 0 THEN Fail ELSE Member(ctx.cpu, iso))
    [] kind \in {"NohzFull", "RcuNoCbs"} ->
         \A sys, cmd \in CpuFile :
             Evaluate(kind, ctx, [NoFiles EXCEPT !.nohzSys = sys, !.nohzCmd = cmd,
                                               !.rcuSys = sys, !.rcuCmd = cmd], PlainHost)
               = CpuRule(SpecDual(ctx.cpu, sys, cmd))
    [] kind = "CpuGovernor" ->
         \A g \in Opt({"performance", "powersave"}) :
             Evaluate(kind, ctx, [NoFiles EXCEPT !.governor = [c \in Cpus |-> g]], PlainHost)
               = CpuRule(SpecByValue(g, "performance"))
    [] kind = "CpuFrequency" ->
         \A f \in [cur: Opt(FreqValues), min: Opt(FreqValues), max: Opt(FreqValues)] :
             Evaluate(kind, ctx, [NoFiles EXCEPT !.freq = [c \in Cpus |-> f]], PlainHost)
               = CpuRule(SpecFrequency(f))
    [] kind = "IrqAffinityDefaultAvoidsRt" ->
         \A v \in CpuFile :
             Evaluate(kind, ctx, [NoFiles EXCEPT !.irqaffinityCmd = v], PlainHost)
               = CpuRule(IF v = None \/ v = {} THEN Unknown
                         ELSE IF ctx.cpu \in v THEN Fail ELSE Pass)
    [] kind = "NoUnrelatedIrqsOnRt" /\ ctx.nic # None ->
         \A t \in Opt([cols: Cpu0Headers, row: [Irqs -> Opt(Rows)]]) :
             Evaluate(kind, ctx, [NoFiles EXCEPT !.interrupts = t], PlainHost)
               = CpuRule(SpecUnrelated(ctx.cpu, ctx.nic, t))
    [] kind = "SmtSiblingIsolated" ->
         \A sibs, iso \in CpuFile :
             Evaluate(kind, ctx, [NoFiles EXCEPT !.siblings = [c \in Cpus |-> sibs],
                                               !.isolated = iso], PlainHost)
               = CpuRule(SpecSibling(ctx.cpu, sibs, iso))
    [] kind = "TurboBoostPolicy" ->
         \A b, n \in Opt({"0", "1", "other"}) :
             Evaluate(kind, ctx, [NoFiles EXCEPT !.boost = b, !.noTurbo = n], PlainHost)
               = SpecTurbo(b, n)
    [] kind \in {"NicPresent", "NicLinkUp"} ->
         \A n \in NetFiles :
             Evaluate(kind, ctx, [NoFiles EXCEPT !.net = [x \in NicNames |-> n]], PlainHost)
               = IF kind = "NicPresent"
                 THEN IF ctx.nic # None /\ NicPresentIn(n) THEN Pass ELSE Unknown
                 ELSE NicRule(n, SpecLinkUp(n))
    [] kind = "NicIrqsPinned" ->
         \A t \in Opt([cols: SUBSET Cpus, row: [Irqs -> Opt(Rows)]]),
            aff \in [Irqs -> CpuFile], n \in {Down, NoNet} :
             LET ds == [NoFiles EXCEPT !.interrupts = t, !.irqAffinity = aff,
                                       !.net = [x \in NicNames |-> n]]
                 nicIrqs == IF t = None THEN {}
                            ELSE {i \in Irqs : t.row[i] # None /\ t.row[i].label = ctx.nic}
             IN  Evaluate(kind, ctx, ds, PlainHost)
                   = CpuRule(NicRule(n,
                       IF nicIrqs = {} THEN Unknown
                       ELSE IF \E i \in nicIrqs : aff[i] = None THEN Unknown
                       ELSE IF \A i \in nicIrqs : aff[i] = {ctx.cpu} THEN Pass
                       ELSE Fail))
    [] kind = "RpsDisabled" ->
         \A qs \in Opt(SUBSET RxQueues), m \in [RxQueues -> Opt({"zero", "nonzero"})],
            n \in {Down, NoNet} :
             Evaluate(kind, ctx, [NoFiles EXCEPT !.rps = m, !.net = [x \in NicNames |-> n]],
                      [PlainHost EXCEPT !.queues = [x \in NicNames |-> qs]])
               = NicRule(n, IF qs = None \/ qs = {} THEN Unknown
                            ELSE IF \E q \in qs : m[q] = None THEN Unknown
                            ELSE IF \A q \in qs : m[q] = "zero" THEN Pass
                            ELSE Fail)
    [] kind = "NicQuiet" ->
         \A a, r4, r6 \in Opt(SUBSET NicNames) :
             LET has(s) == s # None /\ ctx.nic \in s
             IN  Evaluate(kind, ctx, [NoFiles EXCEPT !.route4 = r4, !.route6 = r6,
                                                   !.net = [x \in NicNames |-> Down]],
                          [PlainHost EXCEPT !.ifaddrs = a])
                   = NicRule(Down, IF a = None THEN Unknown
                                   ELSE IF ~has(a) /\ ~has(r4) /\ ~has(r6) THEN Pass
                                   ELSE Fail)
    [] OTHER -> TRUE

\* Every check but DeepCStatesCapped decides as the table of section 4.3
\* says, with Unknown for an unreadable file or a missing subject, on every
\* content of the files it reads and every context ReportSystemConfiguration
\* builds.
CatalogMatchesTable == Row

\* Section 4.3: a kernel parameter intel_idle.max_cstate=1 or
\* processor.max_cstate=1 on the command line caps the C-states; any
\* other value of the module parameter (0 and 1 pass) is a Fail.
SpecCStates(cmd, ip, pp) ==
    IF cmd # None /\ "cpuidle.off=1" \in cmd THEN Pass
    ELSE IF cmd # None /\ {"intel_idle.max_cstate=1", "processor.max_cstate=1"} \cap cmd # {}
         THEN Pass
    ELSE IF ip # None THEN IF ip \in {"0", "1"} THEN Pass ELSE Fail
    ELSE IF pp # None THEN IF pp \in {"0", "1"} THEN Pass ELSE Fail
    ELSE Unknown

\* DeepCStatesCapped decides as section 4.3 says on every command line and
\* module parameter: it passes only for the parameters that cap at C1.
CStatesAsSpecified ==
    kind = "DeepCStatesCapped" =>
        \A cmd \in Opt(SUBSET CmdTokens), ip, pp \in Opt({"0", "1", "9"}) :
            Evaluate(kind, ctx, [NoFiles EXCEPT !.cmdline = cmd, !.intelCstate = ip,
                                               !.processorCstate = pp], PlainHost)
              = SpecCStates(cmd, ip, pp)

=============================================================================
