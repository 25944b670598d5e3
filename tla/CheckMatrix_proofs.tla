------------------------- MODULE CheckMatrix_proofs -------------------------
(***************************************************************************)
(* Proof that every check of the catalog decides as the table of section  *)
(* 4.3 says, for every set of CPUs, IRQs, rx queues and frequency values.  *)
(***************************************************************************)
EXTENDS CheckMatrix, TLAPS


LEMMA RowPreemptRT ==
    ASSUME kind = "PreemptRTActive", ctx \in Contexts
    PROVE  Row
<1>1. SUFFICES ASSUME NEW rt \in Opt({"1", "0", "other"}), NEW u \in {"fail", "rt", "plain"},
                      NEW bc \in Opt({"rt", "preempt", "none"})
               PROVE  Evaluate(kind, ctx, [NoFiles EXCEPT !.realtime = rt, !.bootConfig = bc],
                               [PlainHost EXCEPT !.uname = u])
                        = SpecPreemptRT(rt, u, bc)
  BY DEF Row
<1>2. Evaluate(kind, ctx, [NoFiles EXCEPT !.realtime = rt, !.bootConfig = bc],
               [PlainHost EXCEPT !.uname = u])
        = EvalPreemptRT([NoFiles EXCEPT !.realtime = rt, !.bootConfig = bc],
                        [PlainHost EXCEPT !.uname = u])
  BY DEF Evaluate
<1>3. /\ [NoFiles EXCEPT !.realtime = rt, !.bootConfig = bc].realtime = rt
      /\ [NoFiles EXCEPT !.realtime = rt, !.bootConfig = bc].bootConfig = bc
      /\ [PlainHost EXCEPT !.uname = u].uname = u
  BY DEF NoFiles, PlainHost
<1> QED
  BY <1>2, <1>3 DEF EvalPreemptRT, SpecPreemptRT

LEMMA RowSwap ==
    ASSUME kind = "SwapDisabled", ctx \in Contexts
    PROVE  Row
<1>1. SUFFICES ASSUME NEW v \in {None, "headerOnly", "entries"}
               PROVE  Evaluate(kind, ctx, [NoFiles EXCEPT !.swaps = v], PlainHost)
                        = SpecByValue(v, "headerOnly")
  BY DEF Row
<1>2. Evaluate(kind, ctx, [NoFiles EXCEPT !.swaps = v], PlainHost)
        = EvalSwap([NoFiles EXCEPT !.swaps = v])
  BY DEF Evaluate
<1>3. [NoFiles EXCEPT !.swaps = v].swaps = v
  BY DEF NoFiles
<1> QED
  BY <1>2, <1>3 DEF EvalSwap, SpecByValue

LEMMA RowTimerMigration ==
    ASSUME kind = "TimerMigration", ctx \in Contexts
    PROVE  Row
<1>1. SUFFICES ASSUME NEW v \in Opt({"0", "1"})
               PROVE  Evaluate(kind, ctx, [NoFiles EXCEPT !.timerMigration = v], PlainHost)
                        = SpecByValue(v, "0")
  BY DEF Row
<1>2. Evaluate(kind, ctx, [NoFiles EXCEPT !.timerMigration = v], PlainHost)
        = EvalTimerMigration([NoFiles EXCEPT !.timerMigration = v])
  BY DEF Evaluate
<1>3. [NoFiles EXCEPT !.timerMigration = v].timerMigration = v
  BY DEF NoFiles
<1> QED
  BY <1>2, <1>3 DEF EvalTimerMigration, SpecByValue

LEMMA RowRtThrottling ==
    ASSUME kind = "RtThrottlingDisabled", ctx \in Contexts
    PROVE  Row
<1>1. SUFFICES ASSUME NEW v \in Opt({"-1", "950000"})
               PROVE  Evaluate(kind, ctx, [NoFiles EXCEPT !.rtRuntime = v], PlainHost)
                        = SpecByValue(v, "-1")
  BY DEF Row
<1>2. Evaluate(kind, ctx, [NoFiles EXCEPT !.rtRuntime = v], PlainHost)
        = EvalRtThrottling([NoFiles EXCEPT !.rtRuntime = v])
  BY DEF Evaluate
<1>3. [NoFiles EXCEPT !.rtRuntime = v].rtRuntime = v
  BY DEF NoFiles
<1> QED
  BY <1>2, <1>3 DEF EvalRtThrottling, SpecByValue

LEMMA RowClocksource ==
    ASSUME kind = "ClocksourceStable", ctx \in Contexts
    PROVE  Row
<1> DEFINE Vals == Opt({"tsc", "arch_sys_counter", "hpet", "jiffies", "acpi_pm"})
<1>1. SUFFICES ASSUME NEW v \in Vals
               PROVE  Evaluate(kind, ctx, [NoFiles EXCEPT !.clocksource = v], PlainHost)
                        = CASE v \in {"tsc", "arch_sys_counter", "hpet"} -> Pass
                            [] v = "jiffies" -> Fail
                            [] OTHER -> Unknown
  BY DEF Row
<1>2. Evaluate(kind, ctx, [NoFiles EXCEPT !.clocksource = v], PlainHost)
        = EvalClocksource([NoFiles EXCEPT !.clocksource = v])
  BY DEF Evaluate
<1>3. [NoFiles EXCEPT !.clocksource = v].clocksource = v
  BY DEF NoFiles
<1>4. None \notin ClocksourceNames
  BY NoneAssumption
<1>5. v = None => v \notin {"tsc", "arch_sys_counter", "hpet", "jiffies"}
  BY <1>4 DEF ClocksourceNames
<1> QED
  BY <1>2, <1>3, <1>5 DEF EvalClocksource, Opt, Pass, Fail, Unknown

LEMMA RowCoreIsolated ==
    ASSUME kind = "CoreIsolated", ctx \in Contexts
    PROVE  Row
<1>1. SUFFICES ASSUME NEW iso \in CpuFile
               PROVE  Evaluate(kind, ctx, [NoFiles EXCEPT !.isolated = iso], PlainHost)
                        = CpuRule(IF iso = None THEN Unknown
                                  ELSE IF ctx.cpu = 0 THEN Fail ELSE Member(ctx.cpu, iso))
  BY DEF Row
<1>2. Evaluate(kind, ctx, [NoFiles EXCEPT !.isolated = iso], PlainHost)
        = EvalCoreIsolated(ctx, [NoFiles EXCEPT !.isolated = iso])
  BY DEF Evaluate
<1>3. [NoFiles EXCEPT !.isolated = iso].isolated = iso
  BY DEF NoFiles
<1> QED
  BY <1>2, <1>3 DEF EvalCoreIsolated, CpuRule, Member

\* NohzFull and RcuNoCbs read their two sources through DualSource.
LEMMA RowDual ==
    ASSUME kind \in {"NohzFull", "RcuNoCbs"}, ctx \in Contexts
    PROVE  Row
<1>1. SUFFICES ASSUME NEW sys \in CpuFile, NEW cmd \in CpuFile
               PROVE  Evaluate(kind, ctx, [NoFiles EXCEPT !.nohzSys = sys, !.nohzCmd = cmd,
                                                    !.rcuSys = sys, !.rcuCmd = cmd], PlainHost)
                        = CpuRule(SpecDual(ctx.cpu, sys, cmd))
  BY DEF Row
<1>2. Evaluate(kind, ctx, [NoFiles EXCEPT !.nohzSys = sys, !.nohzCmd = cmd,
                                        !.rcuSys = sys, !.rcuCmd = cmd], PlainHost)
        = DualSource(ctx, sys, cmd)
  <2>1. /\ [NoFiles EXCEPT !.nohzSys = sys, !.nohzCmd = cmd,
                          !.rcuSys = sys, !.rcuCmd = cmd].nohzSys = sys
        /\ [NoFiles EXCEPT !.nohzSys = sys, !.nohzCmd = cmd,
                          !.rcuSys = sys, !.rcuCmd = cmd].nohzCmd = cmd
        /\ [NoFiles EXCEPT !.nohzSys = sys, !.nohzCmd = cmd,
                          !.rcuSys = sys, !.rcuCmd = cmd].rcuSys = sys
        /\ [NoFiles EXCEPT !.nohzSys = sys, !.nohzCmd = cmd,
                          !.rcuSys = sys, !.rcuCmd = cmd].rcuCmd = cmd
    BY DEF NoFiles
  <2> QED
    BY <2>1 DEF Evaluate, EvalNohzFull, EvalRcuNoCbs
<1> QED
  BY <1>2 DEF DualSource, CpuRule, SpecDual, Member

LEMMA RowCpuGovernor ==
    ASSUME kind = "CpuGovernor", ctx \in Contexts
    PROVE  Row
<1>1. SUFFICES ASSUME NEW g \in Opt({"performance", "powersave"})
               PROVE  Evaluate(kind, ctx, [NoFiles EXCEPT !.governor = [c \in Cpus |-> g]],
                               PlainHost)
                        = CpuRule(SpecByValue(g, "performance"))
  BY DEF Row
<1>2. Evaluate(kind, ctx, [NoFiles EXCEPT !.governor = [c \in Cpus |-> g]], PlainHost)
        = EvalCpuGovernor(ctx, [NoFiles EXCEPT !.governor = [c \in Cpus |-> g]])
  BY DEF Evaluate
<1>3. [NoFiles EXCEPT !.governor = [c \in Cpus |-> g]].governor = [c \in Cpus |-> g]
  BY DEF NoFiles
<1>4. ctx.cpu # None => ctx.cpu \in Cpus
  BY DEF Contexts, Opt
<1> QED
  BY <1>2, <1>3, <1>4 DEF EvalCpuGovernor, CpuRule, SpecByValue

\* The tolerance of CpuFrequencyCheck, (max * 5) / 100 in integer
\* arithmetic, bounds a drift exactly when 100 * drift <= 5 * max.
LEMMA ToleranceExact ==
    ASSUME NEW d \in Nat, NEW m \in Nat
    PROVE  d <= (m * 5) \div 100 <=> 100 * d <= 5 * m
<1>1. /\ m * 5 = 100 * ((m * 5) \div 100) + ((m * 5) % 100)
      /\ (m * 5) % 100 \in 0..99
  OBVIOUS
<1> QED
  BY <1>1

LEMMA RowCpuFrequency ==
    ASSUME kind = "CpuFrequency", ctx \in Contexts
    PROVE  Row
<1>1. SUFFICES ASSUME NEW f \in [cur: Opt(FreqValues), min: Opt(FreqValues),
                                 max: Opt(FreqValues)]
               PROVE  Evaluate(kind, ctx, [NoFiles EXCEPT !.freq = [c \in Cpus |-> f]],
                               PlainHost)
                        = CpuRule(SpecFrequency(f))
  BY DEF Row
<1>2. Evaluate(kind, ctx, [NoFiles EXCEPT !.freq = [c \in Cpus |-> f]], PlainHost)
        = EvalCpuFrequency(ctx, [NoFiles EXCEPT !.freq = [c \in Cpus |-> f]])
  BY DEF Evaluate
<1>3. [NoFiles EXCEPT !.freq = [c \in Cpus |-> f]].freq = [c \in Cpus |-> f]
  BY DEF NoFiles
<1>4. ctx.cpu # None => ctx.cpu \in Cpus
  BY DEF Contexts, Opt
<1>5. CASE ctx.cpu = None
  BY <1>2, <1>5 DEF EvalCpuFrequency, CpuRule
<1>6. CASE ctx.cpu # None /\ (f.cur = None \/ f.min = None \/ f.max = None)
  BY <1>2, <1>3, <1>4, <1>6 DEF EvalCpuFrequency, CpuRule, SpecFrequency
<1>7. CASE ctx.cpu # None /\ f.cur # None /\ f.min # None /\ f.max # None
  <2>1. f.cur \in Nat /\ f.min \in Nat /\ f.max \in Nat
    BY <1>7, ChecksAssumption DEF Opt
  <2>2. (IF f.cur >= f.max THEN f.cur - f.max ELSE f.max - f.cur) <= (f.max * 5) \div 100
          <=> 100 * (f.cur - f.max) <= 5 * f.max /\ 100 * (f.max - f.cur) <= 5 * f.max
    <3>1. (IF f.cur >= f.max THEN f.cur - f.max ELSE f.max - f.cur) \in Nat
      BY <2>1
    <3>2. (IF f.cur >= f.max THEN f.cur - f.max ELSE f.max - f.cur) <= (f.max * 5) \div 100
            <=> 100 * (IF f.cur >= f.max THEN f.cur - f.max ELSE f.max - f.cur) <= 5 * f.max
      BY <2>1, <3>1, ToleranceExact
    <3> QED
      BY <2>1, <3>2
  <2> QED
    BY <1>2, <1>3, <1>4, <1>7, <2>2 DEF EvalCpuFrequency, CpuRule, SpecFrequency
<1> QED
  BY <1>5, <1>6, <1>7

LEMMA RowIrqAffinity ==
    ASSUME kind = "IrqAffinityDefaultAvoidsRt", ctx \in Contexts
    PROVE  Row
<1>1. SUFFICES ASSUME NEW v \in CpuFile
               PROVE  Evaluate(kind, ctx, [NoFiles EXCEPT !.irqaffinityCmd = v], PlainHost)
                        = CpuRule(IF v = None \/ v = {} THEN Unknown
                                  ELSE IF ctx.cpu \in v THEN Fail ELSE Pass)
  BY DEF Row
<1>2. Evaluate(kind, ctx, [NoFiles EXCEPT !.irqaffinityCmd = v], PlainHost)
        = EvalIrqAffinity(ctx, [NoFiles EXCEPT !.irqaffinityCmd = v])
  BY DEF Evaluate
<1>3. [NoFiles EXCEPT !.irqaffinityCmd = v].irqaffinityCmd = v
  BY DEF NoFiles
<1> QED
  BY <1>2, <1>3 DEF EvalIrqAffinity, CpuRule

LEMMA RowSmtSibling ==
    ASSUME kind = "SmtSiblingIsolated", ctx \in Contexts
    PROVE  Row
<1>1. SUFFICES ASSUME NEW sibs \in CpuFile, NEW iso \in CpuFile
               PROVE  Evaluate(kind, ctx, [NoFiles EXCEPT !.siblings = [c \in Cpus |-> sibs],
                                                    !.isolated = iso], PlainHost)
                        = CpuRule(SpecSibling(ctx.cpu, sibs, iso))
  BY DEF Row
<1>2. Evaluate(kind, ctx, [NoFiles EXCEPT !.siblings = [c \in Cpus |-> sibs],
                                        !.isolated = iso], PlainHost)
        = EvalSmtSibling(ctx, [NoFiles EXCEPT !.siblings = [c \in Cpus |-> sibs],
                                            !.isolated = iso])
  BY DEF Evaluate
<1>3. /\ [NoFiles EXCEPT !.siblings = [c \in Cpus |-> sibs], !.isolated = iso].siblings
           = [c \in Cpus |-> sibs]
      /\ [NoFiles EXCEPT !.siblings = [c \in Cpus |-> sibs], !.isolated = iso].isolated = iso
  BY DEF NoFiles
<1>4. ctx.cpu # None => ctx.cpu \in Cpus
  BY DEF Contexts, Opt
<1> QED
  BY <1>2, <1>3, <1>4 DEF EvalSmtSibling, CpuRule, SpecSibling

LEMMA RowTurbo ==
    ASSUME kind = "TurboBoostPolicy", ctx \in Contexts
    PROVE  Row
<1>1. SUFFICES ASSUME NEW b \in Opt({"0", "1", "other"}), NEW n \in Opt({"0", "1", "other"})
               PROVE  Evaluate(kind, ctx, [NoFiles EXCEPT !.boost = b, !.noTurbo = n], PlainHost)
                        = SpecTurbo(b, n)
  BY DEF Row
<1>2. Evaluate(kind, ctx, [NoFiles EXCEPT !.boost = b, !.noTurbo = n], PlainHost)
        = EvalTurbo([NoFiles EXCEPT !.boost = b, !.noTurbo = n])
  BY DEF Evaluate
<1>3. /\ [NoFiles EXCEPT !.boost = b, !.noTurbo = n].boost = b
      /\ [NoFiles EXCEPT !.boost = b, !.noTurbo = n].noTurbo = n
  BY DEF NoFiles
<1> QED
  BY <1>2, <1>3 DEF EvalTurbo, SpecTurbo

\* DeepCStatesCapped has no row: CStatesAsSpecified covers it.
LEMMA RowCStates ==
    ASSUME kind = "DeepCStatesCapped", ctx \in Contexts
    PROVE  Row
BY DEF Row

\* The NIC of a context is a key of the net table, and is neither the
\* empty filter nor the label of an unlabeled row.
LEMMA ContextNic ==
    ASSUME NEW c \in Contexts, c.nic # None
    PROVE  c.nic \in NicNames /\ c.nic # "" /\ c.nic # "unlabeled" /\ c.nic # "other"
BY DEF Contexts, Opt, NicNames, Nic, NoNicSelected

\* NicPresent and NicLinkUp share a row of the table.
LEMMA RowNicLink ==
    ASSUME kind \in {"NicPresent", "NicLinkUp"}, ctx \in Contexts
    PROVE  Row
<1>1. SUFFICES ASSUME NEW n \in NetFiles
               PROVE  Evaluate(kind, ctx, [NoFiles EXCEPT !.net = [x \in NicNames |-> n]],
                               PlainHost)
                        = IF kind = "NicPresent"
                          THEN IF ctx.nic # None /\ NicPresentIn(n) THEN Pass ELSE Unknown
                          ELSE NicRule(n, SpecLinkUp(n))
  BY DEF Row
<1> DEFINE ds == [NoFiles EXCEPT !.net = [x \in NicNames |-> n]]
<1>2. ds.net = [x \in NicNames |-> n]
  BY DEF NoFiles
<1>3. ctx.nic # None => (NicExists(ds, ctx.nic) <=> NicPresentIn(n)) /\ ds.net[ctx.nic] = n
  <2> SUFFICES ASSUME ctx.nic # None
               PROVE  (NicExists(ds, ctx.nic) <=> NicPresentIn(n)) /\ ds.net[ctx.nic] = n
    OBVIOUS
  <2>1. ctx.nic \in NicNames
    BY ContextNic
  <2> QED
    BY <1>2, <2>1 DEF NicExists, NicPresentIn
<1>4. CASE kind = "NicPresent"
  <2>1. Evaluate(kind, ctx, ds, PlainHost) = EvalNicPresent(ctx, ds)
    BY <1>4 DEF Evaluate
  <2> QED
    BY <1>3, <1>4, <2>1 DEF EvalNicPresent
<1>5. CASE kind = "NicLinkUp"
  <2>1. Evaluate(kind, ctx, ds, PlainHost) = EvalNicLinkUp(ctx, ds)
    BY <1>5 DEF Evaluate
  <2> QED
    BY <1>3, <1>5, <2>1 DEF EvalNicLinkUp, NicRule, SpecLinkUp
<1> QED
  BY <1>4, <1>5

\* A row of a parsed /proc/interrupts table offends the RT core as
\* EvalNoUnrelatedIrqs decides (unlabeled, or the label lacks the NIC)
\* exactly when its label is not the NIC's.
LEMMA RowNoUnrelatedIrqs ==
    ASSUME kind = "NoUnrelatedIrqsOnRt", ctx \in Contexts
    PROVE  Row
<1>1. CASE ctx.nic = None
  BY <1>1 DEF Row
<1>2. CASE ctx.nic # None
  <2>1. SUFFICES ASSUME NEW t \in Opt([cols: Cpu0Headers, row: [Irqs -> Opt(Rows)]])
                 PROVE  Evaluate(kind, ctx, [NoFiles EXCEPT !.interrupts = t], PlainHost)
                          = CpuRule(SpecUnrelated(ctx.cpu, ctx.nic, t))
    BY <1>2 DEF Row
  <2>2. Evaluate(kind, ctx, [NoFiles EXCEPT !.interrupts = t], PlainHost)
          = EvalNoUnrelatedIrqs(ctx, [NoFiles EXCEPT !.interrupts = t])
    BY DEF Evaluate
  <2>3. [NoFiles EXCEPT !.interrupts = t].interrupts = t
    BY DEF NoFiles
  <2>4. CASE ctx.cpu = None \/ t = None
    BY <2>2, <2>3, <2>4 DEF EvalNoUnrelatedIrqs, CpuRule, SpecUnrelated
  <2>5. CASE ctx.cpu # None /\ t # None
    <3>1. ctx.nic # "" /\ ctx.nic # "unlabeled"
      BY <1>2, ContextNic
    <3>3. 0 \in t.cols
      BY <2>5 DEF Opt, Cpu0Headers
    <3>2. \A i \in Irqs : t.row[i] # None =>
              ((t.row[i].label = "unlabeled" \/ ~LabelHas(t.row[i].label, ctx.nic))
                 <=> t.row[i].label # ctx.nic)
      BY <2>5, <3>1 DEF LabelHas, Opt
    <3> QED
      BY <1>2, <2>2, <2>3, <2>5, <3>2, <3>3 DEF EvalNoUnrelatedIrqs, CpuRule, SpecUnrelated
  <2> QED
    BY <2>4, <2>5
<1> QED
  BY <1>1, <1>2

\* The IRQs EvalNicIrqsPinned attributes to the NIC are the rows labeled
\* with its name.
LEMMA RowNicIrqsPinned ==
    ASSUME kind = "NicIrqsPinned", ctx \in Contexts
    PROVE  Row
<1>1. SUFFICES ASSUME NEW t \in Opt([cols: SUBSET Cpus, row: [Irqs -> Opt(Rows)]]),
                      NEW aff \in [Irqs -> CpuFile], NEW n \in {Down, NoNet}
               PROVE  LET ds == [NoFiles EXCEPT !.interrupts = t, !.irqAffinity = aff,
                                                !.net = [x \in NicNames |-> n]]
                          nicIrqs == IF t = None THEN {}
                                     ELSE {i \in Irqs : t.row[i] # None
                                                        /\ t.row[i].label = ctx.nic}
                      IN  Evaluate(kind, ctx, ds, PlainHost)
                            = CpuRule(NicRule(n,
                                IF nicIrqs = {} THEN Unknown
                                ELSE IF \E i \in nicIrqs : aff[i] = None THEN Unknown
                                ELSE IF \A i \in nicIrqs : aff[i] = {ctx.cpu} THEN Pass
                                ELSE Fail))
  BY DEF Row
<1> DEFINE ds == [NoFiles EXCEPT !.interrupts = t, !.irqAffinity = aff,
                                 !.net = [x \in NicNames |-> n]]
<1>2. /\ ds.interrupts = t
      /\ ds.irqAffinity = aff
      /\ ds.net = [x \in NicNames |-> n]
  BY DEF NoFiles
<1>3. Evaluate(kind, ctx, ds, PlainHost) = EvalNicIrqsPinned(ctx, ds)
  BY DEF Evaluate
<1>4. CASE ctx.cpu = None \/ ctx.nic = None
  BY <1>3, <1>4 DEF EvalNicIrqsPinned, CpuRule, NicRule
<1>5. CASE ctx.cpu # None /\ ctx.nic # None
  <2>1. ctx.nic \in NicNames /\ ctx.nic # "" /\ ctx.nic # "unlabeled"
    BY <1>5, ContextNic
  <2>2. NicExists(ds, ctx.nic) <=> NicPresentIn(n)
    BY <1>2, <2>1 DEF NicExists, NicPresentIn
  <2>3. t # None =>
          {i \in Irqs : t.row[i] # None /\ t.row[i].label # "unlabeled"
                        /\ LabelHas(t.row[i].label, ctx.nic)}
            = {i \in Irqs : t.row[i] # None /\ t.row[i].label = ctx.nic}
    BY <2>1 DEF LabelHas
  <2> QED
    BY <1>2, <1>3, <1>5, <2>2, <2>3 DEF EvalNicIrqsPinned, CpuRule, NicRule
<1> QED
  BY <1>4, <1>5

LEMMA RowRpsDisabled ==
    ASSUME kind = "RpsDisabled", ctx \in Contexts
    PROVE  Row
<1>1. SUFFICES ASSUME NEW qs \in Opt(SUBSET RxQueues),
                      NEW m \in [RxQueues -> Opt({"zero", "nonzero"})], NEW n \in {Down, NoNet}
               PROVE  Evaluate(kind, ctx, [NoFiles EXCEPT !.rps = m,
                                                    !.net = [x \in NicNames |-> n]],
                               [PlainHost EXCEPT !.queues = [x \in NicNames |-> qs]])
                        = NicRule(n, IF qs = None \/ qs = {} THEN Unknown
                                     ELSE IF \E q \in qs : m[q] = None THEN Unknown
                                     ELSE IF \A q \in qs : m[q] = "zero" THEN Pass
                                     ELSE Fail)
  BY DEF Row
<1> DEFINE ds == [NoFiles EXCEPT !.rps = m, !.net = [x \in NicNames |-> n]]
           env == [PlainHost EXCEPT !.queues = [x \in NicNames |-> qs]]
<1>2. /\ ds.rps = m
      /\ ds.net = [x \in NicNames |-> n]
      /\ env.queues = [x \in NicNames |-> qs]
  BY DEF NoFiles, PlainHost
<1>3. Evaluate(kind, ctx, ds, env) = EvalRpsDisabled(ctx, ds, env)
  BY DEF Evaluate
<1>4. CASE ctx.nic = None
  BY <1>3, <1>4 DEF EvalRpsDisabled, NicRule
<1>5. CASE ctx.nic # None
  <2>1. ctx.nic \in NicNames
    BY <1>5, ContextNic
  <2>2. NicExists(ds, ctx.nic) <=> NicPresentIn(n)
    BY <1>2, <2>1 DEF NicExists, NicPresentIn
  <2> QED
    BY <1>2, <1>3, <1>5, <2>1, <2>2 DEF EvalRpsDisabled, NicRule
<1> QED
  BY <1>4, <1>5

LEMMA RowNicQuiet ==
    ASSUME kind = "NicQuiet", ctx \in Contexts
    PROVE  Row
<1>1. SUFFICES ASSUME NEW a \in Opt(SUBSET NicNames), NEW r4 \in Opt(SUBSET NicNames),
                      NEW r6 \in Opt(SUBSET NicNames)
               PROVE  LET has(s) == s # None /\ ctx.nic \in s
                      IN  Evaluate(kind, ctx, [NoFiles EXCEPT !.route4 = r4, !.route6 = r6,
                                                        !.net = [x \in NicNames |-> Down]],
                                   [PlainHost EXCEPT !.ifaddrs = a])
                            = NicRule(Down, IF a = None THEN Unknown
                                            ELSE IF ~has(a) /\ ~has(r4) /\ ~has(r6) THEN Pass
                                            ELSE Fail)
  BY DEF Row
<1> DEFINE ds == [NoFiles EXCEPT !.route4 = r4, !.route6 = r6,
                                 !.net = [x \in NicNames |-> Down]]
           env == [PlainHost EXCEPT !.ifaddrs = a]
<1>2. /\ ds.route4 = r4
      /\ ds.route6 = r6
      /\ ds.net = [x \in NicNames |-> Down]
      /\ env.ifaddrs = a
  BY DEF NoFiles, PlainHost
<1>3. Evaluate(kind, ctx, ds, env) = EvalNicQuiet(ctx, ds, env)
  BY DEF Evaluate
<1>4. NicPresentIn(Down)
  BY DEF NicPresentIn, Down
<1>5. CASE ctx.nic = None
  BY <1>3, <1>5 DEF EvalNicQuiet, NicRule
<1>6. CASE ctx.nic # None
  <2>1. ctx.nic \in NicNames
    BY <1>6, ContextNic
  <2>2. NicExists(ds, ctx.nic)
    BY <1>2, <1>4, <2>1 DEF NicExists, NicPresentIn
  <2> QED
    BY <1>2, <1>3, <1>4, <1>6, <2>2 DEF EvalNicQuiet, NicRule
<1> QED
  BY <1>5, <1>6

-----------------------------------------------------------------------------
(* The catalog as a whole.                                                 *)

\* Every state is a check kind of the catalog and a context that
\* ReportSystemConfiguration builds.
TypeOK == kind \in AllKinds /\ ctx \in Contexts

LEMMA AllKindsListed ==
    AllKinds = {"PreemptRTActive", "SwapDisabled", "TimerMigration",
                "RtThrottlingDisabled", "ClocksourceStable", "CoreIsolated", "NohzFull",
                "RcuNoCbs", "CpuGovernor", "CpuFrequency", "IrqAffinityDefaultAvoidsRt",
                "NoUnrelatedIrqsOnRt", "SmtSiblingIsolated", "DeepCStatesCapped",
                "TurboBoostPolicy", "NicLinkUp", "NicQuiet", "NicIrqsPinned",
                "RpsDisabled", "NicPresent"}
BY DEF AllKinds, SystemKinds, CoreKinds, NicKinds

LEMMA TypeOKRow ==
    TypeOK => Row
<1> SUFFICES ASSUME TypeOK PROVE Row
  OBVIOUS
<1>1. ctx \in Contexts
  BY DEF TypeOK
<1> QED
  BY <1>1, AllKindsListed, RowPreemptRT, RowSwap, RowTimerMigration, RowRtThrottling,
     RowClocksource, RowCoreIsolated, RowDual, RowCpuGovernor, RowCpuFrequency,
     RowIrqAffinity, RowNoUnrelatedIrqs, RowSmtSibling, RowCStates, RowTurbo,
     RowNicLink, RowNicIrqsPinned, RowRpsDisabled, RowNicQuiet
  DEF TypeOK

\* CatalogMatchesTable for every set of CPUs, IRQs, rx queues and
\* frequency values: each check's Evaluate in config.cpp decides as the
\* table of section 4.3 says, Unknown included, on every file content and
\* every context.
THEOREM CatalogHolds == Spec => []CatalogMatchesTable
<1>1. Init => TypeOK
  BY DEF Init, TypeOK
<1>2. TypeOK /\ [Next]_<<kind, ctx>> => TypeOK'
  BY DEF TypeOK, Next
<1>3. TypeOK => CatalogMatchesTable
  BY TypeOKRow DEF CatalogMatchesTable
<1> QED
  BY <1>1, <1>2, <1>3, PTL DEF Spec

=============================================================================
