------------------------------ MODULE MC_Audit ------------------------------
(* Two CPUs; a core below, at and above the valid range; the three NIC    *)
(* names main() can pass; a host where nothing is readable and one close *)
(* to scenario A of the spec, with eth0 present.                           *)
EXTENDS Audit

CONSTANT NoneValue

MCCpus == {0, 1}
MCIrqs == {1, 2}
MCRxQueues == {"rx-0"}
MCFreqValues == {100}
MCCpuArgs == {-1, 1, 2}
MCNicArgs == NicNames

Compliant ==
    [NoFiles EXCEPT
        !.realtime = "1", !.swaps = "headerOnly", !.timerMigration = "0",
        !.rtRuntime = "-1", !.clocksource = "tsc", !.isolated = {1},
        !.nohzSys = {1}, !.rcuSys = {1},
        !.governor = [c \in MCCpus |-> "performance"],
        !.freq = [c \in MCCpus |-> [cur |-> 100, min |-> 100, max |-> 100]],
        !.irqaffinityCmd = {0},
        !.interrupts = [cols |-> {0, 1},
                        row |-> [i \in MCIrqs |-> [label |-> Nic, hot |-> i = 1]]],
        !.irqAffinity = [i \in MCIrqs |-> {1}],
        !.siblings = [c \in MCCpus |-> {c}],
        !.cmdline = {"intel_idle.max_cstate=1"}, !.boost = "0",
        !.net = [n \in NicNames |-> IF n = Nic THEN Down ELSE NoNet],
        !.rps = [q \in MCRxQueues |-> "zero"]]

MCHosts == {NoFiles, Compliant}

MCMachines == {PlainHost,
               [PlainHost EXCEPT !.uname = "rt",
                                 !.queues = [n \in NicNames |-> IF n = Nic THEN {"rx-0"} ELSE None]]}

=============================================================================
