-------------------------------- MODULE Audit --------------------------------
(***************************************************************************)
(* ReportSystemConfiguration(cpu, nicName) of config.cpp: the CPU range    *)
(* check, then the system checks, the core checks and, when the context   *)
(* has a NIC, NicPresent followed by the NIC checks if it passed.  Each    *)
(* step evaluates one check and prints its result.                        *)
(***************************************************************************)
EXTENDS Checks, Sequences

CONSTANTS
    CpuCount,     \* CpuCount(): sysconf(_SC_NPROCESSORS_CONF), at least 1
    CpuArgs,      \* the cpu main() passes (params.SendCpu)
    NicArgs,      \* the nicName main() passes (params.NicName)
    Hosts,        \* data sources
    Machines      \* environments

ASSUME AuditAssumption ==
    /\ CpuCount \in Nat \ {0}
    /\ CpuArgs \subseteq Int
    /\ NicArgs \subseteq NicNames
    /\ Hosts \subseteq DataSources
    /\ Machines \subseteq Environments

VARIABLES
    cpu, nicName,  \* the arguments
    ds, env,       \* what the checks read
    pc,            \* "start", "system", "core", "presence", "nic", "done"
    ctx,           \* checkContext
    pending,       \* the checks of the current vector not yet evaluated
    printed        \* the results printed, in order: <<kind, status>>

vars == <<cpu, nicName, ds, env, pc, ctx, pending, printed>>

Init ==
    /\ cpu \in CpuArgs
    /\ nicName \in NicArgs
    /\ ds \in Hosts
    /\ env \in Machines
    /\ pc = "start"
    /\ ctx = [cpu |-> None, nic |-> None]
    /\ pending = <<>>
    /\ printed = <<>>

\* Mutant: the upper bound of the range check is off by one.
StartOffByOne ==
    /\ pc = "start"
    /\ IF cpu < 0 \/ cpu > CpuCount
       THEN pc' = "done" /\ UNCHANGED <<ctx, pending>>
       ELSE /\ pc' = "system"
            /\ ctx' = [cpu |-> cpu, nic |-> IF nicName = "" THEN None ELSE nicName]
            /\ pending' = SystemKinds
    /\ UNCHANGED <<cpu, nicName, ds, env, printed>>

\* An invalid core prints an error and returns: no check runs.  Otherwise
\* the context gets the core and, when the name is not empty, the NIC.
Start ==
    /\ pc = "start"
    /\ IF cpu < 0 \/ cpu >= CpuCount
       THEN pc' = "done" /\ UNCHANGED <<ctx, pending>>
       ELSE /\ pc' = "system"
            /\ ctx' = [cpu |-> cpu, nic |-> IF nicName = "" THEN None ELSE nicName]
            /\ pending' = SystemKinds
    /\ UNCHANGED <<cpu, nicName, ds, env, printed>>

\* One iteration of a for loop over system_checks, core_checks or
\* nic_checks: Evaluate, then PrintResult.
EvaluateNext ==
    /\ pc \in {"system", "core", "nic"}
    /\ pending # <<>>
    /\ printed' = Append(printed, <<Head(pending), Evaluate(Head(pending), ctx, ds, env)>>)
    /\ pending' = Tail(pending)
    /\ UNCHANGED <<cpu, nicName, ds, env, pc, ctx>>

\* The system checks are done: the "Core <cpu> Checks" section.
CoreSection ==
    /\ pc = "system"
    /\ pending = <<>>
    /\ pc' = "core"
    /\ pending' = CoreKinds
    /\ UNCHANGED <<cpu, nicName, ds, env, ctx, printed>>

\* The core checks are done: a NIC section only if the context has a NIC.
NicSection ==
    /\ pc = "core"
    /\ pending = <<>>
    /\ pc' = IF ctx.nic # None THEN "presence" ELSE "done"
    /\ UNCHANGED <<cpu, nicName, ds, env, ctx, pending, printed>>

\* Mutant: the NIC checks run whatever NicPresent says.
PresenceUngated ==
    /\ pc = "presence"
    /\ printed' = Append(printed, <<"NicPresent", EvalNicPresent(ctx, ds)>>)
    /\ pc' = "nic"
    /\ pending' = NicKinds
    /\ UNCHANGED <<cpu, nicName, ds, env, ctx>>

\* NicPresenceCheck is printed; the NIC checks run only when it passed.
Presence ==
    /\ pc = "presence"
    /\ printed' = Append(printed, <<"NicPresent", EvalNicPresent(ctx, ds)>>)
    /\ IF EvalNicPresent(ctx, ds) = Pass
       THEN pc' = "nic" /\ pending' = NicKinds
       ELSE pc' = "done" /\ UNCHANGED pending
    /\ UNCHANGED <<cpu, nicName, ds, env, ctx>>

NicDone ==
    /\ pc = "nic"
    /\ pending = <<>>
    /\ pc' = "done"
    /\ UNCHANGED <<cpu, nicName, ds, env, ctx, pending, printed>>

\* ReportSystemConfiguration has returned.
Returned ==
    /\ pc = "done"
    /\ UNCHANGED vars

Next ==
    \/ Start \/ EvaluateNext \/ CoreSection \/ NicSection \/ Presence
    \/ NicDone \/ Returned

Spec == Init /\ [][Next]_vars

\* ReportSystemConfiguration runs to completion on main()'s thread; no
\* other thread can hold it up, so every enabled step is eventually taken.
FairSpec == Spec /\ WF_vars(Next)

\* The abstract audit, with "returned" read off the program counter.
ABS == INSTANCE AuditSpec WITH finished <- (pc = "done")

-----------------------------------------------------------------------------
(* Properties.                                                             *)

Kinds(s) == [i \in DOMAIN s |-> s[i][1]]

\* Section 6 and 4.3, ordering and dispatch: a finished audit of a valid
\* core has printed the system checks, then the core checks, then, for a
\* NIC in the context, NicPresent and, only if it passed, the NIC checks,
\* each result being the evaluation of its own check on the context.
AuditOrder ==
    pc = "done" /\ 0 <= cpu /\ cpu < CpuCount =>
        /\ Kinds(printed) =
              SystemKinds \o CoreKinds \o
              (IF ctx.nic = None THEN <<>>
               ELSE <<"NicPresent">> \o
                    (IF EvalNicPresent(ctx, ds) = Pass THEN NicKinds ELSE <<>>))
        /\ \A i \in DOMAIN printed :
              printed[i][2] = Evaluate(printed[i][1], ctx, ds, env)

\* Refinement: every step of the dispatcher prints the next result that
\* AuditSpec expects for these arguments or prints nothing, it returns only
\* once every expected result is printed, and it does return.
AuditRefinesSpec == ABS!FairSpec

\* Section 4.3: the NIC section is printed if, and only if, a NIC is
\* provided, that is when main() measures with a NIC (the name is not the
\* NoNicSelected sentinel of cyclic mode).
NicSectionIffNicMode ==
    pc = "done" /\ 0 <= cpu /\ cpu < CpuCount =>
        ((\E i \in DOMAIN printed : printed[i][1] = "NicPresent")
           <=> nicName # NoNicSelected)

=============================================================================
