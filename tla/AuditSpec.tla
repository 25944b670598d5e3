------------------------------ MODULE AuditSpec ------------------------------
(***************************************************************************)
(* What ReportSystemConfiguration(cpu, nicName) promises, with its loops,  *)
(* vectors and sections abstracted away.  The arguments fix one sequence   *)
(* of results, Expected, and the audit prints it one result at a time      *)
(* before it returns.  An invalid core prints no result.  Audit refines   *)
(* this module.                                                            *)
(***************************************************************************)
EXTENDS Checks, Sequences

CONSTANTS CpuCount, CpuArgs, NicArgs, Hosts, Machines

VARIABLES
    cpu, nicName,  \* the arguments
    ds, env,       \* what the checks read
    printed,       \* the results printed so far: <<kind, status>>
    finished       \* ReportSystemConfiguration has returned

avars == <<cpu, nicName, ds, env, printed, finished>>

\* The checkContext that the audit evaluates every check in.
Ctx == [cpu |-> cpu, nic |-> IF nicName = "" THEN None ELSE nicName]

\* The results of a list of checks, each evaluated in the context.
Results(kinds) == [i \in DOMAIN kinds |-> <<kinds[i], Evaluate(kinds[i], Ctx, ds, env)>>]

\* The system and the core checks; with a NIC, NicPresent and, if it
\* passed, the NIC checks.  Nothing for a core outside 0..CpuCount-1.
Expected ==
    IF cpu < 0 \/ cpu >= CpuCount THEN <<>>
    ELSE Results(SystemKinds \o CoreKinds \o
                 (IF Ctx.nic = None THEN <<>>
                  ELSE <<"NicPresent">> \o
                       (IF EvalNicPresent(Ctx, ds) = Pass THEN NicKinds ELSE <<>>)))

AInit ==
    /\ cpu \in CpuArgs
    /\ nicName \in NicArgs
    /\ ds \in Hosts
    /\ env \in Machines
    /\ printed = <<>>
    /\ finished = FALSE

\* The next expected result is printed; the audit may return with it if it
\* was the last one.
PrintNext ==
    /\ ~finished
    /\ Len(printed) < Len(Expected)
    /\ printed' = Append(printed, Expected[Len(printed) + 1])
    /\ finished' \in BOOLEAN
    /\ finished' => printed' = Expected
    /\ UNCHANGED <<cpu, nicName, ds, env>>

\* Everything expected is printed: the audit returns.
Finish ==
    /\ ~finished
    /\ printed = Expected
    /\ finished' = TRUE
    /\ UNCHANGED <<cpu, nicName, ds, env, printed>>

ANext == PrintNext \/ Finish

\* What the audit may do: print the expected results in order and return
\* once they are all printed.
Spec == AInit /\ [][ANext]_avars

\* The audit is a sequential call of main(): nothing can keep it from
\* taking its next step.
FairSpec == Spec /\ WF_avars(ANext)

=============================================================================
