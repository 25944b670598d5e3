--------------------------- MODULE Harness_proofs ---------------------------
(***************************************************************************)
(* Proofs about the harness for every value of the constants: the type    *)
(* invariant, the sender's catch-up guarantee SenderNoBacklog, the         *)
(* first/last exclusion FirstLastExcluded and the action property          *)
(* FinalReportIsFinal.                                                     *)
(***************************************************************************)
EXTENDS Harness, TLAPS

USE ConstantsAssumption

-----------------------------------------------------------------------------
(* The catch-up arithmetic.                                                *)

\* The deadline the catch-up loop leaves is a natural number, not before the
\* clock read c, and at most one period after it, provided the previous
\* deadline n was not after c.
LEMMA CatchUpBounds ==
    ASSUME NEW n \in Nat, NEW c \in Nat, n <= c
    PROVE  /\ CatchUp(n, c) \in Nat
           /\ c <= CatchUp(n, c)
           /\ CatchUp(n, c) <= c + SendSleep
<1>1. CASE c <= n + SendSleep
  BY <1>1 DEF CatchUp, Periods
<1>2. CASE ~(c <= n + SendSleep)
  <2> DEFINE x == c - n + SendSleep - 1
             k == x \div SendSleep
  <2>1. x \in Nat /\ x >= SendSleep
    BY <1>2
  <2>2. /\ k \in Nat
        /\ k * SendSleep <= x
        /\ x < k * SendSleep + SendSleep
    BY <2>1
  <2>3. CatchUp(n, c) = n + k * SendSleep
    BY <1>2 DEF CatchUp, Periods
  <2>4. QED
    BY <2>2, <2>3
<1>3. QED
  BY <1>1, <1>2

\* The deadline is a natural number whatever the two clock values.
LEMMA CatchUpNat ==
    ASSUME NEW n \in Nat, NEW c \in Nat
    PROVE  CatchUp(n, c) \in Nat
<1>1. Periods(n, c) \in Nat
  BY DEF Periods
<1>2. QED
  BY <1>1 DEF CatchUp

-----------------------------------------------------------------------------
(* Type correctness.                                                       *)

\* Every step keeps the type invariant.
LEMMA TypeOKStep == TypeOK /\ [Next]_vars => TypeOK'
<1> SUFFICES ASSUME TypeOK, [Next]_vars PROVE TypeOK'
  OBVIOUS
<1>1. CASE SenderStamp
  <2>1. PICK late \in 0..MaxLate :
            /\ now' = now + late
            /\ sCurrent' = now + late
            /\ sNext' = CatchUp(sNext, now + late)
    BY <1>1 DEF SenderStamp
  <2>2. now + late \in Nat
    BY DEF TypeOK
  <2>3. CatchUp(sNext, now + late) \in Nat
    BY <2>2, CatchUpNat DEF TypeOK
  <2>4. QED
    BY <1>1, <2>1, <2>2, <2>3 DEF SenderStamp, TypeOK
<1>2. CASE SenderWake
  BY <1>2 DEF SenderWake, TypeOK, Max2
<1>3. CASE SenderSetup
  BY <1>3 DEF SenderSetup, TypeOK
<1>4. CASE SenderLoop
  BY <1>4 DEF SenderLoop, TypeOK
<1>5. CASE SenderSend
  BY <1>5 DEF SenderSend, TypeOK
<1>6. CASE SenderSetupFail
  BY <1>6 DEF SenderSetupFail, TypeOK
<1>7. CASE ReceiverReceive
  BY <1>7 DEF ReceiverReceive, TypeOK
<1>8. CASE ReceiverSetup \/ ReceiverLoop \/ ReceiverSetupFail \/ ReceiverReceiveFail
  <2>1. CASE ReceiverSetup
    BY <2>1 DEF ReceiverSetup, TypeOK
  <2>2. CASE ReceiverLoop
    BY <2>2 DEF ReceiverLoop, TypeOK
  <2>3. CASE ReceiverSetupFail
    BY <2>3 DEF ReceiverSetupFail, TypeOK
  <2>4. CASE ReceiverReceiveFail
    BY <2>4 DEF ReceiverReceiveFail, TypeOK
  <2>5. QED
    BY <1>8, <2>1, <2>2, <2>3, <2>4
<1>9. CASE FrameLost
  BY <1>9 DEF FrameLost, TypeOK
<1>10. <<sCount, rCount>> \in Nat \X Nat
  BY DEF TypeOK
<1>11. CASE ReporterRender
  BY <1>10, <1>11 DEF ReporterRender, TypeOK
<1>12. CASE ReporterExit
  BY <1>12 DEF ReporterExit, TypeOK
<1>13. CASE MainJoinReceiver \/ MainJoinSender
  BY <1>13 DEF MainJoinReceiver, MainJoinSender, TypeOK
<1>14. CASE MainFinalReport
  BY <1>10, <1>14 DEF MainFinalReport, TypeOK
<1>15. CASE Finished \/ UNCHANGED vars
  BY <1>15 DEF Finished, vars, TypeOK
<1>16. QED
  BY <1>1, <1>2, <1>3, <1>4, <1>5, <1>6, <1>7, <1>8, <1>9, <1>11, <1>12,
     <1>13, <1>14, <1>15
     DEF Next, Sender, Receiver, Reporter, Main, Faults

\* Type correctness of the harness for every value of the constants.
THEOREM TypeCorrect == Spec => []TypeOK
<1>1. Init => TypeOK
  BY DEF Init, TypeOK
<1>2. QED
  BY <1>1, TypeOKStep, PTL DEF Spec

-----------------------------------------------------------------------------
(* The catch-up guarantee.                                                 *)

\* SenderNoBacklog is not inductive: it needs that the deadline a sleep
\* leaves is never after the clock (clock_nanosleep returned at or after
\* it, the setup read the clock into next), and that nothing moves the
\* clock while the sender sleeps.
SenderClock ==
    /\ sPc \in {"loop", "send", "stamp"} => sNext <= now
    /\ sPc = "sleep" => sCurrent = now

IInv == TypeOK /\ SenderClock /\ SenderNoBacklog

\* The sender-side part of IInv survives every step.
LEMMA SenderClockStep ==
    TypeOK /\ SenderClock /\ SenderNoBacklog /\ [Next]_vars
        => (SenderClock /\ SenderNoBacklog)'
<1> SUFFICES ASSUME TypeOK, SenderClock, SenderNoBacklog, [Next]_vars
             PROVE  (SenderClock /\ SenderNoBacklog)'
  OBVIOUS
<1>1. CASE SenderSetup
  BY <1>1 DEF SenderSetup, SenderClock, SenderNoBacklog, TypeOK
<1>2. CASE SenderLoop
  BY <1>2 DEF SenderLoop, SenderClock, SenderNoBacklog
<1>3. CASE SenderSend
  BY <1>3 DEF SenderSend, SenderClock, SenderNoBacklog
<1>4. CASE SenderStamp
  <2>1. PICK late \in 0..MaxLate :
            /\ now' = now + late
            /\ sCurrent' = now + late
            /\ sNext' = CatchUp(sNext, now + late)
    BY <1>4 DEF SenderStamp
  <2>2. /\ sNext <= now + late
        /\ sNext \in Nat
        /\ now + late \in Nat
    BY <1>4 DEF SenderStamp, SenderClock, TypeOK
  <2>3. /\ now + late <= CatchUp(sNext, now + late)
        /\ CatchUp(sNext, now + late) <= now + late + SendSleep
    BY <2>2, CatchUpBounds
  <2>4. sPc' = "sleep"
    BY <1>4 DEF SenderStamp
  <2>5. QED
    BY <2>1, <2>3, <2>4 DEF SenderClock, SenderNoBacklog
<1>5. CASE SenderWake
  BY <1>5 DEF SenderWake, SenderClock, SenderNoBacklog, Max2, TypeOK
<1>6. CASE SenderSetupFail
  BY <1>6 DEF SenderSetupFail, SenderClock, SenderNoBacklog
<1>7. CASE Receiver \/ ReceiverSetupFail \/ ReceiverReceiveFail \/ FrameLost
  BY <1>7 DEF Receiver, ReceiverSetup, ReceiverLoop, ReceiverReceive,
     ReceiverSetupFail, ReceiverReceiveFail, FrameLost,
     SenderClock, SenderNoBacklog
<1>8. CASE Reporter \/ Main
  BY <1>8 DEF Reporter, ReporterRender, ReporterExit, Main,
     MainJoinReceiver, MainJoinSender, MainFinalReport,
     SenderClock, SenderNoBacklog
<1>9. CASE Finished \/ UNCHANGED vars
  BY <1>9 DEF Finished, vars, SenderClock, SenderNoBacklog
<1>10. QED
  BY <1>1, <1>2, <1>3, <1>4, <1>5, <1>6, <1>7, <1>8, <1>9
     DEF Next, Sender, Faults

\* The sender's catch-up never leaves a deadline in the past of its clock
\* read, nor more than one period ahead of it, for every period, lateness
\* and iteration count.
THEOREM NoBacklog == Spec => []SenderNoBacklog
<1>1. Init => IInv
  BY DEF Init, IInv, TypeOK, SenderClock, SenderNoBacklog
<1>2. IInv /\ [Next]_vars => IInv'
  BY TypeOKStep, SenderClockStep DEF IInv
<1>3. IInv => SenderNoBacklog
  BY DEF IInv
<1>4. QED
  BY <1>1, <1>2, <1>3, PTL DEF Spec

-----------------------------------------------------------------------------
(* First/last exclusion and the final report.                              *)

\* The samples a worker has recorded once it has stamped indices
\* 0..k-1: recordTime is false for index 0 and index Iterations - 1.
RecordedBefore(k) ==
    IF k <= 1 THEN 0 ELSE IF k < Iterations THEN k - 1 ELSE ExpectedSamples

\* The indices the sender has stamped, and the frames it has sent.
Stamped == sIndex + (IF sPc = "sleep" THEN 1 ELSE 0)
Sent == sIndex + (IF sPc \in {"stamp", "sleep"} THEN 1 ELSE 0)

\* Each worker's count is the number of recorded indices it has passed,
\* and the receiver has taken no more frames than the sender sent.
Progress ==
    /\ sIndex <= Iterations
    /\ sPc \in {"send", "stamp", "sleep"} => sIndex < Iterations
    /\ sCount = RecordedBefore(Stamped)
    /\ rIndex <= Iterations
    /\ rPc = "receive" => rIndex < Iterations
    /\ rCount = RecordedBefore(rIndex)
    /\ nic => rIndex + wire <= Sent

\* A receiver thread exists in NIC mode only, and only there does main()
\* start by joining it.
Roles ==
    /\ nic = (rPc # "absent")
    /\ ~nic => mPc # "joinReceiver"

\* Why testRunning is false, and so why a worker left its loop early: a
\* worker failed, or main() cleared it after joining the receiver (which
\* had received every frame) or the sender.
EarlyExit ==
    /\ (sPc = "done" /\ sIndex < Iterations) => rPc = "failed"
    /\ (rPc = "done" /\ rIndex < Iterations) => sPc = "failed"
    /\ ~testRunning => \/ sPc = "failed" \/ rPc = "failed"
                       \/ nic /\ mPc # "joinReceiver"
                       \/ mPc \in {"joinReporter", "exited"}

\* What main() has joined, and what its final report printed.
Joined ==
    /\ (nic /\ mPc # "joinReceiver") => rPc \in Exited
    /\ mPc \in {"joinReporter", "exited"} => sPc \in Exited
    /\ mPc = "exited" => repPc = "done" /\ shown = <<sCount, rCount>>

FLInv == TypeOK /\ Progress /\ Roles /\ EarlyExit /\ Joined

\* Stamping index i adds a sample exactly when recordTime holds for it.
LEMMA RecordedStep ==
    ASSUME NEW i \in Nat, i < Iterations
    PROVE  RecordedBefore(i + 1)
               = RecordedBefore(i) + (IF RecordTime(i) THEN 1 ELSE 0)
BY DEF RecordedBefore, RecordTime, ExpectedSamples

\* A worker that passed every index holds Iterations - 2 samples.
LEMMA RecordedAll == RecordedBefore(Iterations) = ExpectedSamples
BY DEF RecordedBefore, ExpectedSamples

LEMMA InitFLInv == Init => FLInv
BY DEF Init, FLInv, TypeOK, Progress, Roles, EarlyExit, Joined,
       RecordedBefore, Stamped, Sent, ExpectedSamples

\* Every step keeps FLInv: the clauses each action can disturb are the ones
\* about its own thread, and testRunning only falls through a failure or
\* one of main()'s joins.
LEMMA FLInvStep == FLInv /\ [Next]_vars => FLInv'
<1> SUFFICES ASSUME TypeOK, Progress, Roles, EarlyExit, Joined, [Next]_vars
             PROVE  FLInv'
  BY DEF FLInv
<1>0. TypeOK'
  BY TypeOKStep
<1> SUFFICES (Progress /\ Roles /\ EarlyExit /\ Joined)'
  BY <1>0 DEF FLInv
<1>1. CASE SenderSetup
  BY <1>1 DEF SenderSetup, Progress, Roles, EarlyExit, Joined, Stamped, Sent, Exited
<1>2. CASE SenderSetupFail
  BY <1>2 DEF SenderSetupFail, Progress, Roles, EarlyExit, Joined, Stamped, Sent, Exited
<1>3. CASE SenderLoop
  BY <1>3 DEF SenderLoop, KeepLooping, TypeOK, Progress, Roles, EarlyExit, Joined, Stamped, Sent, Exited
<1>4. CASE SenderSend
  BY <1>4 DEF SenderSend, TypeOK, Progress, Roles, EarlyExit, Joined, Stamped, Sent, Exited
<1>5. CASE SenderStamp
  BY <1>5, RecordedStep DEF SenderStamp, TypeOK, Progress, Roles, EarlyExit, Joined, Stamped, Sent, Exited
<1>6. CASE SenderWake
  BY <1>6 DEF SenderWake, TypeOK, Progress, Roles, EarlyExit, Joined, Stamped, Sent, Exited
<1>7. CASE ReceiverSetup
  BY <1>7 DEF ReceiverSetup, Progress, Roles, EarlyExit, Joined, Stamped, Sent, Exited
<1>8. CASE ReceiverSetupFail
  BY <1>8 DEF ReceiverSetupFail, Progress, Roles, EarlyExit, Joined, Stamped, Sent, Exited
<1>9. CASE ReceiverLoop
  BY <1>9 DEF ReceiverLoop, KeepLooping, TypeOK, Progress, Roles, EarlyExit, Joined, Stamped, Sent, Exited
<1>10. CASE ReceiverReceive
  <2>1. rIndex \in Nat /\ rIndex < Iterations
    BY <1>10 DEF ReceiverReceive, TypeOK, Progress
  <2>2. RecordedBefore(rIndex + 1)
            = RecordedBefore(rIndex) + (IF RecordTime(rIndex) THEN 1 ELSE 0)
    BY <2>1, RecordedStep
  <2>3. /\ rPc = "receive" /\ wire > 0
        /\ rPc' = "loop" /\ rIndex' = rIndex + 1 /\ wire' = wire - 1
        /\ rCount' = IF RecordTime(rIndex) THEN rCount + 1 ELSE rCount
        /\ UNCHANGED <<nic, now, testRunning, liveReport, sPc, sIndex, sNext,
                       sCurrent, sCount, repPc, shown, mPc>>
    BY <1>10, Zenon DEF ReceiverReceive
  <2>4. Progress'
    BY <2>1, <2>2, <2>3 DEF TypeOK, Progress, Stamped, Sent
  <2>5. Roles'
    BY <2>3 DEF Roles
  <2>6. EarlyExit'
    BY <2>3 DEF EarlyExit
  <2>7. Joined'
    BY <2>3 DEF Roles, Joined, Exited
  <2> QED
    BY <2>4, <2>5, <2>6, <2>7
<1>11. CASE ReceiverReceiveFail
  BY <1>11 DEF ReceiverReceiveFail, Progress, Roles, EarlyExit, Joined, Stamped, Sent, Exited
<1>12. CASE FrameLost
  BY <1>12 DEF FrameLost, TypeOK, Progress, Roles, EarlyExit, Joined, Stamped, Sent, Exited
<1>13. CASE ReporterRender
  BY <1>13 DEF ReporterRender, Progress, Roles, EarlyExit, Joined, Stamped, Sent, Exited
<1>14. CASE ReporterExit
  BY <1>14 DEF ReporterExit, Progress, Roles, EarlyExit, Joined, Stamped, Sent, Exited
<1>15. CASE MainJoinReceiver
  BY <1>15 DEF MainJoinReceiver, Progress, Roles, EarlyExit, Joined, Stamped, Sent, Exited
<1>16. CASE MainJoinSender
  BY <1>16 DEF MainJoinSender, Progress, Roles, EarlyExit, Joined, Stamped, Sent, Exited
<1>17. CASE MainFinalReport
  BY <1>17 DEF MainFinalReport, Progress, Roles, EarlyExit, Joined, Stamped, Sent, Exited
<1>18. CASE Finished \/ UNCHANGED vars
  BY <1>18 DEF Finished, vars, Progress, Roles, EarlyExit, Joined, Stamped, Sent, Exited
<1> QED
  BY <1>1, <1>2, <1>3, <1>4, <1>5, <1>6, <1>7, <1>8, <1>9, <1>10, <1>11,
     <1>12, <1>13, <1>14, <1>15, <1>16, <1>17, <1>18
     DEF Next, Sender, Receiver, Reporter, Main, Faults

THEOREM FLInvHolds == Spec => []FLInv
BY InitFLInv, FLInvStep, PTL DEF Spec

\* FLInv gives the exclusion: a sender that is done without a failed
\* receiver passed every index, and so did a receiver that is done.
LEMMA FLInvExcluded == FLInv => FirstLastExcluded
<1> SUFFICES ASSUME FLInv, mPc = "exited", sPc = "done", rPc # "failed"
             PROVE  /\ sCount = ExpectedSamples
                    /\ (nic => rCount = ExpectedSamples)
                    /\ shown = <<sCount, rCount>>
  BY DEF FirstLastExcluded
<1>1. sIndex = Iterations
  BY DEF FLInv, TypeOK, Progress, EarlyExit
<1>2. sCount = ExpectedSamples
  BY <1>1, RecordedAll DEF FLInv, Progress, Stamped
<1>3. nic => rIndex = Iterations
  BY DEF FLInv, TypeOK, Progress, EarlyExit, Joined, Exited
<1>4. nic => rCount = ExpectedSamples
  BY <1>3, RecordedAll DEF FLInv, Progress
<1>5. shown = <<sCount, rCount>>
  BY DEF FLInv, Joined
<1> QED
  BY <1>2, <1>4, <1>5

\* First/last exclusion for every iteration count: when main() returns from
\* a run in which no thread failed, each ReportData holds Iterations - 2
\* samples and the final report shows them, whatever the interleaving, the
\* lost frames or main()'s early testRunning.store(false).
THEOREM FirstLastExcludedHolds == Spec => []FirstLastExcluded
BY FLInvHolds, FLInvExcluded, PTL

\* After main() has returned, no step changes a count or the report: the
\* sender and (in NIC mode) the receiver have exited and the reporter is
\* done, so their counting and rendering steps are disabled.
LEMMA FLInvFinal ==
    FLInv /\ [Next]_vars
        => [mPc = "exited" => UNCHANGED <<sCount, rCount, shown>>]_vars
<1> SUFFICES ASSUME FLInv, [Next]_vars, mPc = "exited"
             PROVE  UNCHANGED <<sCount, rCount, shown>>
  OBVIOUS
<1>1. /\ sPc \in Exited
      /\ rPc \in Exited \cup {"absent"}
      /\ repPc = "done"
  BY DEF FLInv, Roles, Joined
<1> QED
  BY <1>1 DEF Next, Sender, Receiver, Reporter, Main, Faults, Exited,
     SenderSetup, SenderLoop, SenderSend, SenderStamp, SenderWake,
     ReceiverSetup, ReceiverLoop, ReceiverReceive, ReporterRender,
     ReporterExit, MainJoinReceiver, MainJoinSender, MainFinalReport,
     SenderSetupFail, ReceiverSetupFail, ReceiverReceiveFail, FrameLost,
     Finished, vars

\* The final report is final, for every value of the constants: once
\* main() has joined its threads and printed it, no sample is added and
\* nothing is rendered again.
THEOREM FinalReportFinal == Spec => FinalReportIsFinal
BY FLInvHolds, FLInvFinal, PTL DEF Spec, FinalReportIsFinal

=============================================================================
