------------------------------ MODULE Harness ------------------------------
(***************************************************************************)
(* The jitter measurement harness of main.cpp: the sender thread          *)
(* (SenderThread), the receiver thread (ReceiverThread), the live reporter *)
(* (ReportThread) and the part of main() that spawns and joins them.       *)
(*                                                                         *)
(* Threads share the atomic flags testRunning and liveReport, the wire     *)
(* between the tester's Send() and Receive() (frames in flight), and the   *)
(* sample counts of the two ReportData sinks.  The monotonic clock is      *)
(* read only by the sender's timing, so it advances in the sender's steps: *)
(* by a bounded lateness (a preemption, the duration of Send()) before the *)
(* clock read, and up to the deadline when clock_nanosleep returns.        *)
(***************************************************************************)
EXTENDS Naturals

CONSTANTS
    Iterations,      \* params.Iterations (finite runs)
    SendSleep,       \* params.SendSleep, the sender period in clock units
    MaxLate,         \* bound on how late the sender reads the clock
    SetupCanFail,    \* ConfigureThisThread may throw (priority, CPU)
    ReceiveCanFail,  \* tester->Receive() may return false
    FramesCanBeLost  \* a sent frame may never reach Receive()

ASSUME ConstantsAssumption ==
    /\ Iterations \in Nat
    /\ SendSleep \in Nat \ {0}
    /\ MaxLate \in Nat
    /\ SetupCanFail \in BOOLEAN
    /\ ReceiveCanFail \in BOOLEAN
    /\ FramesCanBeLost \in BOOLEAN

VARIABLES
    nic,          \* params.NicName # NoNicSelected: a tester exists
    now,          \* CLOCK_MONOTONIC
    testRunning,  \* static std::atomic_bool testRunning
    liveReport,   \* main's std::atomic<bool> liveReport
    wire,         \* frames sent by the tester and not yet received
    sPc, sIndex, sNext, sCurrent, sCount,  \* sender: pc, index, next, current, samples
    rPc, rIndex, rCount,                   \* receiver: pc, index, samples
    repPc, shown,                          \* reporter: pc, last rendered counts
    mPc                                    \* main()

vars == <<nic, now, testRunning, liveReport, wire, sPc, sIndex, sNext, sCurrent,
          sCount, rPc, rIndex, rCount, repPc, shown, mPc>>

\* A worker thread has left its function, normally or through its catch.
Exited == {"done", "failed"}

-----------------------------------------------------------------------------
(* Helpers translated from the loop bodies.                                *)

\* Mutant: the last iteration's index is off by one.
RecordTimeOffByOne(i) == i # 0 /\ i # Iterations

\* recordTime = (index != 0 && index != (params.Iterations - 1))
RecordTime(i) == i # 0 /\ i # Iterations - 1

\* The loop condition shared by both workers, for a finite run (the
\* Iterations == RunIndefinitely disjunct is not modelled).
KeepLooping(i) == testRunning /\ i < Iterations

\* The number of periods the sender adds to next: AddNanoToTimespec once,
\* then once more while current > next.  AddNanoToTimespec recombines
\* tv_sec and tv_nsec, so on the epoch it adds exactly SendSleep.
Periods(n, c) == IF c <= n + SendSleep THEN 1
                 ELSE (c - n + SendSleep - 1) \div SendSleep

\* Mutant: the catch-up while loop is missing.
CatchUpNoSkip(n, c) == n + SendSleep

\* The deadline after the catch-up loop.
CatchUp(n, c) == n + Periods(n, c) * SendSleep

Max2(a, b) == IF a >= b THEN a ELSE b

-----------------------------------------------------------------------------
Init ==
    /\ nic \in BOOLEAN
    /\ now = 0
    /\ testRunning = TRUE
    /\ liveReport = TRUE
    /\ wire = 0
    /\ sPc = "setup"
    /\ sIndex = 0
    /\ sNext = 0
    /\ sCurrent = 0
    /\ sCount = 0
    /\ rPc = IF nic THEN "setup" ELSE "absent"
    /\ rIndex = 0
    /\ rCount = 0
    /\ repPc = "loop"
    /\ shown = <<0, 0>>
    /\ mPc = IF nic THEN "joinReceiver" ELSE "joinSender"

-----------------------------------------------------------------------------
(* Sender thread.                                                          *)

\* ConfigureThisThread succeeds, then clock_gettime(CLOCK_MONOTONIC, &next).
SenderSetup ==
    /\ sPc = "setup"
    /\ sPc' = "loop"
    /\ sNext' = now
    /\ UNCHANGED <<nic, now, testRunning, liveReport, wire, sIndex, sCurrent, sCount,
                   rPc, rIndex, rCount, repPc, shown, mPc>>

\* ConfigureThisThread throws: the catch clears testRunning.
SenderSetupFail ==
    /\ SetupCanFail
    /\ sPc = "setup"
    /\ sPc' = "failed"
    /\ testRunning' = FALSE
    /\ UNCHANGED <<nic, now, liveReport, wire, sIndex, sNext, sCurrent, sCount,
                   rPc, rIndex, rCount, repPc, shown, mPc>>

\* The while condition of the sender loop.
SenderLoop ==
    /\ sPc = "loop"
    /\ sPc' = IF KeepLooping(sIndex) THEN "send" ELSE "done"
    /\ UNCHANGED <<nic, now, testRunning, liveReport, wire, sIndex, sNext, sCurrent,
                   sCount, rPc, rIndex, rCount, repPc, shown, mPc>>

\* if (tester != nullptr) tester->Send(): one frame onto the wire.
SenderSend ==
    /\ sPc = "send"
    /\ sPc' = "stamp"
    /\ wire' = IF nic THEN wire + 1 ELSE wire
    /\ UNCHANGED <<nic, now, testRunning, liveReport, sIndex, sNext, sCurrent,
                   sCount, rPc, rIndex, rCount, repPc, shown, mPc>>

\* current = GetCurrentTime(), possibly late; AddObservation when recordTime;
\* next advanced by the catch-up loop; then the absolute sleep begins.
SenderStamp ==
    /\ sPc = "stamp"
    /\ \E late \in 0..MaxLate :
          /\ now' = now + late
          /\ sCurrent' = now + late
          /\ sNext' = CatchUp(sNext, now + late)
    /\ sCount' = IF RecordTime(sIndex) THEN sCount + 1 ELSE sCount
    /\ sPc' = "sleep"
    /\ UNCHANGED <<nic, testRunning, liveReport, wire, sIndex, rPc, rIndex, rCount,
                   repPc, shown, mPc>>

\* clock_nanosleep(TIMER_ABSTIME, &next) returns once the clock reached next;
\* previous = current; ++index.
SenderWake ==
    /\ sPc = "sleep"
    /\ now' = Max2(now, sNext)
    /\ sIndex' = sIndex + 1
    /\ sPc' = "loop"
    /\ UNCHANGED <<nic, testRunning, liveReport, wire, sNext, sCurrent, sCount,
                   rPc, rIndex, rCount, repPc, shown, mPc>>

-----------------------------------------------------------------------------
(* Receiver thread (NIC mode only).                                        *)

ReceiverSetup ==
    /\ rPc = "setup"
    /\ rPc' = "loop"
    /\ UNCHANGED <<nic, now, testRunning, liveReport, wire, sPc, sIndex, sNext,
                   sCurrent, sCount, rIndex, rCount, repPc, shown, mPc>>

ReceiverSetupFail ==
    /\ SetupCanFail
    /\ rPc = "setup"
    /\ rPc' = "failed"
    /\ testRunning' = FALSE
    /\ UNCHANGED <<nic, now, liveReport, wire, sPc, sIndex, sNext, sCurrent, sCount,
                   rIndex, rCount, repPc, shown, mPc>>

ReceiverLoop ==
    /\ rPc = "loop"
    /\ rPc' = IF KeepLooping(rIndex) THEN "receive" ELSE "done"
    /\ UNCHANGED <<nic, now, testRunning, liveReport, wire, sPc, sIndex, sNext,
                   sCurrent, sCount, rIndex, rCount, repPc, shown, mPc>>

\* Mutant: Receive() reports a frame that never came (no blocking guard).
ReceiverReceiveNonBlocking ==
    /\ rPc = "receive"
    /\ wire' = wire - 1
    /\ rCount' = IF RecordTime(rIndex) THEN rCount + 1 ELSE rCount
    /\ rIndex' = rIndex + 1
    /\ rPc' = "loop"
    /\ UNCHANGED <<nic, now, testRunning, liveReport, sPc, sIndex, sNext, sCurrent,
                   sCount, repPc, shown, mPc>>

\* tester->Receive() blocks until a frame arrives and returns true; then
\* current = GetCurrentTime(), AddObservation when recordTime, ++index.
ReceiverReceive ==
    /\ rPc = "receive"
    /\ wire > 0
    /\ wire' = wire - 1
    /\ rCount' = IF RecordTime(rIndex) THEN rCount + 1 ELSE rCount
    /\ rIndex' = rIndex + 1
    /\ rPc' = "loop"
    /\ UNCHANGED <<nic, now, testRunning, liveReport, sPc, sIndex, sNext, sCurrent,
                   sCount, repPc, shown, mPc>>

\* Receive() returns false: testRunning.store(false); break.
ReceiverReceiveFail ==
    /\ ReceiveCanFail
    /\ rPc = "receive"
    /\ testRunning' = FALSE
    /\ rPc' = "failed"
    /\ UNCHANGED <<nic, now, liveReport, wire, sPc, sIndex, sNext, sCurrent, sCount,
                   rIndex, rCount, repPc, shown, mPc>>

\* A raw Ethernet frame dropped between the two sockets.
FrameLost ==
    /\ FramesCanBeLost
    /\ wire > 0
    /\ wire' = wire - 1
    /\ UNCHANGED <<nic, now, testRunning, liveReport, sPc, sIndex, sNext, sCurrent,
                   sCount, rPc, rIndex, rCount, repPc, shown, mPc>>

-----------------------------------------------------------------------------
(* Live reporter and main().                                               *)

\* One tick of ReportThread: lock, PrintReport of the current counts, sleep.
ReporterRender ==
    /\ repPc = "loop"
    /\ liveReport
    /\ shown' = <<sCount, rCount>>
    /\ UNCHANGED <<nic, now, testRunning, liveReport, wire, sPc, sIndex, sNext,
                   sCurrent, sCount, rPc, rIndex, rCount, repPc, mPc>>

ReporterExit ==
    /\ repPc = "loop"
    /\ ~liveReport
    /\ repPc' = "done"
    /\ UNCHANGED <<nic, now, testRunning, liveReport, wire, sPc, sIndex, sNext,
                   sCurrent, sCount, rPc, rIndex, rCount, shown, mPc>>

\* NIC mode: receiverThread.join(); testRunning.store(false).
MainJoinReceiver ==
    /\ mPc = "joinReceiver"
    /\ rPc \in Exited
    /\ testRunning' = FALSE
    /\ mPc' = "joinSender"
    /\ UNCHANGED <<nic, now, liveReport, wire, sPc, sIndex, sNext, sCurrent, sCount,
                   rPc, rIndex, rCount, repPc, shown>>

\* Mutant: liveReport is never cleared.
MainJoinSenderKeepsReporter ==
    /\ mPc = "joinSender"
    /\ sPc \in Exited
    /\ testRunning' = FALSE
    /\ mPc' = "joinReporter"
    /\ UNCHANGED <<nic, now, liveReport, wire, sPc, sIndex, sNext, sCurrent,
                   sCount, rPc, rIndex, rCount, repPc, shown>>

\* Mutant: main() goes on without waiting for the sender (a detached thread).
MainJoinSenderNoWait ==
    /\ mPc = "joinSender"
    /\ testRunning' = FALSE
    /\ liveReport' = FALSE
    /\ mPc' = "joinReporter"
    /\ UNCHANGED <<nic, now, wire, sPc, sIndex, sNext, sCurrent, sCount,
                   rPc, rIndex, rCount, repPc, shown>>

\* senderThread.join() (cyclicThread.join() in cyclic mode, followed there by
\* testRunning.store(false)); then liveReport.store(false).
MainJoinSender ==
    /\ mPc = "joinSender"
    /\ sPc \in Exited
    /\ testRunning' = FALSE
    /\ liveReport' = FALSE
    /\ mPc' = "joinReporter"
    /\ UNCHANGED <<nic, now, wire, sPc, sIndex, sNext, sCurrent, sCount,
                   rPc, rIndex, rCount, repPc, shown>>

\* reportThread.join(); the final PrintReport.
MainFinalReport ==
    /\ mPc = "joinReporter"
    /\ repPc = "done"
    /\ shown' = <<sCount, rCount>>
    /\ mPc' = "exited"
    /\ UNCHANGED <<nic, now, testRunning, liveReport, wire, sPc, sIndex, sNext,
                   sCurrent, sCount, rPc, rIndex, rCount, repPc>>

\* main() has returned: the process is over.
Finished ==
    /\ mPc = "exited"
    /\ UNCHANGED vars

-----------------------------------------------------------------------------
Sender == SenderSetup \/ SenderLoop \/ SenderSend \/ SenderStamp \/ SenderWake
Receiver == ReceiverSetup \/ ReceiverLoop \/ ReceiverReceive
Reporter == ReporterRender \/ ReporterExit
Main == MainJoinReceiver \/ MainJoinSender \/ MainFinalReport
Faults == SenderSetupFail \/ ReceiverSetupFail \/ ReceiverReceiveFail \/ FrameLost

Next == Sender \/ Receiver \/ Reporter \/ Main \/ Faults \/ Finished

\* Each OS thread runs whenever it is runnable; faults are possible, never due.
Fairness ==
    /\ WF_vars(Sender)
    /\ WF_vars(Receiver)
    /\ WF_vars(Reporter)
    /\ WF_vars(Main)

Spec == Init /\ [][Next]_vars /\ Fairness

-----------------------------------------------------------------------------
(* Properties.                                                             *)

TypeOK ==
    /\ nic \in BOOLEAN
    /\ now \in Nat
    /\ testRunning \in BOOLEAN
    /\ liveReport \in BOOLEAN
    /\ wire \in Nat
    /\ sPc \in {"setup", "loop", "send", "stamp", "sleep", "done", "failed"}
    /\ sIndex \in Nat /\ sNext \in Nat /\ sCurrent \in Nat /\ sCount \in Nat
    /\ rPc \in {"absent", "setup", "loop", "receive", "done", "failed"}
    /\ rIndex \in Nat /\ rCount \in Nat
    /\ repPc \in {"loop", "done"}
    /\ shown \in Nat \X Nat
    /\ mPc \in {"joinReceiver", "joinSender", "joinReporter", "exited"}

\* Catch-up (SenderThread, the while (current > next) loop): while the
\* sender sleeps, its deadline is not in the past of the clock read that
\* set it, and lies less than one period (at most one, when it woke exactly
\* on the previous deadline) after it: after a late wake no missed period
\* is replayed back to back.  Rests on the previous sleep having reached
\* its deadline and on the clock being monotonic.
SenderNoBacklog ==
    sPc = "sleep" => /\ sCurrent <= sNext
                     /\ sNext <= sCurrent + SendSleep

\* First/last exclusion: once main() has returned from a run in which no
\* thread failed, each ReportData holds Iterations - 2 samples: neither the
\* orchestrator's testRunning.store(false) after joining the receiver nor
\* any interleaving cut the sender short or lost a sample.
ExpectedSamples == IF Iterations >= 2 THEN Iterations - 2 ELSE 0

FirstLastExcluded ==
    (mPc = "exited" /\ sPc = "done" /\ rPc # "failed") =>
        /\ sCount = ExpectedSamples
        /\ (nic => rCount = ExpectedSamples)
        /\ shown = <<sCount, rCount>>

\* The final report is final: once main() has printed it and returned, no
\* worker adds a sample and nothing is rendered again, because main joined
\* the receiver, the sender and the reporter before that last PrintReport.
FinalReportIsFinal ==
    [][mPc = "exited" => UNCHANGED <<sCount, rCount, shown>>]_vars

\* The program ends: the workers finish, main clears liveReport, the
\* reporter leaves its loop and main prints the final report.
Termination == <>(mPc = "exited")

\* Cancellation (spec, section 8): once testRunning is false, the sender
\* and the receiver leave their loops.
CancellationHonoured ==
    ~testRunning ~> (sPc \in Exited /\ rPc \in Exited \cup {"absent"})

=============================================================================
