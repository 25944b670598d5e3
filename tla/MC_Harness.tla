----------------------------- MODULE MC_Harness -----------------------------
(* Small instances of the harness for TLC.                                 *)
EXTENDS Harness

\* Four iterations: index 0 and index 3 are excluded, 1 and 2 are recorded.
MCIterations == 4
\* A period of 2 and lateness up to 5 let a wake be late by two periods.
MCSendSleep == 2
MCMaxLate == 5
=============================================================================
