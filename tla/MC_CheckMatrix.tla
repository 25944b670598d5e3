--------------------------- MODULE MC_CheckMatrix ---------------------------
(* Two CPUs (CPU0 and an RT candidate), two IRQs, two rx queues, and      *)
(* frequencies 4% and 6% away from 100 kHz around the 5% tolerance.       *)
EXTENDS CheckMatrix

CONSTANT NoneValue

MCCpus == {0, 1}
MCIrqs == {1, 2}
MCRxQueues == {"rx-0", "rx-1"}
MCFreqValues == {100, 104, 106}

=============================================================================
