--------------------------- MODULE MC_Orchestrator ---------------------------
(* Small instances of the orchestrator: 16-bit and 8-bit stand-ins for    *)
(* uint64_t and unsigned int, so that 2^13 us times 1000 wraps to zero.   *)
EXTENDS Orchestrator

\* -s 0 (accepted as is), 1 us, the default 1000 us (-s not given), and
\* the value whose nanoseconds wrap to 0 in 16 bits.
MCSleepArgs == {0, 1, 1000, 8192}

\* -s not given: the default period alone.
MCDefaultSleepArgs == {1000}

\* automatic, 1 us, and the wrapping value.
MCBucketArgs == {0, 1, 8192}

MCCpuArgs == {1, 5}

\* hardware_concurrency() counts the online CPUs, or returns 0 when it
\* cannot; a host where it counts them.
MCHcValues == {0, 2}
MCCountedHc == {2}

=============================================================================
