CONSTANTS
    U64Bits = 16
    UBits = 8
    NanoPerMicro = 1000
    SleepArgs <- MCSleepArgs
    BucketArgs <- MCBucketArgs
    CpuArgs <- MCCpuArgs
    Default = Default
    OnlineCpus = 2
    HcValues <- MCHcValues
    SpawnCanFail = TRUE
SPECIFICATION Spec
INVARIANT LatencyVetoScoped OrderlyExitCode
PROPERTY PreparedBeforeThreads
