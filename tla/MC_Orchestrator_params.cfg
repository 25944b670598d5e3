CONSTANTS
    U64Bits = 16
    UBits = 8
    NanoPerMicro = 1000
    SleepArgs <- MCDefaultSleepArgs
    BucketArgs <- MCBucketArgs
    CpuArgs <- MCCpuArgs
    Default = Default
    OnlineCpus = 2
    HcValues <- MCCountedHc
    SpawnCanFail = FALSE
SPECIFICATION Spec
INVARIANT ValidParametersAtSpawn
