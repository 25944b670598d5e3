CONSTANTS
    Iterations <- MCIterations
    SendSleep <- MCSendSleep
    MaxLate <- MCMaxLate
    SetupCanFail = TRUE
    ReceiveCanFail = TRUE
    FramesCanBeLost = TRUE
SPECIFICATION Spec
INVARIANT TypeOK
INVARIANT SenderNoBacklog
INVARIANT FirstLastExcluded
PROPERTY FinalReportIsFinal
