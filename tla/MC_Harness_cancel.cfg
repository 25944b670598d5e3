CONSTANTS
    Iterations <- MCIterations
    SendSleep <- MCSendSleep
    MaxLate <- MCMaxLate
    SetupCanFail = TRUE
    ReceiveCanFail = FALSE
    FramesCanBeLost = FALSE
SPECIFICATION Spec
PROPERTY CancellationHonoured
