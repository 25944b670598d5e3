CONSTANTS
    Iterations <- MCIterations
    SendSleep <- MCSendSleep
    MaxLate <- MCMaxLate
    SetupCanFail = FALSE
    ReceiveCanFail = TRUE
    FramesCanBeLost = FALSE
SPECIFICATION Spec
PROPERTY Termination
