CONSTANTS
    TextSeg = TextSeg
    EmptySeg = EmptySeg
    Text <- TextSeg
    Empty <- EmptySeg
    Numbers <- MCNumbers
    MaxTokens = 2
    NoneValue = NoneValue
    Sp = Sp
    EqSign = EqSign
    k = k
    v = v
    None <- NoneValue
    Space <- Sp
    Eq <- EqSign
    Letters <- MCLetters
    ReadBufferSize = 2
    MaxLen = 5
SPECIFICATION ParsersSpec
INVARIANT ParseAgreesOnWellFormed SlurpReadsPrefix CmdLineParamAsSpecified
