SPECIFICATION Spec
CONSTANTS
    FirstCoinbase = 4
    SecondCoinbase = 2
    InitialCoinbase = 6
    MinimumCoinbase = 5
    DevFundDenom = 10
    Airdrop = 30
    Block <- MCBlock
    Genesis = "g"
    Parent <- MCParent
    Body <- MCBody
    GenesisOutputs <- MCGenesisOutputs
    MaturityDelay = 2
    Difficulty <- MCDifficulty
    Batches <- MCBatches
    Callers = {"peer"}
    MedianTimestampWindow = 3
    FutureThreshold = 1
    ExtremeFutureThreshold = 2
    MaxTime = 0
    Subscriber = {}
    BatchSize = 1
INVARIANTS
    HeadersKeyedByID
