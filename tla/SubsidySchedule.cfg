SPECIFICATION Spec
CONSTANTS
    FirstCoinbase = 40
    SecondCoinbase = 10
    InitialCoinbase = 60
    MinimumCoinbase = 50
    DevFundDenom = 10
    Airdrop = 7
    MaxHeight = 150
INVARIANT
    NumSiacoinsIsSum
CHECK_DEADLOCK FALSE
