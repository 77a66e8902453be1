------------------------------ MODULE Subsidy ------------------------------
(***************************************************************************)
(* The block reward schedule of types/block.go.  A currency amount is       *)
(* counted in tenths of a coin, so that the 0.2 coin by which the reward    *)
(* shrinks every block is the integer 2 (SiacoinPrecision is 10).           *)
(***************************************************************************)
EXTENDS Integers

CONSTANTS
    FirstCoinbase,      \* reward of the block at height 1, in coins
    SecondCoinbase,     \* reward of the block at height 2
    InitialCoinbase,    \* reward of the block at height 3
    MinimumCoinbase,    \* the reward never drops below this
    DevFundDenom,       \* the dev fund gets 1/DevFundDenom of a reward
    Airdrop             \* coins created by the genesis block, in tenths

ASSUME SubsidyAssumption ==
    /\ FirstCoinbase \in Nat
    /\ SecondCoinbase \in Nat
    /\ MinimumCoinbase \in Nat
    /\ InitialCoinbase \in Nat
    /\ MinimumCoinbase =< InitialCoinbase
    /\ InitialCoinbase > 0
    /\ DevFundDenom \in Nat \ {0}
    /\ Airdrop \in Nat

SiacoinPrecision == 10

(* The reward of the block at height h.                                     *)
CalculateCoinbase(h) ==
    IF h = 0 THEN 0
    ELSE IF h = 1 THEN FirstCoinbase * SiacoinPrecision
    ELSE IF h = 2 THEN SecondCoinbase * SiacoinPrecision
    ELSE LET base     == InitialCoinbase * SiacoinPrecision
             deducted == ((h - 3) * 2 * SiacoinPrecision) \div 10
             minimum  == MinimumCoinbase * SiacoinPrecision
         IN  IF \/ base =< deducted
                \/ base - deducted =< minimum
             THEN minimum
             ELSE base - deducted

\* Mutant: the first height of the minimum reward is missed.
NumSiacoinsOffByOne(h) ==
    LET deflation == (InitialCoinbase - MinimumCoinbase) * 5
        avg       == (CalculateCoinbase(3) + CalculateCoinbase(h)) \div 2
        start     == Airdrop + (FirstCoinbase + SecondCoinbase) * SiacoinPrecision
    IN  IF h = 0 THEN Airdrop
        ELSE IF h = 1 THEN Airdrop + FirstCoinbase * SiacoinPrecision
        ELSE IF h = 2 THEN start
        ELSE IF h - 3 =< deflation THEN start + avg * ((h - 3) + 1)
        ELSE start + avg * deflation + (h - 3 - deflation) * CalculateCoinbase(h)

(* The number of coins in circulation at height h, in closed form.          *)
CalculateNumSiacoins(h) ==
    LET founder    == (FirstCoinbase + SecondCoinbase) * SiacoinPrecision
        deflation  == (InitialCoinbase - MinimumCoinbase) * 5
        avg        == (CalculateCoinbase(3) + CalculateCoinbase(h)) \div 2
    IN  IF h = 0 THEN Airdrop
        ELSE IF h = 1 THEN Airdrop + FirstCoinbase * SiacoinPrecision
        ELSE IF h = 2 THEN Airdrop + founder
        ELSE IF h - 3 =< deflation
             THEN Airdrop + founder + avg * ((h - 3) + 1)
             ELSE Airdrop + founder + avg * (deflation + 1)
                    + (h - 3 - deflation) * CalculateCoinbase(h)

(* The shares of the miners and of the dev fund in the block at height h     *)
(* whose transactions pay the given fees: the first two blocks have no dev   *)
(* share and do not hand the fees to the miner.                              *)
CalculateSubsidies(h, fees) ==
    IF h < 3
    THEN [miner |-> CalculateCoinbase(h), dev |-> 0]
    ELSE LET dev == CalculateCoinbase(h) \div DevFundDenom
         IN  [miner |-> CalculateCoinbase(h) - dev + fees, dev |-> dev]
=============================================================================
