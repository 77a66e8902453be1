--------------------------- MODULE SubsidyProofs ---------------------------
(***************************************************************************)
(* The closed form of CalculateNumSiacoins is the sum of the rewards for     *)
(* every choice of the reward constants and at every height.                 *)
(***************************************************************************)
EXTENDS SubsidySchedule, TLAPS

(* The reward of the block n blocks after height 3, and of every block past   *)
(* the last shrinking one (CalculateCoinbase without its division).           *)
LEMMA CoinbaseShape ==
    ASSUME NEW n \in Nat
    PROVE  /\ n =< (InitialCoinbase - MinimumCoinbase) * 5
                => CalculateCoinbase(n + 3) = 10 * InitialCoinbase - 2 * n
           /\ n >= (InitialCoinbase - MinimumCoinbase) * 5
                => CalculateCoinbase(n + 3) = 10 * MinimumCoinbase
<1>1. ((n + 3 - 3) * 2 * SiacoinPrecision) \div 10 = 2 * n
  BY DEF SiacoinPrecision
<1>2. n + 3 # 0 /\ n + 3 # 1 /\ n + 3 # 2
  OBVIOUS
<1> QED
  BY <1>1, <1>2, SubsidyAssumption DEF CalculateCoinbase, SiacoinPrecision

(* The first rewards are positive integers.                                   *)
LEMMA CoinbaseNat ==
    ASSUME NEW h \in Nat
    PROVE  CalculateCoinbase(h) \in Nat
<1>1. CASE h \in {0, 1, 2}
  BY <1>1, SubsidyAssumption DEF CalculateCoinbase, SiacoinPrecision
<1>2. CASE h >= 3
  <2>1. h - 3 \in Nat /\ h = (h - 3) + 3
    BY <1>2
  <2>2. \/ h - 3 =< (InitialCoinbase - MinimumCoinbase) * 5
        \/ h - 3 >= (InitialCoinbase - MinimumCoinbase) * 5
    BY SubsidyAssumption
  <2> QED
    BY <2>1, <2>2, CoinbaseShape, SubsidyAssumption
<1> QED
  BY <1>1, <1>2

(* The closed form while the reward shrinks.                                  *)
LEMMA NumWhileShrinking ==
    ASSUME NEW n \in Nat, n =< (InitialCoinbase - MinimumCoinbase) * 5
    PROVE  CalculateNumSiacoins(n + 3)
             = Airdrop + (FirstCoinbase + SecondCoinbase) * 10
               + (10 * InitialCoinbase - n) * (n + 1)
<1>1. CalculateCoinbase(n + 3) = 10 * InitialCoinbase - 2 * n
  BY CoinbaseShape
<1>2. CalculateCoinbase(3) = 10 * InitialCoinbase
  <2>1. 0 \in Nat /\ 0 =< (InitialCoinbase - MinimumCoinbase) * 5 /\ 0 + 3 = 3
    BY SubsidyAssumption
  <2>2. CalculateCoinbase(0 + 3) = 10 * InitialCoinbase - 2 * 0
    BY <2>1, CoinbaseShape
  <2> QED
    BY <2>1, <2>2, SubsidyAssumption
<1>3. (CalculateCoinbase(3) + CalculateCoinbase(n + 3)) \div 2 = 10 * InitialCoinbase - n
  BY <1>1, <1>2, SubsidyAssumption
<1>4. n + 3 # 0 /\ n + 3 # 1 /\ n + 3 # 2 /\ n + 3 > 2 /\ n + 3 - 3 = n
  OBVIOUS
<1> QED
  BY <1>3, <1>4, SubsidyAssumption DEF CalculateNumSiacoins, SiacoinPrecision

(* The last branch of CalculateNumSiacoins.                                   *)
LEMMA NumUnfold ==
    ASSUME NEW h, h # 0, h # 1, h # 2, ~(h - 3 =< (InitialCoinbase - MinimumCoinbase) * 5)
    PROVE  CalculateNumSiacoins(h)
             = Airdrop + (FirstCoinbase + SecondCoinbase) * 10
               + ((CalculateCoinbase(3) + CalculateCoinbase(h)) \div 2)
                   * ((InitialCoinbase - MinimumCoinbase) * 5 + 1)
               + (h - 3 - (InitialCoinbase - MinimumCoinbase) * 5) * CalculateCoinbase(h)
  BY Zenon DEF CalculateNumSiacoins, SiacoinPrecision

(* The closed form once the reward is constant.                               *)
LEMMA NumAfterShrinking ==
    ASSUME NEW n \in Nat, n >= (InitialCoinbase - MinimumCoinbase) * 5
    PROVE  LET d == (InitialCoinbase - MinimumCoinbase) * 5
           IN  CalculateNumSiacoins(n + 3)
                 = Airdrop + (FirstCoinbase + SecondCoinbase) * 10
                   + (5 * InitialCoinbase + 5 * MinimumCoinbase) * (d + 1)
                   + (n - d) * (10 * MinimumCoinbase)
<1> DEFINE d == (InitialCoinbase - MinimumCoinbase) * 5
<1>0. d \in Nat
  BY SubsidyAssumption
<1>1. CASE n = d
  <2>1. CalculateNumSiacoins(n + 3)
          = Airdrop + (FirstCoinbase + SecondCoinbase) * 10
            + (10 * InitialCoinbase - n) * (n + 1)
    BY <1>1, NumWhileShrinking
  <2>2. 10 * InitialCoinbase - n = 5 * InitialCoinbase + 5 * MinimumCoinbase
    BY <1>1, SubsidyAssumption
  <2>3. (n - d) * (10 * MinimumCoinbase) = 0
    BY <1>1, SubsidyAssumption
  <2> QED
    BY <1>1, <2>1, <2>2, <2>3, SubsidyAssumption
<1>2. CASE n > d
  <2>1. CalculateCoinbase(n + 3) = 10 * MinimumCoinbase
    BY CoinbaseShape
  <2>2. CalculateCoinbase(3) = 10 * InitialCoinbase
    <3>1. 0 \in Nat /\ 0 =< (InitialCoinbase - MinimumCoinbase) * 5 /\ 0 + 3 = 3
      BY SubsidyAssumption
    <3>2. CalculateCoinbase(0 + 3) = 10 * InitialCoinbase - 2 * 0
      BY <3>1, CoinbaseShape
    <3> QED
      BY <3>1, <3>2, SubsidyAssumption
  <2>3. (CalculateCoinbase(3) + CalculateCoinbase(n + 3)) \div 2
          = 5 * InitialCoinbase + 5 * MinimumCoinbase
    BY <2>1, <2>2, SubsidyAssumption
  <2>4. n + 3 # 0 /\ n + 3 # 1 /\ n + 3 # 2 /\ ~((n + 3) - 3 =< d)
    BY <1>0, <1>2
  <2>5. CalculateNumSiacoins(n + 3)
          = Airdrop + (FirstCoinbase + SecondCoinbase) * 10
            + ((CalculateCoinbase(3) + CalculateCoinbase(n + 3)) \div 2) * (d + 1)
            + ((n + 3) - 3 - d) * CalculateCoinbase(n + 3)
    BY <2>4, NumUnfold, Zenon
  <2>6. ((n + 3) - 3 - d) * CalculateCoinbase(n + 3) = (n - d) * (10 * MinimumCoinbase)
    <3> HIDE DEF d
    <3> QED
      BY <1>0, <2>1
  <2> QED
    BY <2>3, <2>5, <2>6
<1> QED
  BY <1>0, <1>1, <1>2

(* One more block adds its reward to the closed form.                         *)
LEMMA NumStep ==
    ASSUME NEW h \in Nat
    PROVE  CalculateNumSiacoins(h + 1) = CalculateNumSiacoins(h) + CalculateCoinbase(h + 1)
<1> DEFINE d == (InitialCoinbase - MinimumCoinbase) * 5
           base == Airdrop + (FirstCoinbase + SecondCoinbase) * 10
<1>0. d \in Nat /\ base \in Nat
  BY SubsidyAssumption
<1>1. CASE h = 0
  BY <1>1, SubsidyAssumption DEF CalculateNumSiacoins, CalculateCoinbase, SiacoinPrecision
<1>2. CASE h = 1
  BY <1>2, SubsidyAssumption DEF CalculateNumSiacoins, CalculateCoinbase, SiacoinPrecision
<1>3. CASE h = 2
  <2>1. 0 \in Nat /\ 0 =< d /\ h + 1 = 0 + 3
    BY <1>0, <1>3
  <2>2. CalculateNumSiacoins(0 + 3) = base + (10 * InitialCoinbase - 0) * (0 + 1)
    BY <2>1, NumWhileShrinking
  <2>3. CalculateCoinbase(0 + 3) = 10 * InitialCoinbase - 2 * 0
    BY <2>1, CoinbaseShape
  <2>4. CalculateNumSiacoins(h) = base
    BY <1>3, SubsidyAssumption DEF CalculateNumSiacoins, SiacoinPrecision
  <2> QED
    BY <2>1, <2>2, <2>3, <2>4, <1>0, SubsidyAssumption
<1>4. CASE h >= 3
  <2> DEFINE n == h - 3
  <2>1. n \in Nat /\ h = n + 3 /\ h + 1 = (n + 1) + 3
    BY <1>4
  <2>2. CASE n + 1 =< d
    <3>1. CalculateNumSiacoins(n + 3) = base + (10 * InitialCoinbase - n) * (n + 1)
      BY <2>1, <2>2, <1>0, NumWhileShrinking
    <3>2. CalculateNumSiacoins((n + 1) + 3)
            = base + (10 * InitialCoinbase - (n + 1)) * ((n + 1) + 1)
      <4>1. n + 1 \in Nat
        BY <2>1
      <4> QED
        BY <4>1, <2>2, NumWhileShrinking
    <3>3. CalculateCoinbase((n + 1) + 3) = 10 * InitialCoinbase - 2 * (n + 1)
      <4>1. n + 1 \in Nat
        BY <2>1
      <4> QED
        BY <4>1, <2>2, CoinbaseShape
    <3>4. \A i, k \in Int : (i - (k + 1)) * ((k + 1) + 1) = (i - k) * (k + 1) + (i - 2 * (k + 1))
      OBVIOUS
    <3>5. (10 * InitialCoinbase - (n + 1)) * ((n + 1) + 1)
            = (10 * InitialCoinbase - n) * (n + 1) + (10 * InitialCoinbase - 2 * (n + 1))
      <4>1. 10 * InitialCoinbase \in Int /\ n \in Int
        BY <2>1, SubsidyAssumption
      <4> HIDE DEF n
      <4> QED
        BY <3>4, <4>1
    <3>6. (10 * InitialCoinbase - n) * (n + 1) \in Int /\ 10 * InitialCoinbase - 2 * (n + 1) \in Int
      BY <2>1, SubsidyAssumption
    <3> HIDE DEF n, base
    <3> QED
      BY <2>1, <3>1, <3>2, <3>3, <3>5, <3>6, <1>0
  <2>3. CASE n >= d
    <3> DEFINE head == (5 * InitialCoinbase + 5 * MinimumCoinbase) * (d + 1)
    <3>1. CalculateNumSiacoins(n + 3) = base + head + (n - d) * (10 * MinimumCoinbase)
      BY <2>1, <2>3, NumAfterShrinking
    <3>2. n + 1 \in Nat /\ n + 1 >= d
      BY <2>1, <2>3, <1>0
    <3>3. CalculateNumSiacoins((n + 1) + 3) = base + head + ((n + 1) - d) * (10 * MinimumCoinbase)
      BY <3>2, NumAfterShrinking
    <3>4. CalculateCoinbase((n + 1) + 3) = 10 * MinimumCoinbase
      BY <3>2, CoinbaseShape
    <3>5. \A k, e, m \in Int : ((k + 1) - e) * m = (k - e) * m + m
      OBVIOUS
    <3>6. ((n + 1) - d) * (10 * MinimumCoinbase)
            = (n - d) * (10 * MinimumCoinbase) + 10 * MinimumCoinbase
      <4>1. n \in Int /\ d \in Int /\ 10 * MinimumCoinbase \in Int
        BY <2>1, <1>0, SubsidyAssumption
      <4> HIDE DEF n, d
      <4> QED
        BY <3>5, <4>1
    <3>7. head \in Int /\ (n - d) * (10 * MinimumCoinbase) \in Int /\ 10 * MinimumCoinbase \in Int
      BY <2>1, <1>0, SubsidyAssumption
    <3> HIDE DEF n, d, base, head
    <3> QED
      BY <2>1, <3>1, <3>3, <3>4, <3>6, <3>7, <1>0
  <2> QED
    BY <2>1, <2>2, <2>3, <1>0
<1> QED
  BY <1>1, <1>2, <1>3, <1>4

(* Height and total stay natural numbers while blocks are added.              *)
THEOREM SubsidyTypeOK == Spec => []TypeOK
<1>1. Init => TypeOK
  BY SubsidyAssumption DEF Init, TypeOK
<1>2. TypeOK /\ [AddBlock]_vars => TypeOK'
  <2> SUFFICES ASSUME TypeOK, [AddBlock]_vars PROVE TypeOK'
    OBVIOUS
  <2>1. CASE AddBlock
    <3>1. height + 1 \in Nat
      BY DEF TypeOK
    <3>2. CalculateCoinbase(height + 1) \in Nat
      BY <3>1, CoinbaseNat
    <3> QED
      BY <2>1, <3>1, <3>2 DEF AddBlock, TypeOK
  <2>2. CASE UNCHANGED vars
    BY <2>2 DEF vars, TypeOK
  <2> QED
    BY <2>1, <2>2
<1> QED
  BY <1>1, <1>2, PTL DEF Spec

(* At every height the coins created by all blocks are CalculateNumSiacoins,  *)
(* the number that checkSiacoinCount expects.                                 *)
THEOREM NumSiacoins == Spec => []NumSiacoinsIsSum
<1>1. Init => NumSiacoinsIsSum
  BY DEF Init, NumSiacoinsIsSum, CalculateNumSiacoins
<1>2. TypeOK /\ NumSiacoinsIsSum /\ [AddBlock]_vars => NumSiacoinsIsSum'
  <2> SUFFICES ASSUME TypeOK, NumSiacoinsIsSum, [AddBlock]_vars PROVE NumSiacoinsIsSum'
    OBVIOUS
  <2>1. CASE AddBlock
    <3>1. CalculateNumSiacoins(height + 1)
            = CalculateNumSiacoins(height) + CalculateCoinbase(height + 1)
      BY NumStep DEF TypeOK
    <3> QED
      BY <2>1, <3>1 DEF AddBlock, NumSiacoinsIsSum
  <2>2. CASE UNCHANGED vars
    BY <2>2 DEF vars, NumSiacoinsIsSum
  <2> QED
    BY <2>1, <2>2
<1> QED
  BY <1>1, <1>2, SubsidyTypeOK, PTL DEF Spec
=============================================================================
