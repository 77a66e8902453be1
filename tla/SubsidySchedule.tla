-------------------------- MODULE SubsidySchedule --------------------------
(***************************************************************************)
(* The coins created by a chain that grows block by block, against the      *)
(* closed form with which the consistency checks of the consensus set and   *)
(* the explorer count them.                                                 *)
(***************************************************************************)
EXTENDS Subsidy

CONSTANT MaxHeight    \* bound on the height

ASSUME HeightAssumption == MaxHeight \in Nat

VARIABLES
    height,     \* height of the last block
    total       \* coins created so far

vars == <<height, total>>

Init == height = 0 /\ total = Airdrop

(* A block is added: its payouts amount to the reward plus the fees that its  *)
(* transactions gave up.                                                      *)
AddBlock ==
    /\ height < MaxHeight
    /\ height' = height + 1
    /\ total' = total + CalculateCoinbase(height + 1)

Spec == Init /\ [][AddBlock]_vars

(* Height and total are natural numbers.                                      *)
TypeOK == height \in Nat /\ total \in Nat

(* The rewards of all blocks add up to CalculateNumSiacoins, across the first *)
(* two rewards, the shrinking rewards and the constant tail.                  *)
NumSiacoinsIsSum == total = CalculateNumSiacoins(height)
=============================================================================
