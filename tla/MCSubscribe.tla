---------------------------- MODULE MCSubscribe ----------------------------
(***************************************************************************)
(* Subscribers that catch up, register, save and restart while the chain     *)
(* moves between two branches of blocks without transactions:                *)
(*                                                                          *)
(*   g - a1 - a2 - a3                                                       *)
(*     \                                                                    *)
(*      b1 - b2                                                             *)
(***************************************************************************)
EXTENDS ConsensusSet

MCBlock == {"g", "a1", "a2", "a3", "b1", "b2"}

MCParent == [a1 |-> "g", a2 |-> "a1", a3 |-> "a2", b1 |-> "g", b2 |-> "b1"]

BlockAt(h) ==
    LET s == CalculateSubsidies(h, 0)
    IN  [txns |-> <<>>, timestamp |-> 0, solved |-> TRUE, fits |-> TRUE,
         payouts |-> IF h < 3 THEN <<s.miner>> ELSE <<s.miner, s.dev>>]

MCBody == [g |-> BlockAt(0), a1 |-> BlockAt(1), a2 |-> BlockAt(2), a3 |-> BlockAt(3),
           b1 |-> BlockAt(1), b2 |-> BlockAt(2)]

MCGenesisOutputs == (<<"output", "genesis", 1>> :> 30)

MCDifficulty == [b \in MCBlock |-> 10]

MCBatches == {<<"a1">>, <<"b1", "b2">>, <<"a1", "a2", "a3">>}

\* For liveness: one reorganisation can come between any two steps.
LiveBatches == {<<"a1">>, <<"b1", "b2">>}
=============================================================================
