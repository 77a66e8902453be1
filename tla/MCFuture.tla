------------------------------ MODULE MCFuture ------------------------------
(***************************************************************************)
(* Blocks that are early, late or malformed, and a branch that is shorter    *)
(* but has more work (its difficulty is scaled up so that one block stands   *)
(* for the difference that builds up over a longer branch):                  *)
(*                                                                          *)
(*   g - a1 - a2 - a3     a2 and a3 are ahead of the clock at first          *)
(*     \                                                                    *)
(*      b1 - b2           b2 has more work than a3                           *)
(*                                                                          *)
(* e1, x1 and w1 are children of g with a timestamp before the median, one   *)
(* in the extreme future, and with wrong miner payouts.                      *)
(***************************************************************************)
EXTENDS ConsensusSet

MCBlock == {"g", "a1", "a2", "a3", "b1", "b2", "e1", "x1", "w1"}

MCParent == [a1 |-> "g", a2 |-> "a1", a3 |-> "a2", b1 |-> "g", b2 |-> "b1",
             e1 |-> "g", x1 |-> "g", w1 |-> "g"]

BlockAt(h, time) ==
    LET s == CalculateSubsidies(h, 0)
    IN  [txns |-> <<>>, timestamp |-> time, solved |-> TRUE, fits |-> TRUE,
         payouts |-> IF h < 3 THEN <<s.miner>> ELSE <<s.miner, s.dev>>]

MCBody == [g  |-> BlockAt(0, 1), a1 |-> BlockAt(1, 1), a2 |-> BlockAt(2, 3), a3 |-> BlockAt(3, 3),
           b1 |-> BlockAt(1, 1), b2 |-> BlockAt(2, 2), e1 |-> BlockAt(1, 0),
           x1 |-> BlockAt(1, 9), w1 |-> BlockAt(2, 1)]

MCGenesisOutputs == (<<"output", "genesis", 1>> :> 30)

MCDifficulty == [b \in MCBlock |-> IF b = "b1" THEN 40 ELSE 10]

MCBatches == {<<b>> : b \in MCBlock \ {"g"}} \cup {<<"a1", "a2">>}
=============================================================================
