----------------------------- MODULE MCContract -----------------------------
(***************************************************************************)
(* One chain g - d1 - d2 - d3 - d4: d1 forms a contract whose window opens   *)
(* at height 3 and pays a miner fee, d4 revises the contract.                *)
(***************************************************************************)
EXTENDS ConsensusSet

MCBlock == {"g", "d1", "d2", "d3", "d4"}

MCParent == [d1 |-> "g", d2 |-> "d1", d3 |-> "d2", d4 |-> "d3"]

Txn == [id |-> "", inputs |-> <<>>, outputs |-> <<>>, fee |-> 0, contracts |-> <<>>,
        revisions |-> <<>>, proofs |-> <<>>, timelock |-> 0, signed |-> TRUE]

MCGenesisOutputs == (<<"output", "genesis", 1>> :> 30)

Contract == [payout |-> 20, valid |-> 20, missed |-> 20, start |-> 3, end |-> 5, rev |-> 0]

Form   == [Txn EXCEPT !.id = "form", !.inputs = <<<<"output", "genesis", 1>>>>,
                      !.outputs = <<5>>, !.fee = 5, !.contracts = <<Contract>>]
Revise == [Txn EXCEPT !.id = "revise",
                      !.revisions = <<[id |-> <<"contract", "form", 1>>,
                                       new |-> [Contract EXCEPT !.start = 5, !.end = 6, !.rev = 1]]>>]

BlockOf(h, txns) ==
    LET s == CalculateSubsidies(h, Total([i \in DOMAIN txns |-> txns[i].fee]))
    IN  [txns |-> txns, timestamp |-> 0, solved |-> TRUE, fits |-> TRUE,
         payouts |-> IF h < 3 THEN <<s.miner>> ELSE <<s.miner, s.dev>>]

MCBody == [g |-> BlockOf(0, <<>>), d1 |-> BlockOf(1, <<Form>>), d2 |-> BlockOf(2, <<>>),
           d3 |-> BlockOf(3, <<>>), d4 |-> BlockOf(4, <<Revise>>)]

MCDifficulty == [b \in MCBlock |-> 10]

MCBatches == {<<b>> : b \in MCBlock \ {"g"}}
=============================================================================
