------------------------------ MODULE MCReorg ------------------------------
(***************************************************************************)
(* Two competing branches that treat the same file contract differently,    *)
(* and a third one that turns out to be invalid only when it is applied:     *)
(*                                                                          *)
(*   g - a1 - a2 - a3 - a4      a1 forms a contract, a2 revises it, a3       *)
(*          \                   proves it, a4 spends a matured payout        *)
(*           b2 - b3 - b4       no proof: the contract expires in b4         *)
(*             \                                                            *)
(*              c3 - c4         c3 proves with the trigger block of the      *)
(*                              other branch                                 *)
(***************************************************************************)
EXTENDS ConsensusSet

MCBlock == {"g", "a1", "a2", "a3", "a4", "b2", "b3", "b4", "c3", "c4"}

MCParent == [a1 |-> "g", a2 |-> "a1", a3 |-> "a2", a4 |-> "a3",
             b2 |-> "a1", b3 |-> "b2", b4 |-> "b3", c3 |-> "b2", c4 |-> "c3"]

Txn == [id |-> "", inputs |-> <<>>, outputs |-> <<>>, fee |-> 0, contracts |-> <<>>,
        revisions |-> <<>>, proofs |-> <<>>, timelock |-> 0, signed |-> TRUE]

MCGenesisOutputs == (<<"output", "genesis", 1>> :> 30)

Contract == [payout |-> 20, valid |-> 20, missed |-> 20, start |-> 3, end |-> 4, rev |-> 0]

Form   == [Txn EXCEPT !.id = "form", !.inputs = <<<<"output", "genesis", 1>>>>,
                      !.outputs = <<10>>, !.contracts = <<Contract>>]
FCID   == <<"contract", "form", 1>>
Revise == [Txn EXCEPT !.id = "revise",
                      !.revisions = <<[id |-> FCID, new |-> [Contract EXCEPT !.end = 5, !.rev = 1]]>>]
Prove  == [Txn EXCEPT !.id = "prove", !.proofs = <<[id |-> FCID, trigger |-> "a2"]>>]
Spend  == [Txn EXCEPT !.id = "spend", !.inputs = <<<<"payout", "a1", 1>>>>,
                      !.outputs = <<15, 20>>, !.fee = 5, !.timelock = 3]

Payouts(h, fees) ==
    LET s == CalculateSubsidies(h, fees)
    IN  IF h < 3 THEN <<s.miner>> ELSE <<s.miner, s.dev>>

BlockOf(h, txns) == [txns |-> txns, timestamp |-> 0, solved |-> TRUE, fits |-> TRUE,
                     payouts |-> Payouts(h, Total([i \in DOMAIN txns |-> txns[i].fee]))]

MCBody == [g  |-> BlockOf(0, <<>>),
           a1 |-> BlockOf(1, <<Form>>),  a2 |-> BlockOf(2, <<Revise>>),
           a3 |-> BlockOf(3, <<Prove>>), a4 |-> BlockOf(4, <<Spend>>),
           b2 |-> BlockOf(2, <<>>),      b3 |-> BlockOf(3, <<>>),
           b4 |-> BlockOf(4, <<Spend>>),
           c3 |-> BlockOf(3, <<Prove>>), c4 |-> BlockOf(4, <<>>)]

\* b3 has more work than a3, but not more than the surpass threshold asks for;
\* a4 surpasses b4.
MCDifficulty == [b \in MCBlock |-> CASE b = "b2" -> 11 [] b = "a3" -> 14 [] OTHER -> 10]

MCBatches == {<<b>> : b \in MCBlock \ {"g"}} \cup {<<"b2", "b3", "b4">>, <<"a2", "a3", "a4">>}
=============================================================================
