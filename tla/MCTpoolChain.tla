---------------------------- MODULE MCTpoolChain ----------------------------
(***************************************************************************)
(* Two branches that are longer than the window of the fee medians:          *)
(*                                                                          *)
(*   g - a1 - a2 - a3     a1 confirms Pay, a3 confirms Data                  *)
(*    \                                                                     *)
(*     b1 - b2 - b3       b2 confirms Data                                   *)
(***************************************************************************)
EXTENDS TransactionPool

MCBlock  == {"g", "a1", "a2", "a3", "b1", "b2", "b3"}
MCParent == [a1 |-> "g", a2 |-> "a1", a3 |-> "a2", b1 |-> "g", b2 |-> "b1", b3 |-> "b2"]

Txn == [id |-> "", inputs |-> <<>>, outputs |-> <<>>, fee |-> 0, contracts |-> <<>>,
        revisions |-> <<>>, proofs |-> <<>>, timelock |-> 0, signed |-> TRUE,
        size |-> 1, standard |-> TRUE]

Coin(i) == <<"output", "genesis", i>>
MCGenesisOutputs == (Coin(1) :> 10)

Pay  == [Txn EXCEPT !.id = "pay", !.inputs = <<Coin(1)>>, !.outputs = <<10>>]
Data == [Txn EXCEPT !.id = "data"]

MCSubmitted == {<<Pay>>, <<Data>>}

BlockOf(txns) == [txns |-> txns, timestamp |-> 0, solved |-> TRUE, fits |-> TRUE,
                  payouts |-> <<>>]
MCBody == [b \in MCBlock |-> CASE b = "a1" -> BlockOf(<<Pay>>)
                               [] b \in {"a3", "b2"} -> BlockOf(<<Data>>)
                               [] OTHER -> BlockOf(<<>>)]
=============================================================================
