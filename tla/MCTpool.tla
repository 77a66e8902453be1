------------------------------- MODULE MCTpool -------------------------------
(***************************************************************************)
(* Dependent, conflicting and data-only transactions, and two branches that  *)
(* confirm different ones of them:                                           *)
(*                                                                          *)
(*   g - a1               a1 confirms Pay and Data                           *)
(*    \                                                                     *)
(*     b1 - b2            b1 confirms Rival, which spends what Pay spends,   *)
(*                        b2 confirms Form                                   *)
(***************************************************************************)
EXTENDS TransactionPool

MCBlock  == {"g", "a1", "b1", "b2"}
MCParent == [a1 |-> "g", b1 |-> "g", b2 |-> "b1"]

Txn == [id |-> "", inputs |-> <<>>, outputs |-> <<>>, fee |-> 0, contracts |-> <<>>,
        revisions |-> <<>>, proofs |-> <<>>, timelock |-> 0, signed |-> TRUE,
        size |-> 1, standard |-> TRUE]

Coin(i) == <<"output", "genesis", i>>
MCGenesisOutputs == (Coin(1) :> 10) @@ (Coin(2) :> 30)

Contract == [payout |-> 20, valid |-> 20, missed |-> 20, start |-> 5, end |-> 6, rev |-> 0]
FCID     == <<"contract", "form", 1>>

Pay    == [Txn EXCEPT !.id = "pay", !.inputs = <<Coin(1)>>, !.outputs = <<4, 6>>]
Child  == [Txn EXCEPT !.id = "child", !.inputs = <<<<"output", "pay", 1>>>>,
                      !.outputs = <<3>>, !.fee = 1]
Rival  == [Txn EXCEPT !.id = "rival", !.inputs = <<Coin(1)>>, !.outputs = <<10>>]
Form   == [Txn EXCEPT !.id = "form", !.inputs = <<Coin(2)>>, !.outputs = <<10>>,
                      !.contracts = <<Contract>>]
Revise == [Txn EXCEPT !.id = "revise",
                      !.revisions = <<[id |-> FCID, new |-> [Contract EXCEPT !.rev = 1]]>>]
\* Spends an output of Pay and one of Form: it joins two sets.
Join   == [Txn EXCEPT !.id = "join", !.inputs = <<<<"output", "pay", 2>>, <<"output", "form", 1>>>>,
                      !.outputs = <<12>>, !.fee = 4, !.size = 2]
Data   == [Txn EXCEPT !.id = "data"]

MCSubmitted == {<<Pay, Child>>, <<Rival>>, <<Form, Revise>>, <<Join>>, <<Data>>}

BlockOf(txns) == [txns |-> txns, timestamp |-> 0, solved |-> TRUE, fits |-> TRUE,
                  payouts |-> <<>>]
MCBody == [g  |-> BlockOf(<<>>), a1 |-> BlockOf(<<Pay, Data>>),
           b1 |-> BlockOf(<<Rival>>), b2 |-> BlockOf(<<Form>>)]
=============================================================================
