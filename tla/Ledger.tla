------------------------------- MODULE Ledger -------------------------------
(***************************************************************************)
(* What a block does to the consensus state of a full node: the unspent     *)
(* outputs, the delayed outputs waiting to mature, the open file contracts  *)
(* and their expirations (modules/consensus: validtransaction.go,           *)
(* applytransaction.go, maintenance.go, diffs.go, consensusdb.go).          *)
(*                                                                          *)
(* A ledger is a record of four partial functions, one per database bucket: *)
(*   sco   output id |-> value              (SiacoinOutputs)                *)
(*   dsco  height |-> (output id |-> value) (the dsco_<height> buckets)     *)
(*   fc    contract id |-> contract         (FileContracts)                 *)
(*   fcex  height |-> set of contract ids   (the fcex_<height> buckets)     *)
(* Every id is a tuple that names what the hash in the code is taken of;    *)
(* outputs, payouts and contracts are numbered from 1.                      *)
(***************************************************************************)
EXTENDS Subsidy, Sequences, FiniteSets, SequencesExt, TLC

CONSTANTS
    Block,            \* the blocks that exist
    Genesis,          \* the block root
    Parent,           \* the ParentID of every block but Genesis
    Body,             \* block |-> [txns, payouts, timestamp, solved, fits]
    GenesisOutputs,   \* the outputs of the genesis transaction
    MaturityDelay     \* blocks before a delayed output can be spent

ASSUME LedgerAssumption ==
    /\ Genesis \in Block
    /\ Parent \in [Block \ {Genesis} -> Block]
    /\ MaturityDelay \in Nat \ {0}

(* A diff is applied in the direction it carries and reverted in the other. *)
DiffApply  == "apply"
DiffRevert == "revert"

SiacoinOutputID(t, i)         == <<"output", t.id, i>>
FileContractID(t, i)          == <<"contract", t.id, i>>
MinerPayoutID(b, i)           == <<"payout", b, i>>
StorageProofOutputID(fcid, s) == <<s, fcid>>

Put(f, k, v)  == [x \in DOMAIN f \cup {k} |-> IF x = k THEN v ELSE f[x]]
Without(f, k) == [x \in DOMAIN f \ {k} |-> f[x]]

-----------------------------------------------------------------------------
(* The primitives of consensusdb.go.                                         *)

addSiacoinOutput(l, id, v)  == [l EXCEPT !.sco = Put(@, id, v)]
removeSiacoinOutput(l, id)  == [l EXCEPT !.sco = Without(@, id)]

addFileContract(l, id, c) ==
    [l EXCEPT !.fc   = Put(@, id, c),
              !.fcex = Put(@, c.end, {id} \cup IF c.end \in DOMAIN @ THEN @[c.end] ELSE {})]

removeFileContract(l, id) ==
    [l EXCEPT !.fc                   = Without(@, id),
              !.fcex[l.fc[id].end]   = @ \ {id}]

addDSCO(l, h, id, v)   == [l EXCEPT !.dsco[h] = Put(@, id, v)]
removeDSCO(l, h, id)   == [l EXCEPT !.dsco[h] = Without(@, id)]
createDSCOBucket(l, h) == [l EXCEPT !.dsco = @ @@ (h :> <<>>)]
deleteDSCOBucket(l, h) == [l EXCEPT !.dsco = Without(@, h)]

-----------------------------------------------------------------------------
(* Committing one diff, in the direction dir (diffs.go).                     *)

commitSiacoinOutputDiff(l, d, dir) ==
    IF d.dir = dir THEN addSiacoinOutput(l, d.id, d.val)
                   ELSE removeSiacoinOutput(l, d.id)
commitFileContractDiff(l, d, dir) ==
    IF d.dir = dir THEN addFileContract(l, d.id, d.val)
                   ELSE removeFileContract(l, d.id)
commitDelayedSiacoinOutputDiff(l, d, dir) ==
    IF d.dir = dir THEN addDSCO(l, d.height, d.id, d.val)
                   ELSE removeDSCO(l, d.height, d.id)

(* A processedBlock keeps the diffs of its block in three lists.             *)
NoDiffs == [sc |-> <<>>, fc |-> <<>>, dsc |-> <<>>]

\* Mutant: the delayed outputs are left alone on a revert.
commitNodeDiffsButDelayed(l, diffs, dir) ==
    LET sc(a, d)  == commitSiacoinOutputDiff(a, d, dir)
        fc(a, d)  == commitFileContractDiff(a, d, dir)
        dsc(a, d) == commitDelayedSiacoinOutputDiff(a, d, dir)
    IN  IF dir = DiffApply
        THEN FoldLeft(dsc, FoldLeft(fc, FoldLeft(sc, l, diffs.sc), diffs.fc), diffs.dsc)
        ELSE FoldLeft(fc, FoldLeft(sc, l, Reverse(diffs.sc)), Reverse(diffs.fc))

(* commitNodeDiffs: in order when applying, backwards when reverting.        *)
commitNodeDiffs(l, diffs, dir) ==
    LET ordered(s) == IF dir = DiffApply THEN s ELSE Reverse(s)
        sc(a, d)  == commitSiacoinOutputDiff(a, d, dir)
        fc(a, d)  == commitFileContractDiff(a, d, dir)
        dsc(a, d) == commitDelayedSiacoinOutputDiff(a, d, dir)
    IN  FoldLeft(dsc,
          FoldLeft(fc,
            FoldLeft(sc, l, ordered(diffs.sc)),
            ordered(diffs.fc)),
          ordered(diffs.dsc))

createUpcomingDelayedOutputMaps(l, h, dir) ==
    IF dir = DiffApply       THEN createDSCOBucket(l, h + MaturityDelay)
    ELSE IF h >= MaturityDelay THEN createDSCOBucket(l, h)
    ELSE l

\* Mutant: nothing is deleted on a revert.
deleteAppliedMaps(l, h, dir) ==
    IF dir = DiffApply /\ h >= MaturityDelay THEN deleteDSCOBucket(l, h) ELSE l

deleteObsoleteDelayedOutputMaps(l, h, dir) ==
    IF dir = DiffApply
    THEN IF h >= MaturityDelay THEN deleteDSCOBucket(l, h) ELSE l
    ELSE deleteDSCOBucket(l, h + MaturityDelay)

(* commitDiffSet without the path, which the database record of              *)
(* ConsensusSet keeps.                                                        *)
commitDiffSet(l, h, diffs, dir) ==
    deleteObsoleteDelayedOutputMaps(
        commitNodeDiffs(createUpcomingDelayedOutputMaps(l, h, dir), diffs, dir),
        h, dir)

-----------------------------------------------------------------------------
(* Validity of a transaction t in a ledger l whose current path is p: the     *)
(* chain of blocks from genesis, so that the block at height h is p[h + 1].   *)
(* t.signed stands for the signatures, the unlock hashes, the size and the    *)
(* encoding; a storage proof names the contract and the block whose id        *)
(* selected the segment that it proves.                                       *)

blockHeight(p) == Len(p) - 1

Total(s)    == FoldLeft(LAMBDA a, v : a + v, 0, s)
Distinct(s) == Len(s) = Cardinality(ToSet(s))

StandaloneValid(t, h) ==
    /\ t.signed
    /\ t.timelock =< h
    /\ t.proofs # <<>> => t.outputs = <<>> /\ t.contracts = <<>> /\ t.revisions = <<>>
    /\ Distinct(t.inputs)
    /\ Distinct([i \in DOMAIN t.proofs |-> t.proofs[i].id]
                  \o [i \in DOMAIN t.revisions |-> t.revisions[i].id])
    /\ \A i \in DOMAIN t.outputs : t.outputs[i] # 0
    /\ \A c \in ToSet(t.contracts) :
          c.payout # 0 /\ h < c.start /\ c.start < c.end
          /\ c.valid = c.payout /\ c.missed = c.payout
    /\ \A r \in ToSet(t.revisions) :
          h < r.new.start /\ r.new.start < r.new.end /\ r.new.valid = r.new.missed

validSiacoins(l, t) ==
    /\ ToSet(t.inputs) \subseteq DOMAIN l.sco
    /\ Total([i \in DOMAIN t.inputs |-> l.sco[t.inputs[i]]])
         = Total(t.outputs) + t.fee
           + Total([i \in DOMAIN t.contracts |-> t.contracts[i].payout])

(* The segment to prove is drawn with the id of the block before the window.  *)
validStorageProofs(l, p, t) ==
    \A sp \in ToSet(t.proofs) :
        /\ sp.id \in DOMAIN l.fc
        /\ l.fc[sp.id].start - 1 =< blockHeight(p)
        /\ sp.trigger = p[l.fc[sp.id].start]

validFileContractRevisions(l, p, t) ==
    \A r \in ToSet(t.revisions) :
        /\ r.id \in DOMAIN l.fc
        /\ blockHeight(p) =< l.fc[r.id].start
        /\ l.fc[r.id].rev < r.new.rev
        /\ r.new.valid  = l.fc[r.id].valid
        /\ r.new.missed = l.fc[r.id].valid

validTransaction(l, p, t) ==
    /\ StandaloneValid(t, blockHeight(p))
    /\ validSiacoins(l, t)
    /\ validStorageProofs(l, p, t)
    /\ validFileContractRevisions(l, p, t)

-----------------------------------------------------------------------------
(* Applying a transaction.  g is the ledger together with the diffs that the  *)
(* block has generated so far: emitting a diff records and commits it.        *)

EmitSC(g, d)  == [g EXCEPT !.sc = Append(@, d),
                           !.l = commitSiacoinOutputDiff(@, d, DiffApply)]
EmitFC(g, d)  == [g EXCEPT !.fc = Append(@, d),
                           !.l = commitFileContractDiff(@, d, DiffApply)]
EmitDSC(g, d) == [g EXCEPT !.dsc = Append(@, d),
                           !.l = commitDelayedSiacoinOutputDiff(@, d, DiffApply)]

applySiacoinInputs(g, t) ==
    FoldLeft(LAMBDA a, id :
               EmitSC(a, [dir |-> DiffRevert, id |-> id, val |-> a.l.sco[id]]),
             g, t.inputs)

applySiacoinOutputs(g, t) ==
    FoldLeftDomain(LAMBDA a, i :
               EmitSC(a, [dir |-> DiffApply, id |-> SiacoinOutputID(t, i), val |-> t.outputs[i]]),
             g, t.outputs)

(* A new contract starts at revision number 0.                                *)
applyFileContracts(g, t) ==
    FoldLeftDomain(LAMBDA a, i :
               EmitFC(a, [dir |-> DiffApply, id |-> FileContractID(t, i),
                          val |-> t.contracts[i]]),
             g, t.contracts)

applyFileContractRevisions(g, t) ==
    FoldLeft(LAMBDA a, r :
               LET old == a.l.fc[r.id]
               IN  EmitFC(EmitFC(a, [dir |-> DiffRevert, id |-> r.id, val |-> old]),
                          [dir |-> DiffApply, id |-> r.id,
                           val |-> [r.new EXCEPT !.payout = old.payout]]),
             g, t.revisions)

applyStorageProofs(g, t, h) ==
    FoldLeft(LAMBDA a, sp :
               LET c == a.l.fc[sp.id]
               IN  EmitFC(EmitDSC(a, [dir |-> DiffApply, id |-> StorageProofOutputID(sp.id, "valid"),
                                      val |-> c.valid, height |-> h + MaturityDelay]),
                          [dir |-> DiffRevert, id |-> sp.id, val |-> c]),
             g, t.proofs)

applyTransaction(g, t, h) ==
    applyStorageProofs(
      applyFileContractRevisions(
        applyFileContracts(
          applySiacoinOutputs(
            applySiacoinInputs(g, t), t), t), t), t, h)

-----------------------------------------------------------------------------
(* Maintenance, after the transactions of the block b at height h.            *)

applyMinerPayouts(g, b, h) ==
    FoldLeftDomain(LAMBDA a, i :
               EmitDSC(a, [dir |-> DiffApply, id |-> MinerPayoutID(b, i),
                           val |-> Body[b].payouts[i], height |-> h + MaturityDelay]),
             g, Body[b].payouts)

(* The outputs whose delay ends at h become spendable and their bucket goes.  *)
applyMaturedSiacoinOutputs(g, h) ==
    IF h < MaturityDelay THEN g
    ELSE LET bucket == g.l.dsco[h]
             ids    == SetToSeq(DOMAIN bucket)
             mature == FoldLeft(LAMBDA a, id :
                           EmitSC(a, [dir |-> DiffApply, id |-> id, val |-> bucket[id]]),
                         g, ids)
             spent  == FoldLeft(LAMBDA a, id :
                           EmitDSC(a, [dir |-> DiffRevert, id |-> id, val |-> bucket[id],
                                       height |-> h]),
                         mature, ids)
         IN  [spent EXCEPT !.l = deleteDSCOBucket(@, h)]

(* A contract that reaches its window end without a proof pays its missed     *)
(* outputs and is removed.                                                    *)
applyFileContractMaintenance(g, h) ==
    IF h \notin DOMAIN g.l.fcex THEN g
    ELSE LET ids  == SetToSeq(g.l.fcex[h])
             paid == FoldLeft(LAMBDA a, fcid :
                         EmitDSC(a, [dir |-> DiffApply, id |-> StorageProofOutputID(fcid, "missed"),
                                     val |-> g.l.fc[fcid].missed, height |-> h + MaturityDelay]),
                       g, ids)
             done == FoldLeft(LAMBDA a, fcid :
                         EmitFC(a, [dir |-> DiffRevert, id |-> fcid, val |-> g.l.fc[fcid]]),
                       paid, ids)
         IN  [done EXCEPT !.l.fcex = Without(@, h)]

\* Mutant: contracts do not expire.
applyMaintenanceNoContracts(g, b, h) ==
    applyMaturedSiacoinOutputs(applyMinerPayouts(g, b, h), h)

applyMaintenance(g, b, h) ==
    applyFileContractMaintenance(
        applyMaturedSiacoinOutputs(applyMinerPayouts(g, b, h), h), h)

(* generateAndApplyDiff on top of the path p: each transaction is validated   *)
(* in the state that the ones before it left.  ok is FALSE when one is        *)
(* invalid; the caller then discards the ledger.                              *)
generateAndApplyDiff(l, p, b) ==
    LET h     == blockHeight(p) + 1
        start == [l |-> createDSCOBucket(l, h + MaturityDelay), ok |-> TRUE] @@ NoDiffs
        step(g, t) ==
            IF g.ok /\ validTransaction(g.l, p, t)
            THEN applyTransaction(g, t, h)
            ELSE [g EXCEPT !.ok = FALSE]
        applied == FoldLeft(step, start, Body[b].txns)
    IN  IF applied.ok THEN applyMaintenance(applied, b, h) ELSE applied

(* The ledger that createConsensusDB leaves behind.                           *)
GenesisLedger ==
    [sco  |-> GenesisOutputs,
     dsco |-> (MaturityDelay :> (MinerPayoutID(Genesis, 1) :> CalculateCoinbase(0))),
     fc   |-> <<>>,
     fcex |-> <<>>]

-----------------------------------------------------------------------------
(* Checks of a block that need no ledger (block_validation.go,                *)
(* block_rules.go).                                                           *)

Fees(b) == Total([i \in DOMAIN Body[b].txns |-> Body[b].txns[i].fee])

checkMinerPayouts(b, h) ==
    LET p   == Body[b].payouts
        sub == CalculateSubsidies(h, Fees(b))
    IN  IF h \in {1, 2}
        THEN p = <<CalculateCoinbase(h)>>
        ELSE /\ Len(p) >= 2
             /\ \A i \in 1 .. Len(p) - 1 : p[i] # 0
             /\ p[Len(p)] = sub.dev
             /\ Total(Front(p)) = sub.miner
=============================================================================
