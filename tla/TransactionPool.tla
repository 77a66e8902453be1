--------------------------- MODULE TransactionPool ---------------------------
(***************************************************************************)
(* The transaction pool of a full node (modules/transactionpool) on top of  *)
(* the change stream of the consensus set: unconfirmed transactions are kept *)
(* in sets of dependent transactions, every consensus change takes the pool  *)
(* apart and puts it together again, and the confirmed transactions, the     *)
(* height and the fee medians live in a bolt transaction that is committed   *)
(* every two minutes.                                                        *)
(*                                                                          *)
(* A set is its own id, the sequence of its transactions (the code hashes    *)
(* it).  The code ranges over maps in an arbitrary order; an operator that   *)
(* stands for such code returns the set of its possible results.             *)
(***************************************************************************)
EXTENDS Ledger

CONSTANTS
    Submitted,         \* the sets that modules and peers submit
    Subscriber,        \* the modules that subscribe to the pool
    maxTxnAge,
    SizeForFee,        \* TransactionPoolSizeForFee
    SizeTarget,        \* TransactionPoolSizeTarget
    SetSizeLimit,      \* modules.TransactionSetSizeLimit
    FeeDepth,          \* blockFeeEstimationDepth
    HeightRange,       \* types.BlockHeight is unsigned: heights wrap here
    MaxChanges         \* bound on the number of consensus changes

VARIABLES
    \* the consensus set: its log of changes and the changes sent to the pool
    changeLog, sent,
    \* the pool in memory
    knownObjects, transactionSets, transactionListSize, transactionHeights,
    subscriberSets, subscribers, view,
    \* dbTx, the open bolt transaction, and what is committed
    dbTx, db

poolVars == <<knownObjects, transactionSets, transactionListSize, transactionHeights>>
subVars  == <<subscriberSets, subscribers, view>>
vars     == <<changeLog, sent, poolVars, subVars, dbTx, db>>

-----------------------------------------------------------------------------
(* The consensus set.                                                        *)

NoBlock == "none"
Beginning == [reverted |-> <<>>, applied |-> <<>>]  \* ConsensusChangeBeginning

Chain[b \in Block] == IF b = Genesis THEN <<b>> ELSE Append(Chain[Parent[b]], b)

Replay[b \in Block] ==
    IF b = Genesis THEN [l |-> GenesisLedger, ok |-> TRUE]
    ELSE LET g == Replay[Parent[b]]
         IN  IF g.ok THEN generateAndApplyDiff(g.l, Chain[Parent[b]], b) ELSE g

LedgerAt == [b \in Block |-> Replay[b]]

\* The block that a change leads to, and the one that the whole log leads to.
TipOf(c) == IF c = Beginning THEN NoBlock ELSE Last(c.applied)
Tip      == TipOf(Last(changeLog))

(* The change from the current path to the one that ends in b.               *)
ChangeTo(a, b) ==
    LET common == LongestCommonPrefix({Chain[a], Chain[b]})
    IN  [reverted |-> Reverse(SubSeq(Chain[a], Len(common) + 1, Len(Chain[a]))),
         applied  |-> SubSeq(Chain[b], Len(common) + 1, Len(Chain[b]))]

(* tryTransactionSet: the set on top of the committed consensus state,       *)
(* whatever change the pool is at.                                           *)
tryTransactionSet(tip, ts) ==
    LET start == [l |-> LedgerAt[tip].l, ok |-> TRUE] @@ NoDiffs
        step(g, t) ==
            IF g.ok /\ validTransaction(g.l, Chain[tip], t)
            THEN applyTransaction(g, t, blockHeight(Chain[tip]))
            ELSE [g EXCEPT !.ok = FALSE]
    IN  FoldLeft(step, start, ts)

(* managedAcceptBlocks commits one change for every block that extends the   *)
(* longest chain, and only then sends them to the subscribers, with its lock *)
(* held throughout.  No change applies fewer blocks than it reverts, only a   *)
(* change of branch applies several, and no change comes twice.              *)
\* Mutant: a branch with more work and fewer blocks is taken.
AcceptableShorter(log, c) ==
    /\ c \notin ToSet(log)
    /\ c.applied # <<>>
    /\ Len(c.applied) > 1 => c.reverted # <<>>
    /\ LedgerAt[Last(c.applied)].ok

Acceptable(log, c) ==
    /\ c \notin ToSet(log)
    /\ c.applied # <<>>
    /\ Len(c.applied) >= Len(c.reverted)
    /\ Len(c.applied) > 1 => c.reverted # <<>>
    /\ LedgerAt[Last(c.applied)].ok

AcceptBlocks ==
    /\ sent = Len(changeLog)
    /\ \E b \in Block :
         LET c == ChangeTo(Tip, b)
         IN  /\ Acceptable(changeLog, c)
             /\ \/ changeLog' = Append(changeLog, c)
                \/ \E d \in Block \ {Genesis} :
                     /\ Parent[d] = b
                     /\ Acceptable(changeLog, ChangeTo(b, d))
                     /\ changeLog' = changeLog \o <<c, ChangeTo(b, d)>>
    /\ Len(changeLog') =< MaxChanges
    /\ UNCHANGED <<sent, poolVars, subVars, dbTx, db>>

-----------------------------------------------------------------------------
(* Accepting a set.  A pool is a record of the maps in poolVars.             *)

Pool == [known |-> knownObjects, sets |-> transactionSets,
         size |-> transactionListSize, heights |-> transactionHeights]

relatedObjectIDs(ts) ==
    UNION {ToSet(t.inputs)
             \cup {SiacoinOutputID(t, i) : i \in DOMAIN t.outputs}
             \cup {FileContractID(t, i) : i \in DOMAIN t.contracts}
             \cup {r.id : r \in ToSet(t.revisions)}
             \cup {sp.id : sp \in ToSet(t.proofs)} : t \in ToSet(ts)}

SizeOf(ts) == Total([i \in DOMAIN ts |-> ts[i].size])
FeesOf(ts) == Total([i \in DOMAIN ts |-> ts[i].fee])

(* The fee per byte grows with the third power of the size of the pool.      *)
requiredFeesToExtendTpool(p) ==
    IF p.size < SizeForFee THEN 0 ELSE p.size ^ 3 \div SizeTarget ^ 3

isStandardTransactionSet(ts) ==
    /\ \A t \in ToSet(ts) : t.standard
    /\ SizeOf(ts) =< SetSizeLimit

checkTransactionSetComposition(p, ts) ==
    ts \notin p.sets /\ isStandardTransactionSet(ts)

EnoughFees(p, ts) == FeesOf(ts) >= requiredFeesToExtendTpool(p) * SizeOf(ts)

(* Put the set s into p and register the objects for it.                     *)
AddSet(p, s, objects) ==
    [p EXCEPT !.sets  = @ \cup {s},
              !.known = [o \in objects |-> s] @@ @,
              !.size  = @ + SizeOf(s)]

\* Mutant: the sets that were merged still count.
RemoveSetsButSize(p, S) == [p EXCEPT !.sets = @ \ S]

RemoveSets(p, S) ==
    [p EXCEPT !.sets = @ \ S, !.size = @ - MapThenSumSet(SizeOf, S)]

ConflictsOf(p, ts) == {p.known[o] : o \in relatedObjectIDs(ts) \cap DOMAIN p.known}

(* The end of handleConflicts: one set in place of the conflicting ones and  *)
(* ts.  The objects come from the diffs, the heights are not recorded.       *)
MergeConflicts(p, tip, ts, conflicts) ==
    { LET superset == FlattenSeq(order) \o ts
          cc == tryTransactionSet(tip, superset)
      IN  IF /\ checkTransactionSetComposition(p, superset)
             /\ EnoughFees(p, superset)
             /\ cc.ok
          THEN [ok |-> TRUE,
                pool |-> AddSet(RemoveSets(p, conflicts), superset,
                                {d.id : d \in ToSet(cc.sc) \cup ToSet(cc.fc)})]
          ELSE [ok |-> FALSE, pool |-> p]
      : order \in SetToSeqs(conflicts) }

(* Transactions that the conflicting sets already hold are dropped first;    *)
(* the conflicts of the others are looked up again.                          *)
handleConflicts(p, tip, ts, conflicts) ==
    LET known    == UNION {ToSet(s) : s \in conflicts}
        dedupSet == SelectSeq(ts, LAMBDA t : t \notin known)
    IN  IF dedupSet = <<>> THEN {[ok |-> FALSE, pool |-> p]}
        ELSE MergeConflicts(p, tip, dedupSet, ConflictsOf(p, dedupSet))

AddStandalone(p, ts, height) ==
    [AddSet(p, ts, relatedObjectIDs(ts))
       EXCEPT !.heights = @ @@ [id \in {t.id : t \in ToSet(ts)} |-> height]]

\* Mutant: confirmed transactions are not taken out of the set.
acceptWithConfirmed(p, tip, tx, ts) ==
    IF ~ (checkTransactionSetComposition(p, ts) /\ EnoughFees(p, ts))
    THEN {[ok |-> FALSE, pool |-> p]}
    ELSE IF ConflictsOf(p, ts) # {}
    THEN handleConflicts(p, tip, ts, ConflictsOf(p, ts))
    ELSE IF tryTransactionSet(tip, ts).ok
    THEN {[ok |-> TRUE, pool |-> AddStandalone(p, ts, tx.height)]}
    ELSE {[ok |-> FALSE, pool |-> p]}

(* acceptTransactionSet on the pool p, with tx the open bolt transaction.    *)
acceptTransactionSet(p, tip, tx, all) ==
    LET ts == SelectSeq(all, LAMBDA t : t.id \notin tx.confirmed)
        rejected == {[ok |-> FALSE, pool |-> p]}
    IN  IF \/ ts = <<>>
           \/ ~ checkTransactionSetComposition(p, ts)
           \/ ~ EnoughFees(p, ts)
        THEN rejected
        ELSE IF ConflictsOf(p, ts) # {}
        THEN handleConflicts(p, tip, ts, ConflictsOf(p, ts))
        ELSE IF tryTransactionSet(tip, ts).ok
        THEN {[ok |-> TRUE, pool |-> AddStandalone(p, ts, tx.height)]}
        ELSE rejected

-----------------------------------------------------------------------------
(* The steps of the pool.                                                    *)

SetPool(p) ==
    /\ knownObjects' = p.known
    /\ transactionSets' = p.sets
    /\ transactionListSize' = p.size
    /\ transactionHeights' = p.heights

\* Mutant: the sets that are gone are not reported.
updateOnlyNewSets ==
    /\ subscriberSets' = transactionSets'
    /\ view' = [s \in Subscriber |->
                  IF s \in subscribers
                  THEN view[s] \cup (transactionSets' \ subscriberSets)
                  ELSE view[s]]
    /\ UNCHANGED subscribers

(* updateSubscribersTransactions: the difference to what was sent before.    *)
updateSubscribersTransactions ==
    /\ subscriberSets' = transactionSets'
    /\ view' = [s \in Subscriber |->
                  IF s \in subscribers
                  THEN (view[s] \ (subscriberSets \ transactionSets'))
                         \cup (transactionSets' \ subscriberSets)
                  ELSE view[s]]
    /\ UNCHANGED subscribers

(* AcceptTransactionSet waits for the lock of the consensus set, which is    *)
(* held until every change has been sent.  A refused set changes nothing.    *)
AcceptTransactionSet ==
    /\ sent = Len(changeLog)
    /\ \E ts \in Submitted :
         \E r \in acceptTransactionSet(Pool, Tip, dbTx, ts) :
            r.ok /\ SetPool(r.pool)
    /\ updateSubscribersTransactions
    /\ UNCHANGED <<changeLog, sent, dbTx, db>>

\* Mutant: knownObjects is not cleared.
PurgedButKnown(p) == [p EXCEPT !.sets = {}, !.size = 0]

Purged(p) == [p EXCEPT !.known = <<>>, !.sets = {}, !.size = 0]

PurgeTransactionPool ==
    /\ transactionSets # {}
    /\ SetPool(Purged(Pool))
    /\ UNCHANGED <<changeLog, sent, subVars, dbTx, db>>

(* The part of ProcessConsensusChange that follows the chain.  An entry of    *)
(* medians stands for the median fee of the block that it names.             *)
\* Mutant: the median of a reverted block stays.
revertKeepMedian(tx, b) ==
    [tx EXCEPT !.recent    = IF b = Genesis THEN NoBlock ELSE Parent[b],
               !.height    = IF @ > 0 \/ b # Genesis THEN (@ - 1) % HeightRange ELSE @,
               !.confirmed = @ \ {t.id : t \in ToSet(Body[b].txns)}]

\* Mutant: the transactions of a reverted block stay confirmed.
revertKeepConfirmed(tx, b) ==
    [tx EXCEPT !.recent    = IF b = Genesis THEN NoBlock ELSE Parent[b],
               !.height    = IF @ > 0 \/ b # Genesis THEN (@ - 1) % HeightRange ELSE @,
               !.medians   = IF @ = <<>> THEN @ ELSE Front(@)]

revertBlock(tx, b) ==
    [tx EXCEPT !.recent    = IF b = Genesis THEN NoBlock ELSE Parent[b],
               !.height    = IF @ > 0 \/ b # Genesis THEN (@ - 1) % HeightRange ELSE @,
               !.confirmed = @ \ {t.id : t \in ToSet(Body[b].txns)},
               !.medians   = IF @ = <<>> THEN @ ELSE Front(@)]

\* Mutant: the genesis block counts, too.
applyBlockCountGenesis(tx, b) ==
    [tx EXCEPT !.recent    = b,
               !.height    = (@ + 1) % HeightRange,
               !.confirmed = @ \cup {t.id : t \in ToSet(Body[b].txns)},
               !.medians   = LET all == Append(@, b)
                             IN  IF Len(all) > FeeDepth THEN Tail(all) ELSE all]

\* Mutant: old medians are not stripped off.
applyBlockKeepMedians(tx, b) ==
    [tx EXCEPT !.recent    = b,
               !.height    = IF @ > 0 \/ b # Genesis THEN (@ + 1) % HeightRange ELSE @,
               !.confirmed = @ \cup {t.id : t \in ToSet(Body[b].txns)},
               !.medians   = Append(@, b)]

applyBlock(tx, b) ==
    [tx EXCEPT !.recent    = b,
               !.height    = IF @ > 0 \/ b # Genesis THEN (@ + 1) % HeightRange ELSE @,
               !.confirmed = @ \cup {t.id : t \in ToSet(Body[b].txns)},
               !.medians   = LET all == Append(@, b)
                             IN  IF Len(all) > FeeDepth THEN Tail(all) ELSE all]

FollowChange(tx, c) ==
    [FoldLeft(applyBlock, FoldLeft(revertBlock, tx, c.reverted), c.applied)
       EXCEPT !.cc = c]

(* The code panics when a change does not continue from the recent block,    *)
(* unless no recent block is stored.                                         *)
Continues(tx, c) ==
    LET path == <<tx.recent>> \o [i \in DOMAIN c.reverted |-> Parent[c.reverted[i]]]
    IN  tx.recent # NoBlock =>
          /\ \A i \in DOMAIN c.reverted : c.reverted[i] = path[i]
          /\ \A i \in DOMAIN c.applied :
               Parent[c.applied[i]] = IF i = 1 THEN Last(path) ELSE c.applied[i - 1]

(* Fold acceptTransactionSet over single transactions; onError(q, t) is the  *)
(* pool when t was refused.                                                  *)
Readd(P, tip, tx, txns, onError(_, _)) ==
    FoldLeft(LAMBDA A, t :
               UNION {{IF r.ok THEN r.pool ELSE onError(r.pool, t)
                         : r \in acceptTransactionSet(p, tip, tx, <<t>>)} : p \in A},
             P, txns)

ForgetHeight(p, t) == [p EXCEPT !.heights = Without(@, t.id)]

(* The age is an unsigned difference.                                        *)
TooOld(p, tx, t) ==
    /\ t.id \in DOMAIN p.heights
    /\ (tx.height - p.heights[t.id]) % HeightRange > maxTxnAge

PruneOld(p, tx, txns) ==
    FoldLeft(LAMBDA a, t : IF TooOld(a.pool, tx, t)
                           THEN [a EXCEPT !.pool = ForgetHeight(@, t)]
                           ELSE [a EXCEPT !.txns = Append(@, t)],
             [pool |-> p, txns |-> <<>>], txns)

TxnsOf(blocks) == FlattenSeq([i \in DOMAIN blocks |-> Body[blocks[i]].txns])

\* Mutant: the pool is not purged first.
ReaddUnpurged(p, tip, tx, c, sets) ==
    LET applied == ToSet(TxnsOf(c.applied))
        Unconfirmed(ts) == SelectSeq(ts, LAMBDA t : t \notin applied)
        young == PruneOld(p, tx, Unconfirmed(FlattenSeq(sets)))
        back  == Readd({young.pool}, tip, tx, Unconfirmed(TxnsOf(Reverse(c.reverted))),
                       LAMBDA q, t : q)
    IN  Readd(back, tip, tx, young.txns, ForgetHeight)

(* The rest of ProcessConsensusChange: the sets without the transactions of  *)
(* the applied blocks and without old ones are put back into an empty pool,  *)
(* one transaction at a time, after the transactions of the reverted blocks. *)
ReaddInOrder(p, tip, tx, c, sets) ==
    LET applied == ToSet(TxnsOf(c.applied))
        Unconfirmed(ts) == SelectSeq(ts, LAMBDA t : t \notin applied)
        young == PruneOld(Purged(p), tx, Unconfirmed(FlattenSeq(sets)))
        back  == Readd({young.pool}, tip, tx, Unconfirmed(TxnsOf(Reverse(c.reverted))),
                       LAMBDA q, t : q)
    IN  Readd(back, tip, tx, young.txns, ForgetHeight)

\* Mutant: every set is put back with its children first.
ReaddedBackwards(p, tip, tx, c) ==
    UNION {ReaddInOrder(p, tip, tx, c, [i \in DOMAIN order |-> Reverse(order[i])])
             : order \in SetToSeqs(p.sets)}

ReaddedPools(p, tip, tx, c) ==
    UNION {ReaddInOrder(p, tip, tx, c, order) : order \in SetToSeqs(p.sets)}

ProcessConsensusChange ==
    /\ sent < Len(changeLog)
    /\ Continues(dbTx, changeLog[sent + 1])
    /\ sent' = sent + 1
    /\ dbTx' = FollowChange(dbTx, changeLog[sent'])
    /\ \E p \in ReaddedPools(Pool, Tip, dbTx', changeLog[sent']) : SetPool(p)
    /\ updateSubscribersTransactions
    /\ UNCHANGED <<changeLog, db>>

TransactionPoolSubscribe(s) ==
    /\ s \notin subscribers
    /\ subscribers' = subscribers \cup {s}
    /\ view' = [view EXCEPT ![s] = subscriberSets]
    /\ UNCHANGED <<changeLog, sent, poolVars, subscriberSets, dbTx, db>>

Unsubscribe(s) ==
    /\ s \in subscribers
    /\ subscribers' = subscribers \ {s}
    /\ view' = [view EXCEPT ![s] = {}]
    /\ UNCHANGED <<changeLog, sent, poolVars, subscriberSets, dbTx, db>>

\* Mutant: the recent block is only kept in memory.
syncWithoutRecent ==
    /\ db # dbTx
    /\ db' = [dbTx EXCEPT !.recent = db.recent]
    /\ UNCHANGED <<changeLog, sent, poolVars, subVars, dbTx>>

(* Every two minutes, and when the process ends in an orderly way.           *)
syncDB ==
    /\ db # dbTx
    /\ db' = dbTx
    /\ UNCHANGED <<changeLog, sent, poolVars, subVars, dbTx>>

-----------------------------------------------------------------------------
(* Starting, after a crash at any moment.  The pool resumes from the change   *)
(* that it stored, or from the beginning when the consensus set does not     *)
(* know that change.  The bolt transaction that was open is lost.            *)

NewDB == [cc |-> Beginning, recent |-> NoBlock, height |-> 0, confirmed |-> {},
          medians |-> <<>>]

resetDB(tx) == [NewDB EXCEPT !.medians = tx.medians]

initPersist(log) ==
    LET known == db.cc = Beginning \/ db.cc \in ToSet(log)
    IN  /\ changeLog' = log
        /\ sent' = IF db.cc \in ToSet(log)
                   THEN CHOOSE i \in DOMAIN log : log[i] = db.cc
                   ELSE 0
        /\ dbTx' = IF known THEN db ELSE resetDB(db)
        /\ UNCHANGED db

EmptyPool ==
    /\ SetPool([known |-> <<>>, sets |-> {}, size |-> 0, heights |-> <<>>])
    /\ subscriberSets' = {}
    /\ subscribers' = {}
    /\ view' = [s \in Subscriber |-> {}]

Restart ==
    /\ initPersist(changeLog)
    /\ EmptyPool

Init ==
    /\ changeLog = <<[reverted |-> <<>>, applied |-> <<Genesis>>]>>
    /\ sent = 0
    /\ knownObjects = <<>> /\ transactionSets = {}
    /\ transactionListSize = 0 /\ transactionHeights = <<>>
    /\ subscriberSets = {} /\ subscribers = {}
    /\ view = [s \in Subscriber |-> {}]
    /\ dbTx = NewDB /\ db = NewDB

(* The consensus database was deleted while the process was down.            *)
RestartResynced ==
    /\ Len(changeLog) > 1
    /\ initPersist(<<changeLog[1]>>)
    /\ EmptyPool

Next ==
    \/ AcceptBlocks
    \/ AcceptTransactionSet
    \/ PurgeTransactionPool
    \/ ProcessConsensusChange
    \/ \E s \in Subscriber : TransactionPoolSubscribe(s) \/ Unsubscribe(s)
    \/ syncDB
    \/ Restart
    \/ RestartResynced

Spec == Init /\ [][Next]_vars

-----------------------------------------------------------------------------
(* Properties.                                                               *)

PoolTxns(sets) == UNION {ToSet(s) : s \in sets}
CaughtUp       == sent = Len(changeLog)
PathOf(c)      == IF c = Beginning THEN <<>> ELSE Chain[TipOf(c)]

(* Every variable has its type, and no set is empty.                         *)
TypeOK ==
    /\ sent \in 0 .. Len(changeLog)
    /\ <<>> \notin transactionSets
    /\ \A o \in DOMAIN knownObjects : knownObjects[o] \in Seq(PoolTxns({knownObjects[o]}))
    /\ transactionListSize \in Nat
    /\ \A id \in DOMAIN transactionHeights : transactionHeights[id] \in 0 .. HeightRange - 1
    /\ subscribers \subseteq Subscriber
    /\ \A tx \in {dbTx, db} : tx.height \in 0 .. HeightRange - 1 /\ Len(tx.medians) =< FeeDepth

(* knownObjects names, for exactly the objects that the pool touches, the    *)
(* one set that touches them: nothing is left of a set that was merged,      *)
(* removed or rebuilt, so no conflict is missed and none is imagined.        *)
KnownObjectsExact ==
    /\ DOMAIN knownObjects = UNION {relatedObjectIDs(s) : s \in transactionSets}
    /\ \A s \in transactionSets : \A o \in relatedObjectIDs(s) : knownObjects[o] = s

(* TransactionList returns the sets one after the other in the order of a    *)
(* map: whatever that order is, the list can be put into the next block.     *)
AnyOrderValid ==
    CaughtUp => \A order \in SetToSeqs(transactionSets) :
                    tryTransactionSet(Tip, FlattenSeq(order)).ok

(* transactionListSize, which decides the fees, is the size of the sets in    *)
(* the pool after any number of merges and rebuilds.                         *)
ListSizeExact == transactionListSize = MapThenSumSet(SizeOf, transactionSets)

(* The pool's record of the chain is that of the stored change: the recent   *)
(* block and the height are those of the path after this change, in the      *)
(* open transaction and in the committed one.                                *)
RecordOfChain ==
    \A tx \in {dbTx, db} :
        /\ tx.recent = TipOf(tx.cc)
        /\ tx.height = IF tx.cc = Beginning THEN 0 ELSE Len(PathOf(tx.cc)) - 1

(* The confirmed transactions are those of the path after the stored change. *)
ConfirmedFollowsChain ==
    \A tx \in {dbTx, db} : tx.confirmed = {t.id : t \in ToSet(TxnsOf(PathOf(tx.cc)))}

(* The fee medians end with those of the last blocks of the path, across     *)
(* reorganisations that are longer than the window and across restarts.      *)
MediansOfChain ==
    \A tx \in {dbTx, db} :
        LET path == PathOf(tx.cc)
        IN  \A i \in 0 .. Min({Len(path), Len(tx.medians)}) - 1 :
                tx.medians[Len(tx.medians) - i] = path[Len(path) - i]

(* Every change that the consensus set sends continues from the recent       *)
(* block, also after a restart that lost the open transaction: the code      *)
(* never panics.                                                             *)
ChangesContinue == CaughtUp \/ Continues(dbTx, changeLog[sent + 1])

(* No transaction of the pool is confirmed.                                  *)
PoolUnconfirmed == {t.id : t \in PoolTxns(transactionSets)} \cap dbTx.confirmed = {}

(* No transaction was first seen at a height above the current one, so that  *)
(* the unsigned age in the pruning of old transactions does not wrap.        *)
SeenInThePast ==
    \A id \in DOMAIN transactionHeights : transactionHeights[id] =< dbTx.height

(* After the pool accepted a set or processed a change, every subscriber     *)
(* that added up the diffs sees the pool, also when it was purged before.    *)
SubscribersInformed ==
    [][AcceptTransactionSet \/ ProcessConsensusChange =>
           \A s \in subscribers : view'[s] = transactionSets']_vars

(* A change drops a transaction of the pool or of a reverted block only if   *)
(* it is confirmed now, is too old, or cannot follow the transactions that   *)
(* are in the pool.                                                          *)
OnlyInvalidDropped ==
    [][\A c \in {changeLog[n] : n \in {sent + 1} \cap DOMAIN changeLog} :
         ProcessConsensusChange =>
         \A t \in (PoolTxns(transactionSets) \cup ToSet(TxnsOf(c.reverted)))
                     \ (PoolTxns(transactionSets') \cup ToSet(TxnsOf(c.applied))) :
            \/ TooOld(Pool, dbTx', t)
            \/ ~ tryTransactionSet(Tip, Append(FlattenSeq(SetToSeq(transactionSets')), t)).ok]_vars
=============================================================================
