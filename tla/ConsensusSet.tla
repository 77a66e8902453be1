---------------------------- MODULE ConsensusSet ----------------------------
(***************************************************************************)
(* The consensus set of a full node (modules/consensus): blocks are         *)
(* validated and added to the block tree, the heaviest chain is followed by *)
(* reverting and applying diffs, every change is appended to a change log   *)
(* in the database and sent to the subscribers.                             *)
(*                                                                          *)
(* managedAcceptBlocks runs under cs.mu and in one database transaction.    *)
(* Its loop iterations, reverts and applies are separate steps, so that the *)
(* process can die between any two of them; everything that takes cs.mu     *)
(* waits until call.pc is "idle".                                           *)
(***************************************************************************)
EXTENDS Ledger, Functions

CONSTANTS
    Difficulty,              \* block |-> work of a child of that block (ChildTarget)
    Batches,                 \* the block lists that are handed in
    Callers,                 \* who hands them in: "peer", "miner"
    MedianTimestampWindow,   \* number of timestamps the median is taken of
    FutureThreshold,         \* a block this far ahead of the clock must wait
    ExtremeFutureThreshold,  \* a block this far ahead is dropped
    MaxTime,                 \* bound on the clock
    Subscriber,              \* modules that subscribe to the consensus set
    BatchSize                \* changes sent under one hold of the lock

ASSUME ConsensusAssumption ==
    /\ Difficulty \in [Block -> Nat \ {0}]
    /\ Batches \subseteq Seq(Block) \ {<<>>}
    /\ Callers \subseteq {"peer", "miner"}
    /\ MedianTimestampWindow \in Nat \ {0}
    /\ FutureThreshold \in Nat
    /\ ExtremeFutureThreshold \in Nat
    /\ BatchSize \in Nat \ {0}

VARIABLES
    \* The database as the open transaction sees it.
    blockMap,        \* block |-> processedBlock
    headerMap,       \* block |-> processed header on disk
    path,            \* the current path, from genesis to the current block
    ledger,          \* see Ledger
    changeLog,       \* change entry |-> the next entry
    tail,            \* the last entry of the change log
    db,              \* the committed database
    \* Memory.
    processedBlockHeaders,  \* block |-> processed header
    dosBlocks,       \* blocks known to be invalid
    sleeping,        \* future blocks that wait in threadedSleepOnFutureBlock
    broadcast,       \* blocks about to be broadcast
    now,             \* the clock
    call,            \* the running managedAcceptBlocks
    subs             \* the subscribers

txVars  == <<blockMap, headerMap, path, ledger, changeLog, tail>>
memVars == <<processedBlockHeaders, dosBlocks, sleeping, broadcast>>
vars    == <<txVars, db, memVars, now, call, subs>>

-----------------------------------------------------------------------------
(* The block tree.                                                            *)

(* The chain from genesis to b, along the ParentIDs.                          *)
ChainTo[b \in Block] ==
    IF b = Genesis THEN <<b>> ELSE Append(ChainTo[Parent[b]], b)

\* Mutants of heavierThan: without the threshold, and with twice the threshold.
heavierThanAny(m, b, cmp)   == m[b].depth > m[cmp].depth
heavierThanTwice(m, b, cmp) == 5 * m[b].depth > 5 * m[cmp].depth + 2 * Difficulty[cmp]

(* heavierThan: the excess over the depth of cmp must be more than 20% of the *)
(* difficulty at cmp.  Depths add up difficulties.                            *)
heavierThan(m, b, cmp) ==
    5 * m[b].depth > 5 * m[cmp].depth + Difficulty[cmp]

childDepth(m, p) == m[p].depth + Difficulty[p]

(* The median of the timestamps of b and of the blocks before it; the last    *)
(* one found is repeated where the chain is shorter than the window.          *)
minimumValidChildTimestamp(b) ==
    LET c     == ChainTo[b]
        times == [i \in 0 .. MedianTimestampWindow - 1 |->
                    Body[c[IF i < Len(c) THEN Len(c) - i ELSE 1]].timestamp]
        below(v) == {i \in DOMAIN times : times[i] < v}
        upto(v)  == {i \in DOMAIN times : times[i] =< v}
        k     == MedianTimestampWindow \div 2
    IN  CHOOSE v \in Range(times) : Cardinality(below(v)) =< k /\ k < Cardinality(upto(v))

(* ValidateBlock up to the check for a near future timestamp, which is last.  *)
ValidateBlockNow(b, h) ==
    /\ minimumValidChildTimestamp(Parent[b]) =< Body[b].timestamp
    /\ Body[b].solved
    /\ Body[b].fits
    /\ Body[b].timestamp =< now + ExtremeFutureThreshold
    /\ checkMinerPayouts(b, h)

\* Mutant: off by one.
InNearFutureLate(b) == Body[b].timestamp > now + FutureThreshold + 1

InNearFuture(b) == Body[b].timestamp > now + FutureThreshold

-----------------------------------------------------------------------------
(* The change log: a linked list of entries, each keyed by its hash.          *)

Entry    == [reverted : Seq(Block), applied : Seq(Block)]
NoEntry  == [reverted |-> <<>>, applied |-> <<>>]
genesisEntry == [reverted |-> <<>>, applied |-> <<Genesis>>]

\* Mutants of appendChangeLog: the old tail is not linked; the first node is.
appendUnlinked(log, t, ce) == Put(log, ce, NoEntry)
appendToFirst(log, t, ce)  == Put(Put(log, ce, NoEntry), genesisEntry, ce)

(* The new node is put first, then the node of the old tail points to it.     *)
appendChangeLog(log, t, ce) == Put(Put(log, ce, NoEntry), t, ce)

(* The entries in the order of the list, from e on, at most n of them.        *)
EntriesFrom(log, e, n) ==
    LET walk[i \in 0 .. n] ==
          IF i = 0 THEN <<e>>
          ELSE LET w == walk[i - 1]
               IN  IF log[Last(w)] = NoEntry THEN w ELSE Append(w, log[Last(w)])
    IN  walk[n - 1]

-----------------------------------------------------------------------------
(* The database after initDB, and a fresh process on it.                      *)

GenesisHeader == [id |-> Genesis, matured |-> {}, filter |-> {}]

GenesisBlock ==
    [height |-> 0, depth |-> 0, generated |-> TRUE, diffs |-> NoDiffs]

Idle == [pc |-> "idle", from |-> "peer", blocks |-> <<>>, changes |-> <<>>,
         target |-> Genesis, route |-> <<>>, reverted |-> <<>>, applied |-> <<>>]

(* seen is the last change that the module processed and view the path those  *)
(* changes add up to; saved is what it has persisted of them.                 *)
Unsubscribed == [pc |-> "off", seen |-> NoEntry, view |-> <<>>, next |-> NoEntry,
                 saved |-> [seen |-> NoEntry, view |-> <<>>]]

(* The database as it is when the open transaction commits.                   *)
OpenTx == [blockMap |-> blockMap, headerMap |-> headerMap, path |-> path,
           ledger |-> ledger, changeLog |-> changeLog, tail |-> tail]

Init ==
    /\ blockMap  = [b \in {Genesis} |-> GenesisBlock]
    /\ headerMap = [b \in {Genesis} |-> GenesisHeader]
    /\ path      = <<Genesis>>
    /\ ledger    = GenesisLedger
    /\ changeLog = [e \in {genesisEntry} |-> NoEntry]
    /\ tail      = genesisEntry
    /\ db = OpenTx
    /\ processedBlockHeaders = headerMap
    /\ dosBlocks = {}
    /\ sleeping  = {}
    /\ broadcast = {}
    /\ now  = 0
    /\ call = Idle
    /\ subs = [s \in Subscriber |-> Unsubscribed]

-----------------------------------------------------------------------------
(* managedAcceptBlocks.                                                       *)

(* Called by synchronisation ("peer") or by AcceptBlock ("miner") for one     *)
(* block, which is relayed when it extends the chain.  A list that is not a   *)
(* chain is refused before anything happens.                                  *)
AcceptBlocks(blocks, from) ==
    /\ call.pc = "idle"
    /\ from = "miner" => Len(blocks) = 1
    /\ \A i \in 2 .. Len(blocks) : blocks[i] # Genesis /\ Parent[blocks[i]] = blocks[i - 1]
    /\ call' = [Idle EXCEPT !.pc = "next", !.from = from, !.blocks = blocks,
                            !.target = Head(blocks)]
    /\ UNCHANGED <<txVars, db, memVars, now, subs>>

(* The transaction is rolled back; the maps in memory are not.  A woken       *)
(* future block is broadcast whatever became of it.                           *)
Abort ==
    /\ blockMap'  = db.blockMap
    /\ headerMap' = db.headerMap
    /\ path'      = db.path
    /\ ledger'    = db.ledger
    /\ changeLog' = db.changeLog
    /\ tail'      = db.tail
    /\ call'      = Idle
    /\ broadcast' = IF call.from = "sleeper" THEN broadcast \cup {call.target} ELSE broadcast

SkipKnownBlock ==
    /\ call.pc = "next"
    /\ call.blocks # <<>>
    /\ Head(call.blocks) \notin dosBlocks
    /\ Head(call.blocks) \in DOMAIN blockMap
    /\ call' = [call EXCEPT !.blocks = Tail(@)]
    /\ UNCHANGED <<txVars, db, memVars, now, subs>>

(* b passes every check but the last one of validateHeaderAndBlock.           *)
ValidUnlessFuture(b) ==
    /\ b \notin dosBlocks
    /\ b \notin DOMAIN blockMap
    /\ b # Genesis
    /\ Parent[b] \in DOMAIN blockMap
    /\ ValidateBlockNow(b, blockMap[Parent[b]].height + 1)

RejectBlock ==
    /\ call.pc = "next"
    /\ call.blocks # <<>>
    /\ LET b == Head(call.blocks)
       IN  /\ b \in dosBlocks \/ b \notin DOMAIN blockMap
           /\ ~ValidUnlessFuture(b)
    /\ Abort
    /\ UNCHANGED <<db, processedBlockHeaders, dosBlocks, sleeping, now, subs>>

(* The whole batch is rolled back for a future block; only that block waits.  *)
PostponeBlock ==
    /\ call.pc = "next"
    /\ call.blocks # <<>>
    /\ LET b == Head(call.blocks)
       IN  /\ ValidUnlessFuture(b)
           /\ InNearFuture(b)
           /\ sleeping' = sleeping \cup {b}
    /\ Abort
    /\ UNCHANGED <<db, processedBlockHeaders, dosBlocks, now, subs>>

(* newChild: the filter of the header covers the contracts that the storage   *)
(* proofs of the block name, as far as the current ledger has them.           *)
newChild(b) ==
    LET proofs == UNION {{sp.id : sp \in ToSet(t.proofs)} : t \in ToSet(Body[b].txns)}
        header == [id |-> b, matured |-> {}, filter |-> proofs \cap DOMAIN ledger.fc]
        pb     == [height    |-> blockMap[Parent[b]].height + 1,
                   depth     |-> childDepth(blockMap, Parent[b]),
                   generated |-> FALSE,
                   diffs     |-> NoDiffs]
    IN  /\ blockMap'  = Put(blockMap, b, pb)
        /\ headerMap' = Put(headerMap, b, header)
        /\ processedBlockHeaders' = Put(processedBlockHeaders, b, header)

(* addBlockToTree up to the fork: a block that is not heavier than the        *)
(* current block stays in the tree, a heavier one starts a fork.              *)
AddBlockToTree ==
    /\ call.pc = "next"
    /\ call.blocks # <<>>
    /\ LET b == Head(call.blocks)
       IN  /\ ValidUnlessFuture(b)
           /\ ~InNearFuture(b)
           /\ newChild(b)
           /\ call' = IF heavierThan(blockMap', b, Last(path))
                      THEN [call EXCEPT !.pc = "fork", !.target = b, !.route = <<b>>,
                                        !.reverted = <<>>, !.applied = <<>>]
                      ELSE [call EXCEPT !.blocks = Tail(@)]
    /\ UNCHANGED <<path, ledger, changeLog, tail, db, dosBlocks, sleeping, broadcast, now, subs>>

-----------------------------------------------------------------------------
(* forkBlockchain.                                                            *)

\* Mutant: any stored block will do.
InBlockMap(b) == b \in DOMAIN blockMap

OnCurrentPath(b) ==
    LET i == blockMap[b].height + 1 IN i \in DOMAIN path /\ path[i] = b

(* backtrackToCurrentPath: the route from the current path to the target,     *)
(* built backwards until it starts with a block of the path.                  *)
BacktrackToCurrentPath ==
    /\ call.pc = "fork"
    /\ ~OnCurrentPath(Head(call.route))
    /\ call' = [call EXCEPT !.route = <<Parent[Head(@)]>> \o @]
    /\ UNCHANGED <<txVars, db, memVars, now, subs>>

(* revertToBlock: one block, while the current block is not the common one.   *)
RevertBlock ==
    /\ call.pc = "fork"
    /\ OnCurrentPath(Head(call.route))
    /\ Last(path) # Head(call.route)
    /\ LET b == Last(path)
       IN  /\ ledger' = commitDiffSet(ledger, blockMap[b].height, blockMap[b].diffs, DiffRevert)
           /\ call' = [call EXCEPT !.reverted = Append(@, b)]
    /\ path' = Front(path)
    /\ UNCHANGED <<blockMap, headerMap, changeLog, tail, db, memVars, now, subs>>

(* applyUntilBlock has reached a block of the route and goes on to the next.  *)
AtRoute == call.pc = "fork" /\ Last(path) = Head(call.route) /\ Len(call.route) > 1

\* Mutant: the target is applied at once.
TargetOfRoute == Last(call.route)

NextOnRoute == call.route[2]
Advance(b) == [call EXCEPT !.applied = Append(@, b), !.route = Tail(@)]

(* The next block, if its diffs are known.                                    *)
ApplyKnownDiffs ==
    /\ AtRoute
    /\ LET b == NextOnRoute
       IN  /\ blockMap[b].generated
           /\ ledger' = commitDiffSet(ledger, blockMap[b].height, blockMap[b].diffs, DiffApply)
           /\ path' = Append(path, b)
           /\ call' = Advance(b)
    /\ UNCHANGED <<blockMap, headerMap, changeLog, tail, db, memVars, now, subs>>

(* The outputs that mature in the block are recorded in the header.           *)
Matured(g) == {d.id : d \in ToSet(g.sc)} \cap {d.id : d \in {x \in ToSet(g.dsc) : x.dir = DiffRevert}}

(* generateAndApplyDiff of the next block.  Every block of the route is       *)
(* applied with the header of the target, which collects the matured outputs  *)
(* and is written to disk under the id of the block.                          *)
ApplyNewBlock ==
    /\ AtRoute
    /\ LET b      == NextOnRoute
           g      == generateAndApplyDiff(ledger, path, b)
           old    == processedBlockHeaders[call.target]
           header == [id |-> old.id, matured |-> old.matured \cup Matured(g), filter |-> old.filter]
       IN  /\ ~blockMap[b].generated
           /\ g.ok
           /\ ledger' = g.l
           /\ path' = Append(path, b)
           /\ blockMap' = Put(blockMap, b, [height    |-> blockMap[b].height,
                                           depth     |-> blockMap[b].depth,
                                           generated |-> TRUE,
                                           diffs     |-> [sc |-> g.sc, fc |-> g.fc, dsc |-> g.dsc]])
           /\ headerMap' = Put(headerMap, b, header)
           /\ processedBlockHeaders' = Put(processedBlockHeaders, call.target, header)
           /\ call' = Advance(b)
    /\ UNCHANGED <<changeLog, tail, db, dosBlocks, sleeping, broadcast, now, subs>>

ApplyInvalidBlock ==
    /\ AtRoute
    /\ LET b == NextOnRoute
       IN  /\ ~blockMap[b].generated
           /\ ~generateAndApplyDiff(ledger, path, b).ok
           /\ dosBlocks' = dosBlocks \cup {b}
    /\ Abort
    /\ UNCHANGED <<db, processedBlockHeaders, sleeping, now, subs>>

(* The fork is complete: the change is logged and the loop goes on.           *)
FinishFork ==
    /\ call.pc = "fork"
    /\ Last(path) = call.target
    /\ Len(call.applied) >= Len(call.reverted)
    /\ LET ce == [reverted |-> call.reverted, applied |-> call.applied]
       IN  /\ changeLog' = appendChangeLog(changeLog, tail, ce)
           /\ tail' = ce
           /\ call' = [call EXCEPT !.pc = "next", !.blocks = Tail(@),
                                   !.changes = Append(@, ce), !.route = <<>>,
                                   !.reverted = <<>>, !.applied = <<>>]
    /\ UNCHANGED <<blockMap, headerMap, path, ledger, db, memVars, now, subs>>

(* The sanity check of managedAcceptBlocks on the new change fails.           *)
RefuseShorterFork ==
    /\ call.pc = "fork"
    /\ Last(path) = call.target
    /\ Len(call.applied) < Len(call.reverted)
    /\ Abort
    /\ UNCHANGED <<db, processedBlockHeaders, dosBlocks, sleeping, now, subs>>

-----------------------------------------------------------------------------
(* The end of managedAcceptBlocks.                                            *)

Relayed == IF call.from = "peer" THEN {} ELSE {call.target}

(* The transaction commits.  Without a change to the path the caller gets     *)
(* ErrNonExtendingBlock and relays nothing, a woken block excepted.           *)
Commit ==
    /\ call.pc = "next"
    /\ call.blocks = <<>>
    /\ db' = OpenTx
    /\ IF call.changes = <<>>
       THEN /\ call' = Idle
            /\ broadcast' = IF call.from = "sleeper" THEN broadcast \cup Relayed ELSE broadcast
       ELSE /\ call' = [call EXCEPT !.pc = "notify"]
            /\ UNCHANGED broadcast
    /\ UNCHANGED <<txVars, processedBlockHeaders, dosBlocks, sleeping, now, subs>>

\* Mutant: the reverted blocks stay in the view.
ProcessAppliedOnly(sub, ce) == [sub EXCEPT !.seen = ce, !.view = @ \o ce.applied]

(* What a module makes of a consensus change.                                 *)
ProcessConsensusChange(sub, ce) ==
    [sub EXCEPT !.seen = ce,
                !.view = SubSeq(@, 1, Len(@) - Len(ce.reverted)) \o ce.applied]

ProcessAll(sub, entries) == FoldLeft(ProcessConsensusChange, sub, entries)

NotifyAll(ce) == [s \in Subscriber |-> IF subs[s].pc = "on" THEN ProcessConsensusChange(subs[s], ce)
                                                            ELSE subs[s]]

\* Mutant: the subscribers are told before the transaction commits.
UpdateBeforeCommit ==
    /\ call.pc = "next"
    /\ call.changes # <<>>
    /\ subs' = NotifyAll(Head(call.changes))
    /\ call' = [call EXCEPT !.changes = Tail(@)]
    /\ UNCHANGED <<txVars, db, memVars, now>>

(* updateSubscribers for one change, still under the lock.                    *)
UpdateSubscribers ==
    /\ call.pc = "notify"
    /\ subs' = NotifyAll(Head(call.changes))
    /\ IF Len(call.changes) = 1
       THEN call' = Idle /\ broadcast' = broadcast \cup Relayed
       ELSE call' = [call EXCEPT !.changes = Tail(@)] /\ UNCHANGED broadcast
    /\ UNCHANGED <<txVars, db, processedBlockHeaders, dosBlocks, sleeping, now>>

-----------------------------------------------------------------------------
(* Future blocks, broadcasts, the clock and restarts.                         *)

WakeFutureBlock(b) ==
    /\ call.pc = "idle"
    /\ b \in sleeping
    /\ ~InNearFuture(b)
    /\ sleeping' = sleeping \ {b}
    /\ call' = [Idle EXCEPT !.pc = "next", !.from = "sleeper", !.blocks = <<b>>, !.target = b]
    /\ UNCHANGED <<txVars, db, processedBlockHeaders, dosBlocks, broadcast, now, subs>>

(* managedBroadcastBlock, outside of the lock.  Peers of an old version get   *)
(* the block header, the others the processed header in memory.               *)
BroadcastBlock(b) ==
    /\ b \in broadcast
    /\ broadcast' = broadcast \ {b}
    /\ UNCHANGED <<txVars, db, processedBlockHeaders, dosBlocks, sleeping, now, call, subs>>

Tick ==
    /\ now < MaxTime
    /\ now' = now + 1
    /\ UNCHANGED <<txVars, db, memVars, call, subs>>

(* loadProcessedBlockHeader: the headers of all blocks that the change log    *)
(* applies, in its order, each under the id that the header has.              *)
loadProcessedBlockHeader(d) ==
    LET entries == EntriesFrom(d.changeLog, genesisEntry, Cardinality(DOMAIN d.changeLog))
        applied == FlattenSeq([i \in DOMAIN entries |-> entries[i].applied])
    IN  FoldLeft(LAMBDA m, b : Put(m, d.headerMap[b].id, d.headerMap[b]),
                 <<>>, applied)

(* The process dies at any moment and starts again on the committed database; *)
(* the modules start again from what they have saved.                         *)
Restart ==
    /\ blockMap'  = db.blockMap
    /\ headerMap' = db.headerMap
    /\ path'      = db.path
    /\ ledger'    = db.ledger
    /\ changeLog' = db.changeLog
    /\ tail'      = db.tail
    /\ processedBlockHeaders' = loadProcessedBlockHeader(db)
    /\ dosBlocks' = {}
    /\ sleeping'  = {}
    /\ broadcast' = {}
    /\ call'      = Idle
    /\ subs'      = [s \in Subscriber |->
                       [Unsubscribed EXCEPT !.seen  = subs[s].saved.seen,
                                            !.view  = subs[s].saved.view,
                                            !.saved = subs[s].saved]]
    /\ UNCHANGED <<db, now>>

(* For a block without a header in memory the broadcast dereferences nil, if  *)
(* there is a peer of the new version.                                        *)
BroadcastPanic(b) ==
    /\ b \in broadcast
    /\ b \notin DOMAIN processedBlockHeaders
    /\ Restart

-----------------------------------------------------------------------------
(* Subscriptions.  The sections under the lock alternate with calls of        *)
(* managedAcceptBlocks.                                                       *)

OnlySub(s, new) ==
    /\ call.pc = "idle"
    /\ subs' = [subs EXCEPT ![s] = new]
    /\ UNCHANGED <<txVars, db, memVars, now, call>>

(* ConsensusSetSubscribe with ConsensusChangeBeginning, with the last change  *)
(* that the module knows, or with ConsensusChangeRecent.                      *)
SubscribeFromBeginning(s) ==
    /\ subs[s].pc = "off"
    /\ OnlySub(s, [subs[s] EXCEPT !.pc = "send", !.seen = NoEntry, !.view = <<>>,
                                  !.next = genesisEntry])

SubscribeFromSeen(s) ==
    /\ subs[s].pc = "off"
    /\ subs[s].seen # NoEntry
    /\ OnlySub(s, [subs[s] EXCEPT !.pc = "lookup"])

SubscribeFromRecent(s) ==
    /\ subs[s].pc = "off"
    /\ OnlySub(s, [subs[s] EXCEPT !.pc = "check", !.seen = tail, !.view = path])

(* managedInitializeSubscribe: find the entry after the last one seen.        *)
LookupNextEntry(s) ==
    /\ subs[s].pc = "lookup"
    /\ IF subs[s].seen \notin DOMAIN changeLog
       THEN OnlySub(s, [subs[s] EXCEPT !.pc = "off"])
       ELSE LET next == changeLog[subs[s].seen]
            IN  OnlySub(s, [subs[s] EXCEPT !.pc = IF next = NoEntry THEN "check" ELSE "send",
                                          !.next = next])

(* managedInitializeSubscribe: one batch of changes under the read lock.      *)
SendBatch(s) ==
    /\ subs[s].pc = "send"
    /\ LET entries == EntriesFrom(changeLog, subs[s].next, BatchSize)
           after   == changeLog[Last(entries)]
           sent    == ProcessAll(subs[s], entries)
       IN  OnlySub(s, [sent EXCEPT !.pc = IF after = NoEntry THEN "check" ELSE "send",
                                   !.next = after])

\* Mutants of CheckRecent: changes since the last batch are not looked for, or
\* are always looked for.
CheckNothing(s) == subs[s].pc = "check" /\ OnlySub(s, [subs[s] EXCEPT !.pc = "on"])

(* The subscriber is added if it has seen the last change, else it goes on.   *)
CheckRecent(s) ==
    /\ subs[s].pc = "check"
    /\ OnlySub(s, [subs[s] EXCEPT !.pc = IF subs[s].seen = tail THEN "on" ELSE "lookup"])

(* The cancel channel is looked at before every change of a batch.            *)
CancelSubscribe(s) ==
    /\ subs[s].pc = "send"
    /\ LET entries == EntriesFrom(changeLog, subs[s].next, BatchSize)
       IN  \E n \in 0 .. Len(entries) - 1 :
             OnlySub(s, [ProcessAll(subs[s], SubSeq(entries, 1, n)) EXCEPT !.pc = "off", !.next = NoEntry])

Unsubscribe(s) ==
    /\ subs[s].pc = "on"
    /\ OnlySub(s, [subs[s] EXCEPT !.pc = "off"])

(* The module persists what it has processed, whenever it chooses to.         *)
SaveSubscriber(s) ==
    /\ subs[s].seen # NoEntry
    /\ subs' = [subs EXCEPT ![s].saved = [seen |-> subs[s].seen, view |-> subs[s].view]]
    /\ UNCHANGED <<txVars, db, memVars, now, call>>

-----------------------------------------------------------------------------
AcceptStep ==
    \/ SkipKnownBlock \/ RejectBlock \/ PostponeBlock \/ AddBlockToTree
    \/ BacktrackToCurrentPath \/ RevertBlock \/ ApplyKnownDiffs \/ ApplyNewBlock \/ ApplyInvalidBlock
    \/ FinishFork \/ RefuseShorterFork \/ Commit \/ UpdateSubscribers

SubscribeStep(s) == LookupNextEntry(s) \/ SendBatch(s) \/ CheckRecent(s)

Next ==
    \/ \E blocks \in Batches, from \in Callers : AcceptBlocks(blocks, from)
    \/ AcceptStep
    \/ \E b \in Block : WakeFutureBlock(b) \/ BroadcastBlock(b) \/ BroadcastPanic(b)
    \/ Tick
    \/ Restart
    \/ \E s \in Subscriber :
          \/ SubscribeFromBeginning(s) \/ SubscribeFromSeen(s) \/ SubscribeFromRecent(s)
          \/ SubscribeStep(s)
          \/ CancelSubscribe(s) \/ Unsubscribe(s) \/ SaveSubscriber(s)

Spec == Init /\ [][Next]_vars

-----------------------------------------------------------------------------
(* Properties.                                                                *)

DatabaseOK(d) ==
    /\ DOMAIN d.blockMap \subseteq Block
    /\ \A b \in DOMAIN d.blockMap :
          /\ d.blockMap[b].height \in Nat
          /\ d.blockMap[b].depth \in Nat
          /\ d.blockMap[b].generated \in BOOLEAN
    /\ DOMAIN d.headerMap \subseteq Block
    /\ d.path \in Seq(Block) \ {<<>>}
    /\ DOMAIN d.changeLog \subseteq Entry
    /\ d.tail \in DOMAIN d.changeLog

MemoryOK ==
    /\ dosBlocks \subseteq Block
    /\ sleeping \subseteq Block
    /\ broadcast \subseteq Block
    /\ now \in Nat

Call == [pc : {"idle", "next", "fork", "notify"}, from : {"peer", "miner", "sleeper"},
         blocks : Seq(Block), changes : Seq(Entry), target : Block, route : Seq(Block),
         reverted : Seq(Block), applied : Seq(Block)]

(* The types of the variables; the ledger is described by the properties      *)
(* below.                                                                     *)
TypeOK == DatabaseOK(db) /\ DatabaseOK(OpenTx) /\ MemoryOK /\ call \in Call

(* No block of the committed tree outweighs the committed tip by more than    *)
(* the surpass threshold: whatever the order in which blocks arrive, fail or  *)
(* are rolled back, addBlockToTree never leaves a heavier chain unfollowed.   *)
HeaviestChain ==
    LET tip == Last(db.path)
    IN  \A b \in DOMAIN db.blockMap :
            5 * db.blockMap[b].depth =< 5 * db.blockMap[tip].depth + Difficulty[tip]

(* The committed tip changes only to a block that surpasses it by more than   *)
(* the threshold, also when a batch moves it several times in one commit.     *)
TipSurpasses ==
    [][LET old == Last(db.path)
           new == Last(db'.path)
       IN  db'.path # db.path =>
             5 * db'.blockMap[new].depth > 5 * db'.blockMap[old].depth + Difficulty[old]]_vars

(* The path leads from genesis along the ParentIDs, and every block on it     *)
(* has been validated, at every step of a fork (backtrackToCurrentPath,       *)
(* pushPath, popPath).                                                        *)
PathIsValidChain ==
    /\ path[1] = Genesis
    /\ \A i \in DOMAIN path :
          /\ path[i] \in DOMAIN blockMap
          /\ blockMap[path[i]].generated
          /\ blockMap[path[i]].height = i - 1
          /\ i > 1 => path[i] # Genesis /\ Parent[path[i]] = path[i - 1]

(* The ledger that the blocks of p produce when they are validated and        *)
(* applied one after the other on a new database.                             *)
Replay(p) ==
    FoldLeft(LAMBDA a, i : LET g == generateAndApplyDiff(a.l, SubSeq(p, 1, i - 1), p[i])
                           IN  [l |-> g.l, ok |-> a.ok /\ g.ok],
             [l |-> GenesisLedger, ok |-> TRUE], [i \in 1 .. Len(p) - 1 |-> i + 1])

(* An expiration bucket that has become empty does not matter.                *)
NonEmptyBuckets(f) == Restrict(f, {h \in DOMAIN f : f[h] # {}})

(* After every revert and apply the ledger is the one of a node that only     *)
(* ever saw the blocks of the path: consistency.go wants all consensus sets   *)
(* with the same current block to have identical checksums.                   *)
LedgerIsReplay ==
    LET r == Replay(path)
    IN  /\ r.ok
        /\ [ledger EXCEPT !.fcex = NonEmptyBuckets(@)] = [r.l EXCEPT !.fcex = NonEmptyBuckets(@)]

SumOver(f) == FoldFunction(LAMBDA v, a : v + a, 0, f)

(* The coins in outputs, delayed outputs and contracts are the number that    *)
(* the reward schedule yields for the height (checkSiacoinCount).             *)
CoinsConserved ==
    SumOver(ledger.sco)
      + SumOver([h \in DOMAIN ledger.dsco |-> SumOver(ledger.dsco[h])])
      + SumOver([id \in DOMAIN ledger.fc |-> ledger.fc[id].valid])
    = CalculateNumSiacoins(blockHeight(path))

(* There is a bucket of delayed outputs for exactly the heights that are to   *)
(* come (checkDSCOs), and no output is both delayed and spendable.            *)
DelayedOutputBuckets ==
    LET h == blockHeight(path)
    IN  /\ DOMAIN ledger.dsco = {i \in h + 1 .. h + MaturityDelay : i >= MaturityDelay}
        /\ \A i \in DOMAIN ledger.dsco : DOMAIN ledger.dsco[i] \cap DOMAIN ledger.sco = {}
        /\ \A i, j \in DOMAIN ledger.dsco :
              i # j => DOMAIN ledger.dsco[i] \cap DOMAIN ledger.dsco[j] = {}

(* Every open contract is filed under its window end, which is still to come, *)
(* and nothing else is filed: no contract outlives its end and none is paid   *)
(* out twice (applyFileContractMaintenance).                                  *)
ContractsExpire ==
    /\ \A id \in DOMAIN ledger.fc :
          /\ ledger.fc[id].end > blockHeight(path)
          /\ id \in ledger.fcex[ledger.fc[id].end]
    /\ \A h \in DOMAIN ledger.fcex : \A id \in ledger.fcex[h] :
          id \in DOMAIN ledger.fc /\ ledger.fc[id].end = h

(* A block enters the tree only when its timestamp is not before the median   *)
(* of its ancestors and not ahead of the clock, also when it was handed in    *)
(* too early and waited in threadedSleepOnFutureBlock.                        *)
StoredBlocksTimely ==
    \A b \in DOMAIN blockMap \ {Genesis} :
        /\ minimumValidChildTimestamp(Parent[b]) =< Body[b].timestamp
        /\ Body[b].timestamp =< now + FutureThreshold

(* The committed change log only grows: an entry that has a successor keeps   *)
(* it, and no entry is dropped or appended twice (appendChangeLog overwrites  *)
(* the node of an entry whose id is already in the log).                      *)
LogOnlyGrows ==
    [][\A e \in DOMAIN db.changeLog :
          /\ e \in DOMAIN db'.changeLog
          /\ db.changeLog[e] # NoEntry => db'.changeLog[e] = db.changeLog[e]]_vars

(* The list that starts at the genesis entry visits every committed entry     *)
(* once, ends at the tail, and adds up to the committed path: a module that   *)
(* subscribes from the beginning gets the current state (NextEntry).          *)
LogAddsUpToPath ==
    LET log == db.changeLog
        es  == EntriesFrom(log, genesisEntry, Cardinality(DOMAIN log) + 1)
    IN  /\ Len(es) = Cardinality(DOMAIN log)
        /\ Last(es) = db.tail
        /\ ProcessAll(Unsubscribed, es).view = db.path

(* Whenever the lock is free, a registered subscriber has processed every     *)
(* change up to the tail and its view is the current path, whatever happened  *)
(* while it was catching up (ConsensusSetSubscribe, updateSubscribers).       *)
SubscribersFollow ==
    call.pc = "idle" =>
        \A s \in Subscriber : subs[s].pc = "on" =>
            subs[s].seen = db.tail /\ subs[s].view = db.path

(* What a module sees, also while it catches up and after restarts, is always *)
(* one chain from genesis: a change never reverts blocks that the module does *)
(* not have at its tip, and never applies one on the wrong parent.            *)
ViewsAreChains ==
    \A s \in Subscriber :
        subs[s].view # <<>> => subs[s].view = ChainTo[Last(subs[s].view)]

(* A module never persists a change that the consensus database could lose in *)
(* a crash, so subscribing with a saved change never fails with               *)
(* ErrInvalidConsensusChangeID.                                               *)
SavedChangeKnown ==
    \A s \in Subscriber :
        subs[s].saved.seen # NoEntry => subs[s].saved.seen \in DOMAIN db.changeLog

(* A subscription that nobody cancels completes, although new blocks keep     *)
(* arriving between its batches.  The steps under cs.mu are fair: a started   *)
(* call runs to its end, and the lock of the Go runtime starves nobody.       *)
FairSpec == Spec /\ WF_vars(AcceptStep) /\ \A s \in Subscriber : SF_vars(SubscribeStep(s))


-----------------------------------------------------------------------------
(* Statements of comments in the source that the code does not keep.          *)

(* BlockHeaderMap is "a database bucket containing all of the processed block *)
(* headers, keyed by their id" (consensusdb.go).                              *)
HeadersKeyedByID == \A b \in DOMAIN db.headerMap : db.headerMap[b].id = b


(* getRelatedFileContracts "finds contracts related to the storage proofs in  *)
(* a block" (consensusdb.go) for the filter of its header.                    *)
FilterCoversProofs ==
    \A b \in ToSet(db.path) \cap DOMAIN processedBlockHeaders : \A t \in ToSet(Body[b].txns) :
        \A sp \in ToSet(t.proofs) : sp.id \in processedBlockHeaders[b].filter

(* managedBroadcastBlock handles a block without a header in memory with a    *)
(* log line (accept.go), after it has used the header.                        *)
BroadcastHasHeader == broadcast \subseteq DOMAIN processedBlockHeaders

(* "Sanity check - we should never apply fewer blocks than we revert"         *)
(* (accept.go).                                                               *)
NeverApplyFewer ==
    call.pc = "fork" /\ Last(path) = call.target =>
        Len(call.applied) >= Len(call.reverted)

(* "Check that the height is less than fc.WindowStart - revisions are not     *)
(* allowed to be submitted once the storage proof window has opened"          *)
(* (validtransaction.go).  A revision shows in the diffs of its block as the  *)
(* removal of a contract that the block adds again.                           *)
RevisionsPrecedeWindow ==
    \A b \in DOMAIN blockMap :
        LET d == blockMap[b].diffs.fc
        IN  \A i, j \in DOMAIN d :
              i < j /\ d[i].id = d[j].id /\ d[i].dir = DiffRevert /\ d[j].dir = DiffApply
                => blockMap[b].height - 1 < d[i].val.start
=============================================================================
