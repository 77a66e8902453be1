------------------------ MODULE ConsensusSetProofs ------------------------
(***************************************************************************)
(* The commit preserves the invariant, and what follows from the invariant. *)
(***************************************************************************)
EXTENDS ConsensusForkProofs

-----------------------------------------------------------------------------
(* The commit.                                                                *)

LEMMA CommitStep ==
    ASSUME IInv, Commit
    PROVE  IInv'
<1>1. /\ db' = OpenTx /\ OpenTx' = OpenTx /\ call.pc = "next"
      /\ UNCHANGED <<blockMap, path, changeLog>>
  BY DEF Commit, OpenTx, txVars
<1>2. call' \in Call /\ call'.pc # "fork" /\ (call'.pc = "notify" => call'.changes # <<>>)
  <2>1. CASE call.changes = <<>>
    BY <2>1, IdleType DEF Commit
  <2>2. CASE call.changes # <<>>
    <3>1. call' = [call EXCEPT !.pc = "notify"]
      BY <2>2 DEF Commit
    <3> QED BY <2>2, <3>1, Zenon DEF IInv, TypeOK, Call
  <2> QED BY <2>1, <2>2
<1>3. MemoryOK'
  <2>1. call.target \in Block
    BY DEF IInv, TypeOK, Call
  <2> QED BY <2>1 DEF Commit, Relayed, IInv, TypeOK, MemoryOK
<1>4. DatabaseOK(OpenTx) /\ Stored(OpenTx) /\ Heaviest(OpenTx)
  BY <1>1 DEF IInv, TypeOK, BetweenForks
<1>5. DatabaseOK(OpenTx)' /\ Stored(OpenTx)' /\ Heaviest(OpenTx)'
  BY <1>1, <1>4, Zenon
<1>6. DatabaseOK(db)' /\ Stored(db)' /\ Heaviest(db)'
  BY <1>1, <1>4, Zenon
<1>7. Extends'
  BY <1>1, OpenTxFields DEF Extends
<1>8. BetweenForks'
  BY <1>1, <1>5, OpenTxFields DEF BetweenForks
<1> QED BY <1>2, <1>3, <1>5, <1>6, <1>7, <1>8
        DEF IInv, TypeOK, TargetHeaviest, RouteLinked, TargetNew

(* Commit is the only step that changes the committed database.               *)
LEMMA OnlyCommitWrites ==
    ASSUME [Next]_vars, ~Commit
    PROVE  db' = db
<1>1. CASE \E s \in Subscriber :
              \/ SubscribeFromBeginning(s) \/ SubscribeFromSeen(s) \/ SubscribeFromRecent(s)
              \/ SubscribeStep(s) \/ CancelSubscribe(s) \/ Unsubscribe(s) \/ SaveSubscriber(s)
  BY <1>1, SubscriberStep
<1>2. CASE UNCHANGED vars
  BY <1>2 DEF vars
<1>3. CASE \E blocks \in Batches, from \in Callers : AcceptBlocks(blocks, from)
  BY <1>3 DEF AcceptBlocks
<1>4. CASE \E b \in Block : WakeFutureBlock(b) \/ BroadcastBlock(b) \/ BroadcastPanic(b)
  BY <1>4, Zenon DEF WakeFutureBlock, BroadcastBlock, BroadcastPanic, Restart
<1>5. CASE Tick \/ Restart
  BY <1>5, Zenon DEF Tick, Restart
<1>6. CASE SkipKnownBlock \/ RejectBlock \/ PostponeBlock \/ AddBlockToTree \/ UpdateSubscribers
  BY <1>6, SMTT(30) DEF SkipKnownBlock, RejectBlock, PostponeBlock, AddBlockToTree, UpdateSubscribers
<1>7. CASE \/ BacktrackToCurrentPath \/ RevertBlock \/ ApplyKnownDiffs \/ ApplyNewBlock
           \/ ApplyInvalidBlock \/ FinishFork \/ RefuseShorterFork
  BY <1>7 DEF BacktrackToCurrentPath, RevertBlock, ApplyKnownDiffs, ApplyNewBlock, ApplyInvalidBlock,
              FinishFork, RefuseShorterFork
<1> QED BY <1>1, <1>2, <1>3, <1>4, <1>5, <1>6, <1>7, Zenon DEF Next, AcceptStep

LEMMA NextInv == IInv /\ [Next]_vars => IInv'
<1> SUFFICES ASSUME IInv, [Next]_vars PROVE IInv'
  OBVIOUS
<1>1. MemoryOK
  BY DEF IInv, TypeOK
<1>2. CASE \E s \in Subscriber :
              \/ SubscribeFromBeginning(s) \/ SubscribeFromSeen(s) \/ SubscribeFromRecent(s)
              \/ SubscribeStep(s) \/ CancelSubscribe(s) \/ Unsubscribe(s) \/ SaveSubscriber(s)
  <2>1. UNCHANGED <<txVars, db, memVars, now, call>>
    BY <1>2, SubscriberStep
  <2> QED BY <1>1, <2>1, StutterStep DEF memVars, MemoryOK
<1>3. CASE UNCHANGED vars
  BY <1>1, <1>3, StutterStep DEF vars, memVars, MemoryOK
<1>4. CASE Tick
  BY <1>1, <1>4, StutterStep DEF Tick, memVars, MemoryOK
<1>5. CASE \E b \in Block : BroadcastBlock(b)
  BY <1>1, <1>5, StutterStep DEF BroadcastBlock, MemoryOK
<1>6. CASE \/ \E blocks \in Batches, from \in Callers : AcceptBlocks(blocks, from)
           \/ SkipKnownBlock
           \/ UpdateSubscribers
           \/ \E b \in Block : WakeFutureBlock(b)
  BY <1>6, CallSteps
<1>7. CASE \/ RejectBlock \/ PostponeBlock \/ ApplyInvalidBlock \/ RefuseShorterFork
           \/ Restart \/ \E b \in Block : BroadcastPanic(b)
  BY <1>7, RollbackSteps
<1>8. CASE AddBlockToTree
  BY <1>8, AddBlockStep
<1>9. CASE BacktrackToCurrentPath \/ RevertBlock
  BY <1>9, BacktrackStep, RevertStep
<1>10. CASE ApplyKnownDiffs \/ ApplyNewBlock
  BY <1>10, ApplySteps
<1>11. CASE FinishFork \/ Commit
  BY <1>11, FinishStep, CommitStep
<1> QED BY <1>2, <1>3, <1>4, <1>5, <1>6, <1>7, <1>8, <1>9, <1>10, <1>11, Zenon DEF Next, AcceptStep

THEOREM Invariance == Spec => []IInv
BY InitInv, NextInv, PTL DEF Spec

-----------------------------------------------------------------------------
(* The results.                                                               *)

(* The variables keep their types.                                            *)
THEOREM ConsensusTypeOK == Spec => []TypeOK
<1>1. IInv => TypeOK
  BY DEF IInv
<1> QED BY <1>1, Invariance, PTL

(* Whatever the order in which blocks arrive, fail, are postponed or rolled   *)
(* back, no chain in the database surpasses the one that addBlockToTree       *)
(* follows.                                                                   *)
THEOREM FollowsHeaviest == Spec => []HeaviestChain
<1>1. IInv => HeaviestChain
  BY DEF IInv, Heaviest, HeaviestChain
<1> QED BY <1>1, Invariance, PTL

(* At every step of a fork the current path leads from genesis along the      *)
(* ParentIDs through validated blocks (revertToBlock, applyUntilBlock).       *)
THEOREM PathValid == Spec => []PathIsValidChain
<1>1. IInv => PathIsValidChain
  BY OpenTxFields DEF IInv, Stored, ValidChain, PathIsValidChain
<1> QED BY <1>1, Invariance, PTL

(* managedAcceptBlocks moves the committed tip only to a block that surpasses *)
(* the old one by more than the threshold.                                    *)
THEOREM TipOnlySurpassed == Spec => TipSurpasses
<1> DEFINE A == LET old == Last(db.path)
                    new == Last(db'.path)
                IN  db'.path # db.path =>
                      5 * db'.blockMap[new].depth > 5 * db'.blockMap[old].depth + Difficulty[old]
<1>1. IInv /\ [Next]_vars => A
  <2> SUFFICES ASSUME IInv, [Next]_vars PROVE A
    BY SMTT(30)
  <2>1. CASE Commit
    <3>1. db'.path = path /\ db'.blockMap = blockMap /\ call.pc = "next"
      BY <2>1, OpenTxFields DEF Commit
    <3> QED BY <3>1, OpenTxFields DEF IInv, BetweenForks, Surpasses
  <2>2. CASE ~Commit
    BY <2>2, OnlyCommitWrites
  <2> QED BY <2>1, <2>2
<1> QED BY <1>1, Invariance, PTL DEF Spec, TipSurpasses

(* appendChangeLog never overwrites an entry of the committed change log.     *)
THEOREM LogGrows == Spec => LogOnlyGrows
<1> DEFINE A == \A e \in DOMAIN db.changeLog :
                   /\ e \in DOMAIN db'.changeLog
                   /\ db.changeLog[e] # NoEntry => db'.changeLog[e] = db.changeLog[e]
<1>1. IInv /\ [Next]_vars => A
  <2> SUFFICES ASSUME IInv, [Next]_vars PROVE A
    OBVIOUS
  <2>1. CASE Commit
    <3>1. db'.changeLog = changeLog
      BY <2>1, OpenTxFields DEF Commit
    <3> QED BY <3>1 DEF IInv, Extends
  <2>2. CASE ~Commit
    BY <2>2, OnlyCommitWrites
  <2> QED BY <2>1, <2>2
<1> QED BY <1>1, Invariance, PTL DEF Spec, LogOnlyGrows
=============================================================================
