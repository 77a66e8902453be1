------------------------ MODULE ConsensusInvariant ------------------------
(***************************************************************************)
(* The inductive invariant of ConsensusSet, that it holds initially, and that*)
(* the steps outside of forks preserve it, for every block tree, every      *)
(* difficulty, every list of blocks handed in and every set of subscribers. *)
(***************************************************************************)
EXTENDS ConsensusSet, SequenceTheorems, TLAPS

-----------------------------------------------------------------------------
(* The inductive invariant.                                                   *)

(* Every stored block but genesis has its parent stored, one height below.    *)
Tree(d) ==
    /\ Genesis \in DOMAIN d.blockMap
    /\ d.blockMap[Genesis].height = 0
    /\ \A b \in DOMAIN d.blockMap \ {Genesis} :
          /\ Parent[b] \in DOMAIN d.blockMap
          /\ d.blockMap[b].height = d.blockMap[Parent[b]].height + 1

(* PathIsValidChain for a database.                                           *)
ValidChain(d) ==
    /\ d.path[1] = Genesis
    /\ \A i \in DOMAIN d.path :
          /\ d.path[i] \in DOMAIN d.blockMap
          /\ d.blockMap[d.path[i]].generated
          /\ d.blockMap[d.path[i]].height = i - 1
          /\ i > 1 => d.path[i] # Genesis /\ Parent[d.path[i]] = d.path[i - 1]

(* The tail has no successor, and every entry applies a stored block last.    *)
LogStored(d) ==
    /\ d.changeLog[d.tail] = NoEntry
    /\ \A e \in DOMAIN d.changeLog :
          e.applied # <<>> /\ Last(e.applied) \in DOMAIN d.blockMap

Stored(d) == Tree(d) /\ ValidChain(d) /\ LogStored(d)

(* HeaviestChain for a database.                                              *)
Heaviest(d) ==
    \A b \in DOMAIN d.blockMap :
        5 * d.blockMap[b].depth =< 5 * d.blockMap[Last(d.path)].depth + Difficulty[Last(d.path)]

Surpasses(d, b, c) == 5 * d.blockMap[b].depth > 5 * d.blockMap[c].depth + Difficulty[c]

(* The open transaction has lost nothing of the committed database.           *)
Extends ==
    /\ DOMAIN db.blockMap \subseteq DOMAIN blockMap
    /\ \A e \in DOMAIN db.changeLog :
          /\ e \in DOMAIN changeLog
          /\ db.changeLog[e] # NoEntry => changeLog[e] = db.changeLog[e]

(* Between forks the open transaction follows its heaviest chain, and its tip *)
(* is the committed one or surpasses it.                                      *)
BetweenForks ==
    call.pc # "fork" =>
        /\ Heaviest(OpenTx)
        /\ path = db.path \/ Surpasses(OpenTx, Last(path), Last(db.path))

(* During a fork the target is the deepest block and surpasses the committed  *)
(* tip.                                                                       *)
TargetHeaviest ==
    call.pc = "fork" =>
        /\ call.target \in DOMAIN blockMap
        /\ \A b \in DOMAIN blockMap : blockMap[b].depth =< blockMap[call.target].depth
        /\ Surpasses(OpenTx, call.target, Last(db.path))

(* The route is a chain of stored blocks that ends at the target.             *)
RouteLinked ==
    call.pc = "fork" =>
        /\ call.blocks # <<>>
        /\ call.route # <<>>
        /\ Last(call.route) = call.target
        /\ \A i \in DOMAIN call.route :
              /\ call.route[i] \in DOMAIN blockMap
              /\ i > 1 => call.route[i] # Genesis /\ Parent[call.route[i]] = call.route[i - 1]

(* The target is new: no logged change applied it last, and it is on the path *)
(* only once this fork has applied it.  Nothing is reverted any more once a   *)
(* block has been applied.                                                    *)
TargetNew ==
    call.pc = "fork" =>
        /\ \A e \in DOMAIN changeLog : Last(e.applied) # call.target
        /\ IF call.applied = <<>> THEN \A i \in DOMAIN path : path[i] # call.target
                                  ELSE /\ Last(call.applied) = Last(path)
                                       /\ Last(path) = Head(call.route)

IInv ==
    /\ TypeOK
    /\ Stored(db)
    /\ Heaviest(db)
    /\ Stored(OpenTx)
    /\ Extends
    /\ BetweenForks
    /\ TargetHeaviest
    /\ RouteLinked
    /\ TargetNew
    /\ call.pc = "notify" => call.changes # <<>>

-----------------------------------------------------------------------------
(* Facts about the operators.                                                 *)

(* Adding one pair to a function.                                             *)
LEMMA PutOne ==
    ASSUME NEW f, NEW x, NEW v
    PROVE  /\ DOMAIN Put(f, x, v) = DOMAIN f \cup {x}
           /\ Put(f, x, v)[x] = v
           /\ \A y \in DOMAIN f \ {x} : Put(f, x, v)[y] = f[y]
BY DEF Put

(* The last element of a nonempty sequence.                                   *)
LEMMA LastIn ==
    ASSUME NEW S, NEW s \in Seq(S), s # <<>>
    PROVE  /\ Len(s) \in DOMAIN s
           /\ Len(s) \in Nat \ {0}
           /\ Last(s) = s[Len(s)]
           /\ Last(s) \in S
BY DEF Last

LEMMA AppendLast ==
    ASSUME NEW S, NEW s \in Seq(S), NEW x \in S
    PROVE  /\ Append(s, x) \in Seq(S) \ {<<>>}
           /\ Last(Append(s, x)) = x
           /\ DOMAIN Append(s, x) = 1 .. Len(s) + 1
           /\ \A i \in DOMAIN s : Append(s, x)[i] = s[i]
           /\ Append(s, x)[Len(s) + 1] = x
BY DEF Last

LEMMA FrontOf ==
    ASSUME NEW S, NEW s \in Seq(S), Len(s) > 1
    PROVE  /\ Front(s) \in Seq(S) \ {<<>>}
           /\ Len(Front(s)) = Len(s) - 1
           /\ DOMAIN Front(s) = 1 .. Len(s) - 1
           /\ \A i \in DOMAIN Front(s) : Front(s)[i] = s[i]
<1> DEFINE n == Len(s) - 1
<1>1. n \in Nat \ {0} /\ \A i \in 1 .. n : s[i] \in S
  OBVIOUS
<1>2. /\ SubSeq(s, 1, n) \in Seq(S)
      /\ Len(SubSeq(s, 1, n)) = n
      /\ \A i \in 1 .. n : SubSeq(s, 1, n)[i] = s[i]
  <2>1. /\ SubSeq(s, 1, n) \in Seq(S)
        /\ Len(SubSeq(s, 1, n)) = IF 1 =< n THEN n - 1 + 1 ELSE 0
        /\ \A i \in 1 .. n - 1 + 1 : SubSeq(s, 1, n)[i] = s[1 + i - 1]
    <3> HIDE DEF n
    <3> QED BY <1>1, SubSeqProperties
  <2> HIDE DEF n
  <2> QED BY <1>1, <2>1
<1>3. Front(s) = SubSeq(s, 1, n)
  BY DEF Front
<1> HIDE DEF n
<1>4. /\ Front(s) \in Seq(S) \ {<<>>}
      /\ Len(Front(s)) = n
      /\ DOMAIN Front(s) = 1 .. n
      /\ \A i \in DOMAIN Front(s) : Front(s)[i] = s[i]
  BY <1>1, <1>2, <1>3
<1> QED BY <1>4 DEF n

LEMMA TailOf ==
    ASSUME NEW S, NEW s \in Seq(S), s # <<>>
    PROVE  /\ Tail(s) \in Seq(S)
           /\ Len(Tail(s)) = Len(s) - 1
           /\ \A i \in 1 .. Len(s) - 1 : Tail(s)[i] = s[i + 1]
OBVIOUS

(* Putting a block in front of the route.                                     *)
LEMMA ConsOf ==
    ASSUME NEW S, NEW s \in Seq(S), NEW x \in S
    PROVE  /\ <<x>> \o s \in Seq(S) \ {<<>>}
           /\ Len(<<x>> \o s) = Len(s) + 1
           /\ (<<x>> \o s)[1] = x
           /\ \A i \in 2 .. Len(s) + 1 : (<<x>> \o s)[i] = s[i - 1]
OBVIOUS

LEMMA OpenTxFields ==
    /\ OpenTx.blockMap = blockMap
    /\ OpenTx.headerMap = headerMap
    /\ OpenTx.path = path
    /\ OpenTx.changeLog = changeLog
    /\ OpenTx.tail = tail
BY DEF OpenTx

LEMMA IdleType == Idle \in Call /\ Idle.pc = "idle"
BY LedgerAssumption DEF Idle, Call

LEMMA GenesisEntryType == genesisEntry \in Entry /\ NoEntry \in Entry
BY LedgerAssumption DEF genesisEntry, NoEntry, Entry

-----------------------------------------------------------------------------
(* The initial state.                                                         *)

LEMMA InitInv == Init => IInv
<1> SUFFICES ASSUME Init PROVE IInv
  OBVIOUS
<1>1. /\ OpenTx.blockMap = blockMap /\ OpenTx.headerMap = headerMap /\ OpenTx.path = path
      /\ OpenTx.changeLog = changeLog /\ OpenTx.tail = tail /\ db = OpenTx
  BY OpenTxFields DEF Init
<1>2. /\ DOMAIN blockMap = {Genesis} /\ blockMap[Genesis] = GenesisBlock
      /\ DOMAIN headerMap = {Genesis} /\ path = <<Genesis>>
      /\ DOMAIN changeLog = {genesisEntry} /\ changeLog[genesisEntry] = NoEntry
      /\ tail = genesisEntry
  BY DEF Init
<1>3. Last(path) = Genesis /\ path \in Seq(Block) \ {<<>>} /\ DOMAIN path = {1} /\ path[1] = Genesis
  BY <1>2, LedgerAssumption DEF Last
<1>4. genesisEntry.applied = <<Genesis>> /\ Last(genesisEntry.applied) = Genesis
  BY DEF genesisEntry, Last
<1>5. DatabaseOK(db)
  <2>1. GenesisBlock.height \in Nat /\ GenesisBlock.depth \in Nat
    BY SMTT(30) DEF GenesisBlock
  <2>2. GenesisBlock.generated \in BOOLEAN
    BY DEF GenesisBlock
  <2> QED BY <1>1, <1>2, <1>3, <2>1, <2>2, LedgerAssumption, GenesisEntryType, Zenon DEF DatabaseOK
<1>6. TypeOK
  BY <1>1, <1>5, IdleType, SMTT(30) DEF TypeOK, MemoryOK, Init
<1>7. Stored(db)
  BY <1>1, <1>2, <1>3, <1>4 DEF Stored, Tree, ValidChain, LogStored, GenesisBlock
<1>8. Heaviest(db)
  BY <1>1, <1>2, <1>3, LedgerAssumption, ConsensusAssumption DEF Heaviest, GenesisBlock
<1>9. call.pc = "idle"
  BY IdleType DEF Init
<1>10. Extends /\ BetweenForks /\ TargetHeaviest /\ RouteLinked /\ TargetNew
  BY <1>1, <1>8, <1>9 DEF Extends, BetweenForks, TargetHeaviest, RouteLinked, TargetNew
<1> QED BY <1>1, <1>6, <1>7, <1>8, <1>9, <1>10 DEF IInv

-----------------------------------------------------------------------------
(* Steps that leave the database alone.                                       *)

(* What the invariant says of a database depends on these fields alone.       *)
LEMMA SameFields ==
    ASSUME NEW d, NEW e, d.blockMap = e.blockMap, d.headerMap = e.headerMap, d.path = e.path,
           d.changeLog = e.changeLog, d.tail = e.tail
    PROVE  /\ DatabaseOK(d) => DatabaseOK(e)
           /\ Stored(d) => Stored(e)
           /\ Heaviest(d) => Heaviest(e)
<1>1. DatabaseOK(d) => DatabaseOK(e)
  BY SMTT(30) DEF DatabaseOK
<1>2. Tree(d) => Tree(e)
  BY DEF Tree
<1>3. ValidChain(d) => ValidChain(e)
  BY DEF ValidChain
<1>4. LogStored(d) => LogStored(e)
  BY DEF LogStored
<1>5. Heaviest(d) => Heaviest(e)
  BY DEF Heaviest
<1> QED BY <1>1, <1>2, <1>3, <1>4, <1>5 DEF Stored

(* What the invariant says of the two databases alone.                        *)
LEMMA SameDatabase ==
    ASSUME IInv, OpenTx' = OpenTx, db' = db
    PROVE  DatabaseOK(db)' /\ DatabaseOK(OpenTx)' /\ Stored(db)' /\ Stored(OpenTx)' /\ Heaviest(db)'
<1>1. DatabaseOK(db) /\ DatabaseOK(OpenTx) /\ Stored(db) /\ Stored(OpenTx) /\ Heaviest(db)
  BY DEF IInv, TypeOK
<1> QED BY <1>1, Zenon

(* What it says of the committed database alone.                              *)
LEMMA SameCommitted ==
    ASSUME IInv, db' = db
    PROVE  DatabaseOK(db)' /\ Stored(db)' /\ Heaviest(db)'
<1>1. DatabaseOK(db) /\ Stored(db) /\ Heaviest(db)
  BY DEF IInv, TypeOK
<1> QED BY <1>1, Zenon

(* Outside of managedAcceptBlocks, or between two blocks of a list.           *)
LEMMA QuietStep ==
    ASSUME IInv, UNCHANGED <<txVars, db>>, MemoryOK', call' \in Call, call.pc # "fork", call'.pc # "fork",
           call'.pc = "notify" => call'.changes # <<>>
    PROVE  IInv'
<1>1. OpenTx' = OpenTx /\ db' = db
  BY SMTT(30) DEF OpenTx, txVars
<1>2. UNCHANGED <<blockMap, path, changeLog>>
  BY DEF txVars
<1>3. DatabaseOK(db)' /\ DatabaseOK(OpenTx)' /\ Stored(db)' /\ Stored(OpenTx)' /\ Heaviest(db)'
  BY <1>1, SameDatabase
<1>4. TypeOK'
  BY <1>3 DEF TypeOK
<1>5. Extends'
  BY <1>1, <1>2, SMTT(30) DEF IInv, Extends
<1>6. BetweenForks'
  BY <1>1, <1>2 DEF IInv, BetweenForks, Heaviest, Surpasses
<1> QED BY <1>3, <1>4, <1>5, <1>6 DEF IInv, TargetHeaviest, RouteLinked, TargetNew

(* A step that changes neither the database nor the call.                     *)
LEMMA StutterStep ==
    ASSUME IInv, UNCHANGED <<txVars, db, call>>, MemoryOK'
    PROVE  IInv'
<1>1. OpenTx' = OpenTx /\ db' = db /\ call' = call
  BY DEF OpenTx, txVars
<1>2. UNCHANGED <<blockMap, path, changeLog>>
  BY DEF txVars
<1>3. DatabaseOK(db)' /\ DatabaseOK(OpenTx)' /\ Stored(db)' /\ Stored(OpenTx)' /\ Heaviest(db)'
  BY <1>1, SameDatabase
<1>4. TypeOK'
  <2>1. call' \in Call
    BY <1>1, SMTT(30) DEF IInv, TypeOK, Call
  <2> QED BY <1>3, <2>1 DEF IInv, TypeOK
<1>5. Extends' /\ RouteLinked' /\ TargetNew'
  BY <1>1, <1>2, SMTT(30) DEF IInv, Extends, RouteLinked, TargetNew
<1>6. BetweenForks' /\ TargetHeaviest'
  BY <1>1, <1>2, SMTT(30) DEF IInv, BetweenForks, TargetHeaviest, Heaviest, Surpasses
<1> QED BY <1>1, <1>3, <1>4, <1>5, <1>6 DEF IInv

(* The transaction is rolled back.                                            *)
RolledBack ==
    /\ blockMap' = db.blockMap /\ headerMap' = db.headerMap /\ path' = db.path
    /\ changeLog' = db.changeLog /\ tail' = db.tail
    /\ call' = Idle
    /\ db' = db

LEMMA RollbackStep ==
    ASSUME IInv, RolledBack, MemoryOK'
    PROVE  IInv'
<1>1. /\ OpenTx'.blockMap = db.blockMap /\ OpenTx'.headerMap = db.headerMap
      /\ OpenTx'.path = db.path /\ OpenTx'.changeLog = db.changeLog /\ OpenTx'.tail = db.tail
      /\ db' = db
  BY SMTT(30) DEF RolledBack, OpenTx
<1>2. call' \in Call /\ call'.pc = "idle"
  BY IdleType, SMTT(30) DEF RolledBack
<1>3. DatabaseOK(db) /\ Stored(db) /\ Heaviest(db)
  BY DEF IInv, TypeOK
<1>4. DatabaseOK(db)' /\ Stored(db)' /\ Heaviest(db)'
  BY <1>1, SameCommitted
<1>5. DatabaseOK(OpenTx)' /\ Stored(OpenTx)' /\ Heaviest(OpenTx)'
  BY <1>1, <1>3, SameFields, Zenon
<1>6. Extends'
  BY SMTT(30) DEF RolledBack, Extends
<1>7. BetweenForks'
  BY <1>5 DEF RolledBack, BetweenForks
<1> QED BY <1>2, <1>3, <1>4, <1>5, <1>6, <1>7
        DEF IInv, TypeOK, TargetHeaviest, RouteLinked, TargetNew

(* AcceptBlocks, SkipKnownBlock, UpdateSubscribers and WakeFutureBlock start, *)
(* continue or end a call without touching the database.                      *)
LEMMA CallSteps ==
    ASSUME IInv,
           \/ \E blocks \in Batches, from \in Callers : AcceptBlocks(blocks, from)
           \/ SkipKnownBlock
           \/ UpdateSubscribers
           \/ \E b \in Block : WakeFutureBlock(b)
    PROVE  IInv'
<1>1. MemoryOK /\ call \in Call
  BY SMTT(30) DEF IInv, TypeOK
<1>2. CASE \E blocks \in Batches, from \in Callers : AcceptBlocks(blocks, from)
  <2> PICK blocks \in Batches, from \in Callers : AcceptBlocks(blocks, from)
    BY <1>2
  <2>1. blocks \in Seq(Block) /\ Head(blocks) \in Block /\ from \in {"peer", "miner"}
    BY ConsensusAssumption
  <2>2. call' \in Call /\ call.pc = "idle" /\ call'.pc = "next"
    BY <2>1, IdleType, Zenon DEF AcceptBlocks, Call
  <2>3. MemoryOK' /\ UNCHANGED <<txVars, db>>
    BY <1>1, Zenon DEF AcceptBlocks, MemoryOK, memVars
  <2> QED BY <2>2, <2>3, QuietStep
<1>3. CASE SkipKnownBlock
  <2>1. call' \in Call /\ call.pc = "next" /\ call'.pc = "next"
    <3>1. call.blocks \in Seq(Block) /\ call.blocks # <<>>
      BY <1>1, <1>3 DEF Call, SkipKnownBlock
    <3>2. Tail(call.blocks) \in Seq(Block)
      BY <3>1
    <3> QED BY <1>1, <1>3, <3>2, Zenon DEF Call, SkipKnownBlock
  <2>2. MemoryOK' /\ UNCHANGED <<txVars, db>>
    BY <1>1, <1>3 DEF SkipKnownBlock, MemoryOK, memVars
  <2> QED BY <2>1, <2>2, QuietStep
<1>4. CASE UpdateSubscribers
  <2>1. call.changes \in Seq(Entry) /\ call.changes # <<>> /\ call.pc = "notify" /\ call.target \in Block
    BY <1>1, <1>4 DEF UpdateSubscribers, IInv, Call
  <2>2. call' \in Call /\ call'.pc # "fork" /\ (call'.pc = "notify" => call'.changes # <<>>)
    <3>1. CASE Len(call.changes) = 1
      BY <1>4, <3>1, IdleType DEF UpdateSubscribers
    <3>2. CASE Len(call.changes) # 1
      <4>1. Tail(call.changes) \in Seq(Entry) /\ Tail(call.changes) # <<>>
        <5>1. Len(call.changes) \in Nat \ {0, 1}
          BY <2>1, <3>2
        <5>2. Tail(call.changes) \in Seq(Entry) /\ Len(Tail(call.changes)) # 0
          BY <2>1, <5>1, TailOf
        <5>3. Len(<<>>) = 0
          BY SMTT(30)
        <5> QED BY <5>2, <5>3, Zenon
      <4> QED BY <1>1, <1>4, <2>1, <3>2, <4>1, Zenon DEF UpdateSubscribers, Call
    <3> QED BY <3>1, <3>2
  <2>3. MemoryOK'
    BY <1>1, <1>4, <2>1 DEF UpdateSubscribers, MemoryOK, Relayed
  <2>4. UNCHANGED <<txVars, db>>
    BY <1>4 DEF UpdateSubscribers
  <2> QED BY <2>1, <2>2, <2>3, <2>4, QuietStep
<1>5. CASE \E b \in Block : WakeFutureBlock(b)
  <2> PICK b \in Block : WakeFutureBlock(b)
    BY <1>5
  <2>1. call' \in Call /\ call.pc = "idle" /\ call'.pc = "next"
    <3> DEFINE bs == <<b>>
    <3>1. bs \in Seq(Block)
      BY SMTT(30)
    <3>2. /\ call.pc = "idle"
          /\ call' = [Idle EXCEPT !.pc = "next", !.from = "sleeper", !.blocks = bs, !.target = b]
      BY Zenon DEF WakeFutureBlock
    <3> HIDE DEF bs
    <3> QED BY <3>1, <3>2, IdleType, Zenon DEF Call
  <2>2. MemoryOK' /\ UNCHANGED <<txVars, db>>
    BY <1>1, Zenon DEF WakeFutureBlock, MemoryOK
  <2> QED BY <2>1, <2>2, QuietStep
<1> QED BY <1>2, <1>3, <1>4, <1>5

(* Every step of a subscriber leaves all but the subscribers alone.           *)
LEMMA SubscriberStep ==
    ASSUME NEW s \in Subscriber,
           \/ SubscribeFromBeginning(s) \/ SubscribeFromSeen(s) \/ SubscribeFromRecent(s)
           \/ SubscribeStep(s)
           \/ CancelSubscribe(s) \/ Unsubscribe(s) \/ SaveSubscriber(s)
    PROVE  UNCHANGED <<txVars, db, memVars, now, call>>
BY Zenon DEF SubscribeFromBeginning, SubscribeFromSeen, SubscribeFromRecent, SubscribeStep,
       LookupNextEntry, SendBatch, CheckRecent, CancelSubscribe, Unsubscribe, SaveSubscriber, OnlySub

(* The steps that end a call or the process without a commit.                 *)
LEMMA RollbackSteps ==
    ASSUME IInv,
           \/ RejectBlock \/ PostponeBlock \/ ApplyInvalidBlock \/ RefuseShorterFork
           \/ Restart \/ \E b \in Block : BroadcastPanic(b)
    PROVE  IInv'
<1>1. MemoryOK /\ call \in Call
  BY SMTT(30) DEF IInv, TypeOK
<1>2. call.target \in Block
  BY <1>1, SMTT(30) DEF Call
<1>3. CASE RejectBlock
  BY <1>1, <1>2, <1>3, RollbackStep DEF RejectBlock, Abort, RolledBack, MemoryOK
<1>4. CASE PostponeBlock
  <2>1. Head(call.blocks) \in Block
    BY <1>1, <1>4, SMTT(30) DEF PostponeBlock, Call
  <2> QED BY <1>1, <1>2, <1>4, <2>1, RollbackStep DEF PostponeBlock, Abort, RolledBack, MemoryOK
<1>5. CASE ApplyInvalidBlock
  <2>1. NextOnRoute \in Block
    BY <1>1, <1>5, SMTT(30) DEF ApplyInvalidBlock, AtRoute, NextOnRoute, Call
  <2> QED BY <1>1, <1>2, <1>5, <2>1, RollbackStep DEF ApplyInvalidBlock, Abort, RolledBack, MemoryOK
<1>6. CASE RefuseShorterFork
  BY <1>1, <1>2, <1>6, RollbackStep DEF RefuseShorterFork, Abort, RolledBack, MemoryOK
<1>7. CASE Restart
  BY <1>1, <1>7, RollbackStep, Zenon DEF Restart, RolledBack, MemoryOK
<1>8. CASE \E b \in Block : BroadcastPanic(b)
  BY <1>1, <1>8, RollbackStep, Zenon DEF BroadcastPanic, Restart, RolledBack, MemoryOK
<1> QED BY <1>3, <1>4, <1>5, <1>6, <1>7, <1>8

-----------------------------------------------------------------------------
(* A new block enters the tree.                                               *)

LEMMA AddBlockStep ==
    ASSUME IInv, AddBlockToTree
    PROVE  IInv'
<1> DEFINE b == Head(call.blocks)
           p == Parent[b]
<1>1. /\ DatabaseOK(db) /\ DatabaseOK(OpenTx) /\ MemoryOK /\ call \in Call
      /\ Stored(db) /\ Stored(OpenTx) /\ Heaviest(db) /\ Extends /\ BetweenForks
  BY SMTT(30) DEF IInv, TypeOK
<1>2. /\ b \in Block \ {Genesis} /\ p \in DOMAIN blockMap /\ b \notin DOMAIN blockMap
      /\ call.pc = "next" /\ call.blocks # <<>> /\ Tail(call.blocks) \in Seq(Block)
      /\ call.blocks \in Seq(Block) /\ p \in Block
  <2>1. call.blocks \in Seq(Block) /\ call.blocks # <<>>
    BY <1>1, SMTT(30) DEF AddBlockToTree, Call
  <2>2. DOMAIN blockMap \subseteq Block
    BY <1>1, OpenTxFields DEF DatabaseOK
  <2> QED BY <2>1, <2>2, TailOf DEF AddBlockToTree, ValidUnlessFuture
<1>3. /\ DOMAIN blockMap' = DOMAIN blockMap \cup {b}
      /\ blockMap'[b].height = blockMap[p].height + 1
      /\ blockMap'[b].depth = blockMap[p].depth + Difficulty[p]
      /\ blockMap'[b].generated = FALSE
      /\ \A c \in DOMAIN blockMap : blockMap'[c] = blockMap[c]
  <2> DEFINE pb == [height |-> blockMap[p].height + 1, depth |-> childDepth(blockMap, p),
                    generated |-> FALSE, diffs |-> NoDiffs]
  <2>1. blockMap' = Put(blockMap, b, pb)
    BY SMTT(30) DEF AddBlockToTree, newChild
  <2>2. pb.height = blockMap[p].height + 1 /\ pb.depth = blockMap[p].depth + Difficulty[p] /\ pb.generated = FALSE
    BY DEF childDepth
  <2> HIDE DEF pb, b, p
  <2>3. DOMAIN blockMap' = DOMAIN blockMap \cup {b} /\ blockMap'[b] = pb
    BY <2>1 DEF Put
  <2>4. \A c \in DOMAIN blockMap : blockMap'[c] = blockMap[c]
    BY <1>2, <2>1 DEF Put
  <2> QED BY <2>2, <2>3, <2>4, Zenon
<1>4. DOMAIN headerMap' = DOMAIN headerMap \cup {b}
  <2>1. \E h : headerMap' = Put(headerMap, b, h)
    BY Zenon DEF AddBlockToTree, newChild
  <2> HIDE DEF b, p
  <2> QED BY <2>1, PutOne, Zenon
<1>5. UNCHANGED <<path, changeLog, tail, db>> /\ MemoryOK'
  BY <1>1, SMTT(30) DEF AddBlockToTree, MemoryOK
<1>6. \/ /\ 5 * blockMap'[b].depth > 5 * blockMap'[Last(path)].depth + Difficulty[Last(path)]
         /\ call' = [call EXCEPT !.pc = "fork", !.target = b, !.route = <<b>>,
                                 !.reverted = <<>>, !.applied = <<>>]
      \/ /\ ~(5 * blockMap'[b].depth > 5 * blockMap'[Last(path)].depth + Difficulty[Last(path)])
         /\ call' = [call EXCEPT !.blocks = Tail(call.blocks)]
  BY SMTT(30) DEF AddBlockToTree, heavierThan
<1> HIDE DEF b, p
<1>7. /\ OpenTx'.blockMap = blockMap' /\ OpenTx'.headerMap = headerMap' /\ OpenTx'.path = path
      /\ OpenTx'.changeLog = changeLog /\ OpenTx'.tail = tail
  BY <1>5, SMTT(30) DEF OpenTx
<1>8. DatabaseOK(db)' /\ Stored(db)' /\ Heaviest(db)'
  BY <1>5, SameCommitted
<1>9. DatabaseOK(OpenTx)'
  <2>1. \A c \in DOMAIN blockMap :
          /\ blockMap'[c].height \in Nat
          /\ blockMap'[c].depth \in Nat
          /\ blockMap'[c].generated \in BOOLEAN
    <3>1. \A c \in DOMAIN blockMap :
            /\ blockMap[c].height \in Nat
            /\ blockMap[c].depth \in Nat
            /\ blockMap[c].generated \in BOOLEAN
      BY <1>1, OpenTxFields, Zenon DEF DatabaseOK
    <3> QED BY <1>3, <3>1, Zenon
  <2>2. blockMap'[b].height \in Nat /\ blockMap'[b].depth \in Nat
    <3>1. blockMap[p].height \in Nat /\ blockMap[p].depth \in Nat
      BY <1>1, <1>2, OpenTxFields DEF DatabaseOK
    <3>2. Difficulty[p] \in Nat
      BY <1>2, ConsensusAssumption
    <3> QED BY <1>3, <3>1, <3>2
  <2>3. blockMap'[b].generated \in BOOLEAN
    BY <1>3, Zenon
  <2>4. DOMAIN blockMap' \subseteq Block /\ DOMAIN headerMap' \subseteq Block
    BY <1>1, <1>2, <1>3, <1>4, OpenTxFields DEF DatabaseOK
  <2>5. path \in Seq(Block) \ {<<>>} /\ DOMAIN changeLog \subseteq Entry /\ tail \in DOMAIN changeLog
    BY <1>1, OpenTxFields DEF DatabaseOK
  <2>6. \A c \in DOMAIN blockMap' :
          /\ blockMap'[c].height \in Nat
          /\ blockMap'[c].depth \in Nat
          /\ blockMap'[c].generated \in BOOLEAN
    BY <1>3, <2>1, <2>2, <2>3, Zenon
  <2> QED BY <1>7, <2>4, <2>5, <2>6, Zenon DEF DatabaseOK
<1>10. Stored(OpenTx)'
  <2>1. Tree(OpenTx)'
    <3>1. /\ Genesis \in DOMAIN blockMap /\ blockMap[Genesis].height = 0
          /\ \A c \in DOMAIN blockMap \ {Genesis} :
                Parent[c] \in DOMAIN blockMap /\ blockMap[c].height = blockMap[Parent[c]].height + 1
      BY <1>1, OpenTxFields, SMTT(30) DEF Stored, Tree
    <3>2. /\ Genesis \in DOMAIN blockMap' /\ blockMap'[Genesis].height = 0
          /\ \A c \in DOMAIN blockMap' \ {Genesis} :
                Parent[c] \in DOMAIN blockMap' /\ blockMap'[c].height = blockMap'[Parent[c]].height + 1
      BY <1>2, <1>3, <3>1 DEF p
    <3> QED BY <1>7, <3>2, SMTT(30) DEF Tree
  <2>2. ValidChain(OpenTx)'
    <3>1. /\ path[1] = Genesis
          /\ \A i \in DOMAIN path :
                /\ path[i] \in DOMAIN blockMap
                /\ blockMap[path[i]].generated
                /\ blockMap[path[i]].height = i - 1
                /\ i > 1 => path[i] # Genesis /\ Parent[path[i]] = path[i - 1]
      BY <1>1, OpenTxFields, Zenon DEF Stored, ValidChain
    <3>2. \A i \in DOMAIN path : path[i] \in DOMAIN blockMap' /\ blockMap'[path[i]] = blockMap[path[i]]
      BY <1>3, <3>1, Zenon
    <3> QED BY <1>7, <3>1, <3>2, Zenon DEF ValidChain
  <2>3. LogStored(OpenTx)'
    BY <1>1, <1>3, <1>7, OpenTxFields DEF Stored, LogStored
  <2> QED BY <2>1, <2>2, <2>3 DEF Stored
<1>11. Extends'
  BY <1>1, <1>3, <1>5, SMTT(30) DEF Extends
<1>12. /\ path \in Seq(Block) /\ path # <<>>
       /\ db.path \in Seq(Block) /\ db.path # <<>>
  BY <1>1, OpenTxFields DEF DatabaseOK
<1>13. /\ Last(path) \in DOMAIN blockMap /\ Last(db.path) \in DOMAIN blockMap
       /\ Difficulty[Last(path)] \in Nat /\ Difficulty[Last(db.path)] \in Nat
  <2>1. Last(path) \in DOMAIN blockMap
    BY <1>1, <1>12, LastIn, OpenTxFields DEF Stored, ValidChain
  <2>2. Last(db.path) \in DOMAIN blockMap
    BY <1>1, <1>12, LastIn, SMTT(30) DEF Stored, ValidChain, Extends
  <2> QED BY <2>1, <2>2, <1>12, LastIn, ConsensusAssumption
<1>14. \A c \in DOMAIN blockMap : blockMap[c].depth \in Nat /\ blockMap'[c].depth = blockMap[c].depth
  BY <1>1, <1>3, OpenTxFields, SMTT(30) DEF DatabaseOK
<1>15. blockMap'[b].depth \in Nat
  BY <1>9, <1>7, <1>3, SMTT(30) DEF DatabaseOK
<1>16. /\ \A c \in DOMAIN blockMap :
            5 * blockMap[c].depth =< 5 * blockMap[Last(path)].depth + Difficulty[Last(path)]
       /\ path = db.path \/ 5 * blockMap[Last(path)].depth >
                             5 * blockMap[Last(db.path)].depth + Difficulty[Last(db.path)]
  BY <1>1, <1>2, OpenTxFields, SMTT(30) DEF BetweenForks, Heaviest, Surpasses
<1>17. CASE /\ 5 * blockMap'[b].depth > 5 * blockMap'[Last(path)].depth + Difficulty[Last(path)]
            /\ call' = [call EXCEPT !.pc = "fork", !.target = b, !.route = <<b>>,
                                    !.reverted = <<>>, !.applied = <<>>]
  <2>1. /\ call' \in Call /\ call'.pc = "fork" /\ call'.target = b /\ call'.route = <<b>>
        /\ call'.applied = <<>> /\ call'.blocks = call.blocks
    <3> DEFINE bs == <<b>>
               es == <<>>
    <3>1. bs \in Seq(Block) /\ es \in Seq(Block)
      BY <1>2
    <3> HIDE DEF bs, es
    <3>2. call' = [call EXCEPT !.pc = "fork", !.target = b, !.route = bs,
                               !.reverted = es, !.applied = es]
      BY <1>17 DEF bs, es
    <3>3. /\ call' \in Call /\ call'.pc = "fork" /\ call'.target = b /\ call'.route = bs
          /\ call'.applied = es /\ call'.blocks = call.blocks
      BY <1>1, <1>2, <3>1, <3>2, Zenon DEF Call
    <3> QED BY <3>3 DEF bs, es
  <2>2. TargetHeaviest'
    <3>1. \A c \in DOMAIN blockMap' : blockMap'[c].depth =< blockMap'[b].depth
      <4>1. \A c \in DOMAIN blockMap : blockMap[c].depth =< blockMap'[b].depth
        BY <1>13, <1>14, <1>15, <1>16, <1>17
      <4> QED BY <1>3, <1>14, <1>15, <4>1
    <3>2. 5 * blockMap'[b].depth > 5 * blockMap'[Last(db.path)].depth + Difficulty[Last(db.path)]
      BY <1>13, <1>14, <1>15, <1>16, <1>17
    <3> QED BY <1>3, <1>5, <1>7, <2>1, <3>1, <3>2 DEF TargetHeaviest, Surpasses
  <2>3. RouteLinked'
    <3>1. Last(<<b>>) = b /\ <<b>> # <<>> /\ DOMAIN <<b>> = {1} /\ <<b>>[1] = b
      BY SMTT(30) DEF Last
    <3> QED BY <1>2, <1>3, <2>1, <3>1 DEF RouteLinked
  <2>4. TargetNew'
    <3>1. \A e \in DOMAIN changeLog : Last(e.applied) # b
      BY <1>1, <1>2, OpenTxFields, SMTT(30) DEF Stored, LogStored
    <3>2. \A i \in DOMAIN path : path[i] # b
      BY <1>1, <1>2, OpenTxFields DEF Stored, ValidChain
    <3> QED BY <1>5, <2>1, <3>1, <3>2 DEF TargetNew
  <2> QED BY <1>5, <1>8, <1>9, <1>10, <1>11, <2>1, <2>2, <2>3, <2>4 DEF IInv, TypeOK, BetweenForks
<1>18. CASE /\ ~(5 * blockMap'[b].depth > 5 * blockMap'[Last(path)].depth + Difficulty[Last(path)])
            /\ call' = [call EXCEPT !.blocks = Tail(call.blocks)]
  <2>1. call' \in Call /\ call'.pc = "next"
    BY <1>1, <1>2, <1>18, Zenon DEF Call
  <2>2. BetweenForks'
    <3>1. \A c \in DOMAIN blockMap' :
            5 * blockMap'[c].depth =< 5 * blockMap'[Last(path)].depth + Difficulty[Last(path)]
      BY <1>3, <1>13, <1>14, <1>15, <1>16, <1>18
    <3>2. path = db.path \/ 5 * blockMap'[Last(path)].depth >
                              5 * blockMap'[Last(db.path)].depth + Difficulty[Last(db.path)]
      BY <1>13, <1>14, <1>16
    <3> QED BY <1>5, <1>7, <3>1, <3>2 DEF BetweenForks, Heaviest, Surpasses
  <2> QED BY <1>5, <1>8, <1>9, <1>10, <1>11, <2>1, <2>2, Zenon
          DEF IInv, TypeOK, TargetHeaviest, RouteLinked, TargetNew
<1> QED BY <1>6, <1>17, <1>18
=============================================================================
