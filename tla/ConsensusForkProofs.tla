------------------------ MODULE ConsensusForkProofs ------------------------
(***************************************************************************)
(* The steps of a fork preserve the invariant: the route is built, blocks are*)
(* reverted and applied, and the change is logged.                          *)
(***************************************************************************)
EXTENDS ConsensusInvariant

-----------------------------------------------------------------------------
(* The steps of a fork.                                                       *)

(* The committed tip is still in the tree of the open transaction.            *)
LEMMA CommittedTip ==
    ASSUME IInv
    PROVE  Last(db.path) \in DOMAIN blockMap
<1>1. db.path \in Seq(Block) /\ db.path # <<>>
  BY DEF IInv, TypeOK, DatabaseOK
<1>2. Len(db.path) \in DOMAIN db.path /\ Last(db.path) = db.path[Len(db.path)]
  BY <1>1, LastIn, SMTT(30)
<1>3. db.path[Len(db.path)] \in DOMAIN db.blockMap
  BY <1>2 DEF IInv, Stored, ValidChain
<1> QED BY <1>2, <1>3 DEF IInv, Extends

(* What the invariant says of the open transaction, without the record.       *)
LEMMA OpenTxFacts ==
    ASSUME IInv
    PROVE  /\ DOMAIN blockMap \subseteq Block /\ DOMAIN headerMap \subseteq Block
           /\ \A b \in DOMAIN blockMap : blockMap[b].height \in Nat /\ blockMap[b].depth \in Nat
           /\ path \in Seq(Block) /\ path # <<>> /\ Len(path) \in Nat \ {0}
           /\ DOMAIN changeLog \subseteq Entry /\ tail \in DOMAIN changeLog
           /\ Genesis \in DOMAIN blockMap /\ blockMap[Genesis].height = 0
           /\ \A b \in DOMAIN blockMap \ {Genesis} :
                 /\ Parent[b] \in DOMAIN blockMap
                 /\ blockMap[b].height = blockMap[Parent[b]].height + 1
           /\ path[1] = Genesis
           /\ \A i \in DOMAIN path :
                 /\ path[i] \in DOMAIN blockMap
                 /\ blockMap[path[i]].height = i - 1
                 /\ i > 1 => path[i] # Genesis /\ Parent[path[i]] = path[i - 1]
           /\ changeLog[tail] = NoEntry
           /\ \A e \in DOMAIN changeLog : e.applied # <<>> /\ Last(e.applied) \in DOMAIN blockMap
<1>1. DatabaseOK(OpenTx) /\ Tree(OpenTx) /\ ValidChain(OpenTx) /\ LogStored(OpenTx)
  BY DEF IInv, TypeOK, Stored
<1>2. /\ DOMAIN blockMap \subseteq Block /\ DOMAIN headerMap \subseteq Block
      /\ \A b \in DOMAIN blockMap : blockMap[b].height \in Nat /\ blockMap[b].depth \in Nat
      /\ path \in Seq(Block) /\ path # <<>>
      /\ DOMAIN changeLog \subseteq Entry /\ tail \in DOMAIN changeLog
  BY <1>1, OpenTxFields DEF DatabaseOK
<1>3. Len(path) \in Nat \ {0}
  BY <1>2, LastIn
<1>4. /\ Genesis \in DOMAIN blockMap /\ blockMap[Genesis].height = 0
      /\ \A b \in DOMAIN blockMap \ {Genesis} :
            /\ Parent[b] \in DOMAIN blockMap
            /\ blockMap[b].height = blockMap[Parent[b]].height + 1
  BY <1>1, OpenTxFields DEF Tree
<1>5. /\ path[1] = Genesis
      /\ \A i \in DOMAIN path :
            /\ path[i] \in DOMAIN blockMap
            /\ blockMap[path[i]].height = i - 1
            /\ i > 1 => path[i] # Genesis /\ Parent[path[i]] = path[i - 1]
  BY <1>1, OpenTxFields DEF ValidChain
<1>6. /\ changeLog[tail] = NoEntry
      /\ \A e \in DOMAIN changeLog : e.applied # <<>> /\ Last(e.applied) \in DOMAIN blockMap
  BY <1>1, OpenTxFields DEF LogStored
<1> QED BY <1>2, <1>3, <1>4, <1>5, <1>6

LEMMA BacktrackStep ==
    ASSUME IInv, BacktrackToCurrentPath
    PROVE  IInv'
<1>1. OpenTx' = OpenTx /\ db' = db /\ UNCHANGED <<blockMap, path, changeLog>> /\ MemoryOK'
  BY SMTT(30) DEF BacktrackToCurrentPath, IInv, TypeOK, MemoryOK, OpenTx, txVars, memVars
<1>2. DatabaseOK(db)' /\ DatabaseOK(OpenTx)' /\ Stored(db)' /\ Stored(OpenTx)' /\ Heaviest(db)'
  BY <1>1, SameDatabase
<1> DEFINE r == call.route
           h == Head(r)
           q == <<Parent[h]>> \o r
<1>3. /\ call.pc = "fork" /\ r \in Seq(Block) /\ r # <<>> /\ Last(r) = call.target /\ call \in Call
      /\ \A i \in DOMAIN r : /\ r[i] \in DOMAIN blockMap
                             /\ i > 1 => r[i] # Genesis /\ Parent[r[i]] = r[i - 1]
  BY DEF BacktrackToCurrentPath, IInv, TypeOK, RouteLinked, Call
<1>4. ~OnCurrentPath(h) /\ call' = [call EXCEPT !.route = q]
  BY DEF BacktrackToCurrentPath
<1> HIDE DEF r
<1>5. h = r[1] /\ 1 \in DOMAIN r /\ Len(r) \in Nat \ {0} /\ DOMAIN r = 1 .. Len(r)
  BY <1>3, LastIn
<1>6. h \in DOMAIN blockMap
  BY <1>3, <1>5
<1>7. h # Genesis
  <2>1. OnCurrentPath(Genesis)
    BY OpenTxFacts DEF OnCurrentPath
  <2> QED BY <1>4, <2>1
<1>8. Parent[h] \in DOMAIN blockMap /\ Parent[h] \in Block
  BY <1>6, <1>7, OpenTxFacts
<1>9. /\ q \in Seq(Block) /\ q # <<>> /\ Len(q) = Len(r) + 1 /\ q[1] = Parent[h]
      /\ \A i \in 2 .. Len(r) + 1 : q[i] = r[i - 1]
  <2> HIDE DEF h
  <2> QED BY <1>3, <1>8, ConsOf
<1> HIDE DEF h, q
<1>10. Last(q) = call.target
  BY <1>3, <1>5, <1>9, LastIn
<1>11. /\ call' \in Call /\ call'.pc = "fork" /\ call'.route = q /\ call'.blocks = call.blocks
       /\ call'.target = call.target /\ call'.applied = call.applied
  BY <1>3, <1>4, <1>9, Zenon DEF Call
<1>12. \A i \in DOMAIN q : /\ q[i] \in DOMAIN blockMap
                           /\ i > 1 => q[i] # Genesis /\ Parent[q[i]] = q[i - 1]
  <2> SUFFICES ASSUME NEW i \in DOMAIN q
               PROVE  /\ q[i] \in DOMAIN blockMap
                      /\ i > 1 => q[i] # Genesis /\ Parent[q[i]] = q[i - 1]
    BY SMTT(30)
  <2>1. i \in 1 .. Len(r) + 1
    BY <1>5, <1>9
  <2>2. CASE i = 1
    BY <1>8, <1>9, <2>2
  <2>3. CASE i = 2
    <3>1. q[2] = r[1]
      BY <1>5, <1>9
    <3> QED BY <1>5, <1>6, <1>7, <1>9, <2>3, <3>1
  <2>4. CASE i > 2
    <3>1. q[i] = r[i - 1] /\ q[i - 1] = r[i - 1 - 1] /\ i - 1 \in DOMAIN r /\ i - 1 > 1
      BY <1>5, <1>9, <2>1, <2>4
    <3> QED BY <1>3, <3>1
  <2> QED BY <2>1, <2>2, <2>3, <2>4
<1>13. RouteLinked'
  BY <1>1, <1>3, <1>9, <1>10, <1>11, <1>12 DEF IInv, RouteLinked
<1>14. TargetHeaviest'
  BY <1>1, <1>3, <1>11 DEF IInv, TargetHeaviest, Surpasses
<1>15. call.applied = <<>>
  <2>1. call.applied # <<>> => Last(path) = h
    BY <1>3 DEF IInv, TargetNew, h, r
  <2>2. Last(path) = path[Len(path)] /\ Len(path) \in DOMAIN path
    BY OpenTxFacts, LastIn
  <2>3. OnCurrentPath(Last(path))
    BY <2>2, OpenTxFacts DEF OnCurrentPath
  <2> QED BY <1>4, <2>1, <2>3
<1>16. TargetNew'
  BY <1>1, <1>3, <1>11, <1>15 DEF IInv, TargetNew
<1>17. Extends'
  BY <1>1 DEF IInv, Extends
<1> QED BY <1>1, <1>2, <1>11, <1>13, <1>14, <1>16, <1>17 DEF IInv, TypeOK, BetweenForks

LEMMA RevertStep ==
    ASSUME IInv, RevertBlock
    PROVE  IInv'
<1>1. UNCHANGED <<blockMap, headerMap, changeLog, tail, db>> /\ MemoryOK'
  BY SMTT(30) DEF RevertBlock, IInv, TypeOK, MemoryOK, memVars
<1>2. /\ OpenTx'.blockMap = blockMap /\ OpenTx'.headerMap = headerMap /\ OpenTx'.path = path'
      /\ OpenTx'.changeLog = changeLog /\ OpenTx'.tail = tail
  BY <1>1, SMTT(30) DEF OpenTx
<1>3. DatabaseOK(db)' /\ Stored(db)' /\ Heaviest(db)' /\ Extends'
  BY <1>1, SameCommitted, SMTT(30) DEF IInv, Extends
<1>4. path \in Seq(Block) /\ path # <<>> /\ Last(path) = path[Len(path)] /\ Last(path) \in Block
  BY OpenTxFacts, LastIn
<1>5. Len(path) > 1
  <2>1. PICK i \in DOMAIN path : path[i] = Head(call.route)
    BY SMTT(30) DEF RevertBlock, OnCurrentPath
  <2>2. i # Len(path)
    BY <1>4, <2>1 DEF RevertBlock
  <2> QED BY <1>4, <2>2
<1>6. /\ path' \in Seq(Block) \ {<<>>} /\ DOMAIN path' = 1 .. Len(path) - 1
      /\ \A i \in DOMAIN path' : path'[i] = path[i] /\ i \in DOMAIN path
  <2>1. path' = Front(path)
    BY DEF RevertBlock
  <2>2. /\ path' \in Seq(Block) \ {<<>>} /\ DOMAIN path' = 1 .. Len(path) - 1
        /\ \A i \in DOMAIN path' : path'[i] = path[i]
    BY <1>4, <1>5, <2>1, FrontOf
  <2>3. \A i \in 1 .. Len(path) - 1 : i \in DOMAIN path
    BY <1>4
  <2> QED BY <2>2, <2>3
<1>7. /\ call' \in Call /\ call'.pc = "fork" /\ call'.route = call.route /\ call'.blocks = call.blocks
      /\ call'.target = call.target /\ call'.applied = call.applied /\ call.pc = "fork"
  <2>1. Append(call.reverted, Last(path)) \in Seq(Block)
    BY <1>4 DEF IInv, TypeOK, Call
  <2> QED BY <2>1, Zenon DEF RevertBlock, IInv, TypeOK, Call
<1>8. DatabaseOK(OpenTx)'
  BY <1>2, <1>6, OpenTxFields DEF IInv, TypeOK, DatabaseOK
<1>9. Tree(OpenTx)' /\ LogStored(OpenTx)'
  BY <1>2, OpenTxFields DEF IInv, Stored, Tree, LogStored
<1>10. ValidChain(OpenTx)'
  <2>1. /\ path[1] = Genesis
        /\ \A i \in DOMAIN path :
              /\ path[i] \in DOMAIN blockMap
              /\ blockMap[path[i]].generated
              /\ blockMap[path[i]].height = i - 1
              /\ i > 1 => path[i] # Genesis /\ Parent[path[i]] = path[i - 1]
    BY OpenTxFields DEF IInv, Stored, ValidChain
  <2>2. 1 \in DOMAIN path' /\ \A i \in DOMAIN path' : i > 1 => i - 1 \in DOMAIN path'
    BY <1>4, <1>5, <1>6
  <2>3. /\ path'[1] = Genesis
        /\ \A i \in DOMAIN path' :
              /\ path'[i] \in DOMAIN blockMap
              /\ blockMap[path'[i]].generated
              /\ blockMap[path'[i]].height = i - 1
              /\ i > 1 => path'[i] # Genesis /\ Parent[path'[i]] = path'[i - 1]
    BY <1>6, <2>1, <2>2, SMTT(30)
  <2> QED BY <1>2, <2>3, SMTT(30) DEF ValidChain
<1>11. TargetHeaviest' /\ RouteLinked'
  BY <1>1, <1>2, <1>7, OpenTxFields DEF IInv, TargetHeaviest, Surpasses, RouteLinked
<1>12. call.applied = <<>>
  BY <1>7, SMTT(30) DEF RevertBlock, IInv, TargetNew
<1>13. TargetNew'
  BY <1>1, <1>6, <1>7, <1>12 DEF IInv, TargetNew
<1> QED BY <1>1, <1>3, <1>7, <1>8, <1>9, <1>10, <1>11, <1>13 DEF IInv, TypeOK, Stored, BetweenForks

(* The two ways to apply the next block of the route: it is pushed on the     *)
(* path, and of the tree only its diffs may change.                           *)
LEMMA AdvanceStep ==
    ASSUME IInv, AtRoute, MemoryOK',
           path' = Append(path, NextOnRoute), call' = Advance(NextOnRoute),
           UNCHANGED <<changeLog, tail, db>>,
           DOMAIN headerMap' \subseteq Block,
           DOMAIN blockMap' = DOMAIN blockMap,
           \A c \in DOMAIN blockMap :
              /\ blockMap'[c].height = blockMap[c].height
              /\ blockMap'[c].depth = blockMap[c].depth
              /\ blockMap'[c].generated \in BOOLEAN
              /\ blockMap[c].generated \/ c = NextOnRoute => blockMap'[c].generated
    PROVE  IInv'
<1> DEFINE b == NextOnRoute
           r == call.route
<1>1. /\ OpenTx'.blockMap = blockMap' /\ OpenTx'.headerMap = headerMap' /\ OpenTx'.path = path'
      /\ OpenTx'.changeLog = changeLog /\ OpenTx'.tail = tail
  BY SMTT(30) DEF OpenTx
<1>2. DatabaseOK(db)' /\ Stored(db)' /\ Heaviest(db)' /\ Extends'
  BY SameCommitted, SMTT(30) DEF IInv, Extends
<1>3. /\ call.pc = "fork" /\ r \in Seq(Block) /\ r # <<>> /\ Last(r) = call.target /\ call \in Call
      /\ call.blocks # <<>> /\ Len(r) > 1 /\ Last(path) = Head(r)
      /\ \A i \in DOMAIN r : /\ r[i] \in DOMAIN blockMap
                             /\ i > 1 => r[i] # Genesis /\ Parent[r[i]] = r[i - 1]
  BY SMTT(30) DEF AtRoute, IInv, TypeOK, RouteLinked, Call
<1>4. /\ path \in Seq(Block) /\ path # <<>> /\ Last(path) = path[Len(path)] /\ Last(path) \in Block
      /\ Len(path) \in Nat \ {0} /\ DOMAIN path = 1 .. Len(path)
  BY OpenTxFacts, LastIn
<1>5. b = r[2] /\ call' = [call EXCEPT !.applied = Append(call.applied, b), !.route = Tail(r)]
  BY DEF NextOnRoute, Advance
<1> HIDE DEF b, r
<1>6. /\ b \in DOMAIN blockMap /\ b \in Block /\ b # Genesis /\ Parent[b] = Last(path)
      /\ 2 \in DOMAIN r /\ DOMAIN r = 1 .. Len(r) /\ Len(r) \in Nat
  <2>1. 2 \in DOMAIN r /\ DOMAIN r = 1 .. Len(r) /\ Len(r) \in Nat /\ Head(r) = r[1]
    BY <1>3
  <2>2. r[2] \in DOMAIN blockMap /\ r[2] # Genesis /\ Parent[r[2]] = r[1]
    BY <1>3, <2>1, SMTT(30)
  <2> QED BY <1>3, <1>5, <2>1, <2>2, OpenTxFacts
<1>7. blockMap[b].height = Len(path)
  <2>1. blockMap[Last(path)].height = Len(path) - 1
    BY <1>4, OpenTxFacts, SMTT(30)
  <2> QED BY <1>4, <1>6, <2>1, OpenTxFacts
<1>8. /\ path' \in Seq(Block) \ {<<>>} /\ Last(path') = b /\ DOMAIN path' = 1 .. Len(path) + 1
      /\ \A i \in DOMAIN path : path'[i] = path[i]
      /\ path'[Len(path) + 1] = b
  <2>1. path' = Append(path, b)
    BY SMTT(30) DEF b
  <2> QED BY <1>4, <1>6, <2>1, AppendLast
<1>9. /\ Append(call.applied, b) \in Seq(Block) \ {<<>>} /\ Last(Append(call.applied, b)) = b
  <2>1. call.applied \in Seq(Block)
    BY <1>3, SMTT(30) DEF Call
  <2> QED BY <1>6, <2>1, AppendLast
<1>10. /\ Tail(r) \in Seq(Block) /\ Len(Tail(r)) = Len(r) - 1
       /\ \A i \in 1 .. Len(r) - 1 : Tail(r)[i] = r[i + 1]
  BY <1>3, TailOf
<1>11. /\ Tail(r) # <<>> /\ Last(Tail(r)) = call.target /\ Head(Tail(r)) = b
       /\ DOMAIN Tail(r) = 1 .. Len(r) - 1
  <2>1. Len(Tail(r)) > 0 /\ Tail(r)[Len(r) - 1] = r[Len(r)] /\ Tail(r)[1] = r[2]
    BY <1>3, <1>6, <1>10
  <2>2. Tail(r) # <<>>
    BY <2>1, SMTT(30)
  <2>3. Last(Tail(r)) = Tail(r)[Len(r) - 1] /\ Last(r) = r[Len(r)]
    <3>1. Last(Tail(r)) = Tail(r)[Len(Tail(r))]
      BY <1>10, <2>2, LastIn, Zenon
    <3>2. Last(r) = r[Len(r)]
      BY <1>3, LastIn
    <3> QED BY <1>10, <3>1, <3>2, Zenon
  <2>4. Head(Tail(r)) = Tail(r)[1] /\ DOMAIN Tail(r) = 1 .. Len(r) - 1
    BY <1>10, <2>1
  <2> QED BY <1>3, <1>5, <2>1, <2>2, <2>3, <2>4
<1>12. /\ call' \in Call /\ call'.pc = "fork" /\ call'.route = Tail(r) /\ call'.blocks = call.blocks
       /\ call'.target = call.target /\ call'.applied = Append(call.applied, b)
  <2> DEFINE t == Tail(r)
             a == Append(call.applied, b)
  <2>1. t \in Seq(Block) /\ a \in Seq(Block)
    BY <1>9, <1>10
  <2>2. call' = [call EXCEPT !.applied = a, !.route = t]
    BY <1>5
  <2> HIDE DEF t, a
  <2>3. /\ call' \in Call /\ call'.pc = "fork" /\ call'.route = t /\ call'.blocks = call.blocks
        /\ call'.target = call.target /\ call'.applied = a
    BY <1>3, <2>1, <2>2 DEF Call
  <2> QED BY <2>3 DEF t, a
<1>13. DatabaseOK(OpenTx)'
  <2>1. \A c \in DOMAIN blockMap' :
          blockMap'[c].height \in Nat /\ blockMap'[c].depth \in Nat /\ blockMap'[c].generated \in BOOLEAN
    BY OpenTxFacts, SMTT(30)
  <2> QED BY <1>1, <1>8, <2>1, OpenTxFacts, Zenon DEF DatabaseOK
<1>14. Tree(OpenTx)' /\ LogStored(OpenTx)'
  BY <1>1, OpenTxFacts, SMTT(30) DEF Tree, LogStored
<1>15. ValidChain(OpenTx)'
  <2>1. \A i \in DOMAIN path : blockMap[path[i]].generated
    BY OpenTxFields, SMTT(30) DEF IInv, Stored, ValidChain
  <2>2. \A i \in DOMAIN path' :
          /\ path'[i] \in DOMAIN blockMap'
          /\ blockMap'[path'[i]].generated
          /\ blockMap'[path'[i]].height = i - 1
          /\ i > 1 => path'[i] # Genesis /\ Parent[path'[i]] = path'[i - 1]
    <3> SUFFICES ASSUME NEW i \in DOMAIN path'
                 PROVE  /\ path'[i] \in DOMAIN blockMap'
                        /\ blockMap'[path'[i]].generated
                        /\ blockMap'[path'[i]].height = i - 1
                        /\ i > 1 => path'[i] # Genesis /\ Parent[path'[i]] = path'[i - 1]
      BY SMTT(30)
    <3>1. CASE i \in DOMAIN path
      <4>1. path'[i] = path[i] /\ (i > 1 => path'[i - 1] = path[i - 1])
        BY <1>4, <1>8, <3>1, SMTT(30)
      <4>2. path[i] \in DOMAIN blockMap /\ blockMap[path[i]].generated
        BY <2>1, <3>1, OpenTxFacts
      <4>3. blockMap'[path[i]].generated
        BY <4>2, SMTT(30)
      <4>4. blockMap'[path[i]].height = i - 1
        BY <3>1, <4>2, OpenTxFacts, SMTT(30)
      <4>5. i > 1 => path[i] # Genesis /\ Parent[path[i]] = path[i - 1]
        BY <3>1, OpenTxFacts, SMTT(30)
      <4> QED BY <4>1, <4>2, <4>3, <4>4, <4>5
    <3>2. CASE i = Len(path) + 1
      <4>1. path'[i] = b /\ path'[i - 1] = Last(path)
        <5>1. i - 1 = Len(path) /\ Len(path) \in DOMAIN path
          BY <1>4, <3>2, SMTT(30)
        <5> QED BY <1>4, <1>8, <3>2, <5>1
      <4>2. blockMap'[b].generated
        BY <1>6, SMTT(30) DEF b
      <4>3. blockMap'[b].height = i - 1
        BY <1>4, <1>6, <1>7, <3>2
      <4> QED BY <1>6, <4>1, <4>2, <4>3
    <3> QED BY <1>4, <1>8, <3>1, <3>2
  <2>3. path'[1] = Genesis
    BY <1>4, <1>8, OpenTxFacts
  <2> QED BY <1>1, <2>2, <2>3 DEF ValidChain
<1>16. TargetHeaviest'
  <2>1. Last(db.path) \in DOMAIN blockMap
    BY CommittedTip, SMTT(30)
  <2>2. /\ call.target \in DOMAIN blockMap
        /\ \A c \in DOMAIN blockMap : blockMap[c].depth =< blockMap[call.target].depth
        /\ 5 * blockMap[call.target].depth > 5 * blockMap[Last(db.path)].depth + Difficulty[Last(db.path)]
    BY <1>3, OpenTxFields, SMTT(30) DEF IInv, TargetHeaviest, Surpasses
  <2>3. /\ call.target \in DOMAIN blockMap'
        /\ \A c \in DOMAIN blockMap' : blockMap'[c].depth =< blockMap'[call.target].depth
        /\ 5 * blockMap'[call.target].depth > 5 * blockMap'[Last(db.path)].depth + Difficulty[Last(db.path)]
    BY <2>1, <2>2, SMTT(30)
  <2> QED BY <1>1, <1>12, <2>3 DEF TargetHeaviest, Surpasses
<1>17. RouteLinked'
  <2>1. \A i \in DOMAIN Tail(r) :
          /\ Tail(r)[i] \in DOMAIN blockMap
          /\ i > 1 => Tail(r)[i] # Genesis /\ Parent[Tail(r)[i]] = Tail(r)[i - 1]
    <3> SUFFICES ASSUME NEW i \in DOMAIN Tail(r)
                 PROVE  /\ Tail(r)[i] \in DOMAIN blockMap
                        /\ i > 1 => Tail(r)[i] # Genesis /\ Parent[Tail(r)[i]] = Tail(r)[i - 1]
      BY SMTT(30)
    <3>1. i \in 1 .. Len(r) - 1 /\ i + 1 \in DOMAIN r /\ i + 1 > 1 /\ (i + 1) - 1 = i
      BY <1>6, <1>11, SMTT(30)
    <3>2. Tail(r)[i] = r[i + 1] /\ (i > 1 => Tail(r)[i - 1] = r[i])
      <4>1. i > 1 => i - 1 \in 1 .. Len(r) - 1 /\ (i - 1) + 1 = i
        BY <1>6, <3>1, SMTT(30)
      <4> QED BY <1>10, <3>1, <4>1
    <3>3. r[i + 1] \in DOMAIN blockMap /\ r[i + 1] # Genesis /\ Parent[r[i + 1]] = r[i]
      BY <1>3, <3>1, SMTT(30)
    <3> QED BY <3>2, <3>3, SMTT(30)
  <2> QED BY <1>3, <1>11, <1>12, <2>1 DEF RouteLinked
<1>18. TargetNew'
  BY <1>3, <1>8, <1>9, <1>11, <1>12 DEF IInv, TargetNew
<1> QED BY <1>2, <1>12, <1>13, <1>14, <1>15, <1>16, <1>17, <1>18
        DEF IInv, TypeOK, Stored, BetweenForks

LEMMA ApplySteps ==
    ASSUME IInv, ApplyKnownDiffs \/ ApplyNewBlock
    PROVE  IInv'
<1>1. CASE ApplyKnownDiffs
  <2>1. /\ AtRoute /\ path' = Append(path, NextOnRoute) /\ call' = Advance(NextOnRoute)
        /\ UNCHANGED <<blockMap, headerMap, changeLog, tail, db>>
        /\ blockMap[NextOnRoute].generated
    BY <1>1 DEF ApplyKnownDiffs
  <2>2. MemoryOK'
    BY <1>1, Zenon DEF ApplyKnownDiffs, memVars, IInv, TypeOK, MemoryOK
  <2>3. \A c \in DOMAIN blockMap : blockMap[c].generated \in BOOLEAN
    BY OpenTxFields DEF IInv, TypeOK, DatabaseOK
  <2> QED BY <2>1, <2>2, <2>3, OpenTxFacts, AdvanceStep
<1>2. CASE ApplyNewBlock
  <2> DEFINE b == NextOnRoute
  <2>1. PICK d : blockMap' = Put(blockMap, b, [height |-> blockMap[b].height, depth |-> blockMap[b].depth,
                                               generated |-> TRUE, diffs |-> d])
    BY <1>2, Zenon DEF ApplyNewBlock
  <2>2. \E h : headerMap' = Put(headerMap, b, h)
    BY <1>2, Zenon DEF ApplyNewBlock
  <2>3. /\ AtRoute /\ path' = Append(path, b) /\ call' = Advance(b)
        /\ UNCHANGED <<changeLog, tail, db>>
    BY <1>2, Zenon DEF ApplyNewBlock
  <2>4. MemoryOK'
    BY <1>2, Zenon DEF ApplyNewBlock, IInv, TypeOK, MemoryOK
  <2>5. b \in DOMAIN blockMap
    <3>1. call.route \in Seq(Block) /\ Len(call.route) > 1
      BY <2>3 DEF AtRoute, IInv, TypeOK, Call
    <3>2. 2 \in DOMAIN call.route
      BY <3>1, SMTT(30)
    <3> QED BY <2>3, <3>2, Zenon DEF AtRoute, IInv, RouteLinked, NextOnRoute
  <2> HIDE DEF b
  <2>6. DOMAIN blockMap' = DOMAIN blockMap
    BY <2>1, <2>5 DEF Put
  <2>7. DOMAIN headerMap' \subseteq Block
    <3>1. b \in Block /\ DOMAIN headerMap \subseteq Block
      BY <2>5, OpenTxFacts
    <3>2. DOMAIN headerMap' = DOMAIN headerMap \cup {b}
      BY <2>2, SMTT(30) DEF Put
    <3> QED BY <3>1, <3>2, SMTT(30)
  <2>8. \A c \in DOMAIN blockMap : c # b => blockMap'[c] = blockMap[c]
    BY <2>1, SMTT(30) DEF Put
  <2>9. /\ blockMap'[b].height = blockMap[b].height
        /\ blockMap'[b].depth = blockMap[b].depth
        /\ blockMap'[b].generated
    BY <2>1 DEF Put
  <2>10. \A c \in DOMAIN blockMap : blockMap[c].generated \in BOOLEAN
    BY OpenTxFields DEF IInv, TypeOK, DatabaseOK
  <2>11. \A c \in DOMAIN blockMap :
            /\ blockMap'[c].height = blockMap[c].height
            /\ blockMap'[c].depth = blockMap[c].depth
            /\ blockMap'[c].generated \in BOOLEAN
            /\ blockMap[c].generated \/ c = b => blockMap'[c].generated
    <3>1. blockMap'[b].generated \in BOOLEAN
      BY <2>1 DEF Put
    <3> QED BY <2>8, <2>9, <2>10, <3>1, Zenon
  <2> QED BY <2>3, <2>4, <2>6, <2>7, <2>11, AdvanceStep DEF b
<1> QED BY <1>1, <1>2, SMTT(30)

(* The change is new to the log, so appending it loses no entry.              *)
LEMMA FinishStep ==
    ASSUME IInv, FinishFork
    PROVE  IInv'
<1> DEFINE ce == [reverted |-> call.reverted, applied |-> call.applied]
<1>1. /\ UNCHANGED <<blockMap, headerMap, path, db>> /\ MemoryOK' /\ tail' = ce
      /\ changeLog' = appendChangeLog(changeLog, tail, ce)
      /\ call.pc = "fork" /\ Last(path) = call.target
  BY SMTT(30) DEF FinishFork, memVars, IInv, TypeOK, MemoryOK
<1>2. /\ OpenTx'.blockMap = blockMap /\ OpenTx'.headerMap = headerMap /\ OpenTx'.path = path
      /\ OpenTx'.changeLog = changeLog' /\ OpenTx'.tail = tail'
  BY <1>1, SMTT(30) DEF OpenTx
<1>3. ce \in Entry /\ ce.applied = call.applied
  BY DEF IInv, TypeOK, Call, Entry
<1>4. call' = [call EXCEPT !.pc = "next", !.blocks = Tail(call.blocks), !.changes = Append(call.changes, ce),
                           !.route = <<>>, !.reverted = <<>>, !.applied = <<>>]
  BY DEF FinishFork
<1> HIDE DEF ce
<1>5. call' \in Call /\ call'.pc = "next"
  <2> DEFINE es == <<>>
             t  == Tail(call.blocks)
             a  == Append(call.changes, ce)
  <2>1. es \in Seq(Block) /\ t \in Seq(Block) /\ a \in Seq(Entry)
    <3>1. call.blocks \in Seq(Block) /\ call.blocks # <<>> /\ call.changes \in Seq(Entry)
      BY <1>1 DEF IInv, TypeOK, Call, RouteLinked
    <3> QED BY <1>3, <3>1, TailOf, AppendLast
  <2>2. call' = [call EXCEPT !.pc = "next", !.blocks = t, !.changes = a,
                             !.route = es, !.reverted = es, !.applied = es]
    BY <1>4, SMTT(30)
  <2> HIDE DEF es, t, a
  <2> QED BY <2>1, <2>2, Zenon DEF IInv, TypeOK, Call
<1>6. call.applied # <<>> /\ Last(call.applied) = call.target
  <2>1. Len(path) \in DOMAIN path /\ path[Len(path)] = call.target
    BY <1>1, OpenTxFacts, LastIn
  <2> QED BY <1>1, <2>1, SMTT(30) DEF IInv, TargetNew
<1>7. ce \notin DOMAIN changeLog
  BY <1>1, <1>3, <1>6 DEF IInv, TargetNew
<1>8. tail \in DOMAIN changeLog /\ ce # tail
  BY <1>7, OpenTxFacts, SMTT(30)
<1>9. /\ DOMAIN changeLog' = DOMAIN changeLog \cup {ce} /\ changeLog'[ce] = NoEntry /\ changeLog'[tail] = ce
      /\ \A e \in DOMAIN changeLog \ {tail} : changeLog'[e] = changeLog[e]
  <2>1. changeLog' = Put(Put(changeLog, ce, NoEntry), tail, ce)
    BY <1>1 DEF appendChangeLog
  <2> QED BY <1>7, <1>8, <2>1 DEF Put
<1>10. DatabaseOK(db)' /\ Stored(db)' /\ Heaviest(db)'
  BY <1>1, SameCommitted
<1>11. DatabaseOK(OpenTx)'
  <2>1. DOMAIN changeLog' \subseteq Entry /\ tail' \in DOMAIN changeLog'
    BY <1>1, <1>3, <1>9, OpenTxFacts
  <2> QED BY <1>2, <2>1, OpenTxFields DEF IInv, TypeOK, DatabaseOK
<1>12. Tree(OpenTx)' /\ ValidChain(OpenTx)'
  <2>1. Tree(OpenTx) /\ ValidChain(OpenTx)
    BY SMTT(30) DEF IInv, Stored
  <2>2. Tree(OpenTx)'
    BY <1>2, <2>1, OpenTxFields DEF Tree
  <2>3. ValidChain(OpenTx)'
    BY <1>2, <2>1, OpenTxFields DEF ValidChain
  <2> QED BY <2>2, <2>3, SMTT(30)
<1>13. call.target \in DOMAIN blockMap
  BY <1>1, SMTT(30) DEF IInv, TargetHeaviest
<1>14. LogStored(OpenTx)'
  <2>1. \A e \in DOMAIN changeLog' : e.applied # <<>> /\ Last(e.applied) \in DOMAIN blockMap
    BY <1>3, <1>6, <1>9, <1>13, OpenTxFacts
  <2> QED BY <1>1, <1>2, <1>9, <2>1 DEF LogStored
<1>15. Extends'
  <2>1. changeLog[tail] = NoEntry
    BY OpenTxFacts, SMTT(30)
  <2>2. \A e \in DOMAIN db.changeLog :
          e \in DOMAIN changeLog' /\ (db.changeLog[e] # NoEntry => changeLog'[e] = db.changeLog[e])
    BY <1>9, <2>1, SMTT(30) DEF IInv, Extends
  <2> QED BY <1>1, <2>2, SMTT(30) DEF IInv, Extends
<1>16. BetweenForks'
  <2>1. /\ \A c \in DOMAIN blockMap : blockMap[c].depth =< blockMap[Last(path)].depth
        /\ 5 * blockMap[Last(path)].depth > 5 * blockMap[Last(db.path)].depth + Difficulty[Last(db.path)]
    BY <1>1, OpenTxFields, SMTT(30) DEF IInv, TargetHeaviest, Surpasses
  <2>2. \A c \in DOMAIN blockMap :
          5 * blockMap[c].depth =< 5 * blockMap[Last(path)].depth + Difficulty[Last(path)]
    <3>1. Last(path) \in DOMAIN blockMap /\ Last(path) \in Block
      BY <1>1, <1>13, OpenTxFacts
    <3>2. Difficulty[Last(path)] \in Nat
      BY <3>1, ConsensusAssumption
    <3> QED BY <2>1, <3>1, <3>2, OpenTxFacts
  <2> QED BY <1>1, <1>2, <2>1, <2>2 DEF BetweenForks, Heaviest, Surpasses
<1> QED BY <1>1, <1>5, <1>10, <1>11, <1>12, <1>14, <1>15, <1>16, Zenon
        DEF IInv, TypeOK, Stored, TargetHeaviest, RouteLinked, TargetNew
=============================================================================
