---------------------------- MODULE NodeProofs ----------------------------
(***************************************************************************)
(* Proofs about the mempool of module Node, for every set of transactions  *)
(* and every history of the chain.                                         *)
(***************************************************************************)
EXTENDS Node, ChainProofs

\* A transaction that CheckTx admits competes with none in the pool.
LEMMA AddStep ==
  ASSUME PoolIsConsistent, NEW t, ~Exists(t), NEW fee, NEW h,
         \A o \in Prevouts(TxData[t]) : ~HaveOutpoint(o),
         AddUnchecked(t, fee, h)
  PROVE  PoolIsConsistent'
<1> DEFINE Ins(x) == Prevouts(TxData[x])
<1>1. /\ t \notin DOMAIN mapTx
      /\ \A o \in Ins(t) : o \notin DOMAIN mapPrevOut
  BY DEF Exists, HaveOutpoint
<1>2. /\ DOMAIN mapPrevOut = UNION {Ins(x) : x \in DOMAIN mapTx}
      /\ \A x \in DOMAIN mapTx : \A o \in Ins(x) : mapPrevOut[o] = x
  BY DEF PoolIsConsistent
<1>3. /\ DOMAIN mapTx' = DOMAIN mapTx \cup {t}
      /\ DOMAIN mapPrevOut' = DOMAIN mapPrevOut \cup Ins(t)
      /\ \A o \in Ins(t) : mapPrevOut'[o] = t
      /\ \A o \in DOMAIN mapPrevOut : o \notin Ins(t) =>
           mapPrevOut'[o] = mapPrevOut[o]
  BY DEF AddUnchecked
<1> HIDE DEF Ins
<1>4. DOMAIN mapPrevOut' = UNION {Ins(x) : x \in DOMAIN mapTx'}
  BY <1>2, <1>3
<1>5. ASSUME NEW x \in DOMAIN mapTx', NEW o \in Ins(x)
      PROVE  mapPrevOut'[o] = x
  <2>1. CASE x = t
    BY <1>3, <2>1
  <2>2. CASE x \in DOMAIN mapTx
    <3>1. o \in DOMAIN mapPrevOut /\ mapPrevOut[o] = x
      BY <1>2, <2>2
    <3>2. QED
      BY <1>1, <1>3, <3>1
  <2>3. QED
    BY <1>3, <2>1, <2>2
<1>6. QED
  BY <1>4, <1>5 DEF PoolIsConsistent, Ins

\* RemoveTx releases what the transaction reserved, and nothing else.
LEMMA RemoveStep ==
  ASSUME PoolIsConsistent, NEW gone, RemoveTxs(gone)
  PROVE  PoolIsConsistent'
<1> DEFINE Ins(x) == Prevouts(TxData[x])
           released == {o \in DOMAIN mapPrevOut :
                          \E t \in gone \cap DOMAIN mapTx :
                            o \in Ins(t) /\ mapPrevOut[o] = t}
<1>1. /\ DOMAIN mapPrevOut = UNION {Ins(x) : x \in DOMAIN mapTx}
      /\ \A x \in DOMAIN mapTx : \A o \in Ins(x) : mapPrevOut[o] = x
  BY DEF PoolIsConsistent
<1>2. /\ DOMAIN mapTx' = DOMAIN mapTx \ gone
      /\ mapPrevOut' = [o \in DOMAIN mapPrevOut \ released |-> mapPrevOut[o]]
  BY DEF RemoveTxs
<1> HIDE DEF Ins
<1>3. \A x \in DOMAIN mapTx : \A o \in Ins(x) :
        o \in DOMAIN mapPrevOut /\ (o \in released <=> x \in gone)
  BY <1>1
<1>4. \A o \in DOMAIN mapPrevOut : \E x \in DOMAIN mapTx : o \in Ins(x)
  BY <1>1
<1> HIDE DEF released
<1>5. /\ DOMAIN mapPrevOut' = DOMAIN mapPrevOut \ released
      /\ \A o \in DOMAIN mapPrevOut \ released : mapPrevOut'[o] = mapPrevOut[o]
  BY <1>2
<1>6. DOMAIN mapPrevOut' = UNION {Ins(x) : x \in DOMAIN mapTx'}
  BY <1>2, <1>3, <1>4, <1>5
<1>7. \A x \in DOMAIN mapTx' : \A o \in Ins(x) : mapPrevOut'[o] = x
  BY <1>1, <1>2, <1>3, <1>5
<1>8. QED
  BY <1>6, <1>7 DEF PoolIsConsistent, Ins

\* Through every mix of transactions, blocks, reorganisations, mined blocks
\* and restarts the two maps of CTxMemPool agree, so that the pool holds no
\* two transactions that spend the same coin.
THEOREM PoolConsistent == NodeSpec => []PoolIsConsistent
<1>1. EmptyPool => PoolIsConsistent
  BY DEF EmptyPool, PoolIsConsistent
<1>2. ASSUME PoolIsConsistent, [NodeNext]_nodeVars PROVE PoolIsConsistent'
  <2>1. CASE NodeStart
    BY <1>2, <2>1 DEF NodeStart, poolVars, PoolIsConsistent
  <2>2. CASE NodeCrash
    <3>1. EmptyPool'
      BY <2>2 DEF NodeCrash, EmptyPool
    <3>2. QED
      BY <3>1 DEF EmptyPool, PoolIsConsistent
  <2>3. ASSUME NEW t \in DOMAIN TxData, HandleTx(t) PROVE PoolIsConsistent'
    BY <1>2, <2>3, AddStep DEF HandleTx, CheckTx
  <2>4. ASSUME NEW b \in Block, HandleBlock(b) PROVE PoolIsConsistent'
    BY <1>2, <2>4, RemoveStep DEF HandleBlock, RemoveSpent
  <2>5. ASSUME NEW b \in Block, MineBlock(b) PROVE PoolIsConsistent'
    BY <2>4, <2>5 DEF MineBlock
  <2>6. CASE UNCHANGED nodeVars
    BY <1>2, <2>6 DEF nodeVars, poolVars, PoolIsConsistent
  <2>7. QED
    BY <1>2, <2>1, <2>2, <2>3, <2>4, <2>5, <2>6 DEF NodeNext
<1>3. QED
  BY <1>1, <1>2, PTL DEF NodeSpec, NodeInit

-----------------------------------------------------------------------------
(* The chain inside a node *)

\* Whatever the mempool and the miner do, the node's chain behaves as module
\* Chain says: every step of the node is a step of the chain or none.
THEOREM NodeImplementsChain == NodeSpec => Spec
<1>1. NodeInit => Init
  BY DEF NodeInit
<1>2. ASSUME [NodeNext]_nodeVars PROVE [Next]_vars
  <2>1. CASE NodeStart
    BY <2>1 DEF NodeStart, Next
  <2>2. CASE NodeCrash
    BY <2>2 DEF NodeCrash, Next
  <2>3. ASSUME NEW t \in DOMAIN TxData, HandleTx(t) PROVE [Next]_vars
    BY <2>3 DEF HandleTx
  <2>4. ASSUME NEW b \in Block, HandleBlock(b) \/ MineBlock(b)
        PROVE  [Next]_vars
    BY <2>4 DEF HandleBlock, MineBlock, TryAcceptBlock, Next
  <2>5. CASE UNCHANGED nodeVars
    BY <2>5 DEF nodeVars
  <2>6. QED
    BY <1>2, <2>1, <2>2, <2>3, <2>4, <2>5 DEF NodeNext
<1>3. QED
  BY <1>1, <1>2, PTL DEF NodeSpec, Spec

\* The coins a node checks transactions and builds candidate blocks against
\* are those of its active chain.
THEOREM NodeCoinsSound ==
  ASSUME "torn_state" \notin Faults
  PROVE  NodeSpec => []ViewIsReplay
BY NodeImplementsChain, CoinsSound, PTL
=============================================================================
