-------------------------------- MODULE Node --------------------------------
(***************************************************************************)
(* One node of cdxd.cpp: the chain, the mempool, and the threads that use  *)
(* them under the chain mutex, that is one at a time: message handlers,    *)
(* RPC methods and the miner.                                              *)
(***************************************************************************)
EXTENDS Chain, Mempool

CONSTANTS
  MinerKey,          \* the script of the mining address
  MaxCandidateTxs    \* CreateCandidateBlock stops at this many transactions

nodeVars == <<vars, poolVars>>

-----------------------------------------------------------------------------
(* Transactions: HandleTx, sendrawtransaction, sendtoaddress *)

\* The transaction enters if CheckTx passes, at the height of the tip.
HandleTx(t) ==
  /\ running
  /\ ~Exists(t)
  /\ CheckTx(t, view, height)
  /\ AddUnchecked(t, TxFee(TxData[t], view), height)
  /\ UNCHANGED vars

-----------------------------------------------------------------------------
(* Blocks: HandleBlock *)

\* Mutant: the pool is cleaned when a block extends the tip only.
HandleBlockCleanOnExtend(b) ==
  \/ Extend(b) /\ RemoveSpent(view', height')
  \/ Reorganize(b) /\ UNCHANGED poolVars

\* A block that TryAcceptBlock takes; one it rejects changes nothing.
HandleBlock(b) ==
  /\ TryAcceptBlock(b)
  /\ RemoveSpent(view', height')

-----------------------------------------------------------------------------
(* The miner: CreateCandidateBlock, RunMinerLoop *)

\* The firstTime RunMinerLoop passes: unlike AcceptBlock it checks that the
\* height is there.
MinerFirstTime ==
  LET start == ((index[tipHash].height + 1) \div Params.difficultyInterval)
                 * Params.difficultyInterval
  IN  IF /\ start > 0 /\ start + 1 \in DOMAIN byHeight
         /\ byHeight[start + 1] \in stored
      THEN Header[byHeight[start + 1]].time
      ELSE Header[tipHash].time

\* Mutant: the miner always takes the minimum difficulty.
MinerBitsMin == Params.minDifficultyBits

MinerBits ==
  GetNextWorkRequired(Header[tipHash].time, index[tipHash].height,
                      Header[tipHash].bits, MinerFirstTime)

\* The transactions of the pool that a block at height h may include.
Selectable(h) == {t \in DOMAIN mapTx : CheckTxInputs(TxData[t], view, h)}

\* The sets CreateCandidateBlock may choose.  It goes by txid, which is as
\* good as any order, and stops at the limit.
Selections(h) ==
  kSubset(Min({MaxCandidateTxs, Cardinality(Selectable(h))}), Selectable(h))

Fees(txs) == MapThenSumSet(LAMBDA t : TxFee(TxData[t], view), txs)

\* The miner's coinbase: the height is in its script.
IsMinerCoinbase(t, h, fees) ==
  /\ IsCoinBase(TxData[t])
  /\ TxData[t].vin[1].signer = h
  /\ TxData[t].vout = <<[value |-> GetBlockSubsidy(h) + fees,
                         script |-> MinerKey]>>

\* Is b what the miner may find on the tip?  Its clock is past the tip's.
IsCandidateBlock(b) ==
  LET h == index[tipHash].height + 1
      txs == Range(Tail(Vtx[b]))
  IN  /\ Prev(b) = tipHash
      /\ Header[b].bits = MinerBits
      /\ Header[b].time > Header[tipHash].time
      /\ Header[b].pow <= TargetFromBits(MinerBits)
      /\ Header[b].merkleOk
      /\ txs \in Selections(h)
      /\ Len(Vtx[b]) = Cardinality(txs) + 1
      /\ IsMinerCoinbase(Vtx[b][1], h, Fees(txs))

\* One round of RunMinerLoop that finds a block.  The chain mutex is held
\* from the look at the tip to the acceptance.
MineBlock(b) ==
  /\ running
  /\ tipHash \in DOMAIN index
  /\ IsCandidateBlock(b)
  /\ HandleBlock(b)

-----------------------------------------------------------------------------
(* Starting and dying: the mempool is in memory only.  Torn writes are the  *)
(* business of module Chain: with no Faults CrashInReorganize never happens. *)

NodeStart == Start /\ UNCHANGED poolVars

NodeCrash ==
  /\ \/ Crash
     \/ CrashInStart
     \/ \E b \in Block : CrashInExtend(b)
  /\ mapTx' = <<>>
  /\ mapPrevOut' = <<>>

NodeInit == Init /\ EmptyPool

NodeNext ==
  \/ NodeStart
  \/ NodeCrash
  \/ \E t \in DOMAIN TxData : HandleTx(t)
  \/ \E b \in Block : HandleBlock(b) \/ MineBlock(b)

NodeSpec == NodeInit /\ [][NodeNext]_nodeVars

-----------------------------------------------------------------------------
(* Properties *)

\* Every transaction of the pool could be mined now: it passes the checks of
\* CheckTx against the current coins at the current height, and its recorded
\* fee is the one it pays, after any extension, reorganisation or restart.
PoolIsMineable ==
  \A t \in DOMAIN mapTx :
    /\ CheckTransaction(TxData[t])
    /\ CheckTxInputs(TxData[t], view, height)
    /\ mapTx[t].fee = TxFee(TxData[t], view)

\* A transaction of the active chain is never in the pool as well.
ConfirmedLeavePool ==
  \A i \in DOMAIN byHeight : \A j \in DOMAIN Vtx[byHeight[i]] :
    ~Exists(Vtx[byHeight[i]][j])

\* What the miner finds passes AcceptBlock: the candidate it builds from the
\* pool, the coins and the tip never turns out invalid after the work.
MinedBlockAccepted ==
  running =>
    \A b \in Block : IsCandidateBlock(b) /\ ~HaveBlock(b) => CanExtend(b)

\* "-> update UTXO -> reprocess mempool" (reorg.h): a transaction that a
\* reorganisation disconnects and that is still valid on the new chain is in
\* the pool, unless a transaction of the pool spends the same coin.
\* The code does not keep this (README, "Deviations").
ReorgKeepsTxs ==
  [][running /\ running' =>
       \A i \in DOMAIN byHeight : byHeight[i] \notin Range(byHeight') =>
         \A t \in Range(Tail(Vtx[byHeight[i]])) :
           CheckTxInputs(TxData[t], view', height') =>
             \/ t \in DOMAIN mapTx'
             \/ Prevouts(TxData[t]) \cap DOMAIN mapPrevOut' # {}]_nodeVars

\* "dibatasi MAX_ADJUSTMENT (4x)" (difficulty.h): the next block's target is
\* within the maximal adjustment of the tip's, in both directions.
\* The code does not keep this (README, "Deviations").
RetargetWithinLimit ==
  running =>
    LET old == TargetFromBits(Header[tipHash].bits)
        new == TargetFromBits(MinerBits)
    IN  /\ new <= old * Params.maxAdjustment
        /\ new * Params.maxAdjustment >= old - (old % Params.maxAdjustment)

\* "Node A, B, C harus menghasilkan hasil yang sama untuk block/tx yang sama"
\* (validation.h): the bits AcceptBlock asks of the next block follow from
\* the chain, not from what lies in memory behind byHeight.
\* The code does not keep this (README, "Deviations").
BitsAreDetermined ==
  running => \A x, y \in ExpectedBits(tipHash) : x = y
=============================================================================
