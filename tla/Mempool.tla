------------------------------ MODULE Mempool ------------------------------
(***************************************************************************)
(* CTxMemPool: the unconfirmed transactions of one node.  Its two maps are *)
(* updated one after the other, but always under the chain mutex.          *)
(***************************************************************************)
EXTENDS Validation

VARIABLES
  mapTx,        \* txid -> [fee, height]: CTxMemPoolEntry
  mapPrevOut    \* outpoint -> txid of the transaction that spends it

poolVars == <<mapTx, mapPrevOut>>

\* CTxMemPool as constructed.
EmptyPool == mapTx = <<>> /\ mapPrevOut = <<>>

Exists(t) == t \in DOMAIN mapTx

HaveOutpoint(o) == o \in DOMAIN mapPrevOut

\* CheckTx, in the order of its tests.
CheckTx(t, view, height) ==
  /\ ~IsCoinBase(TxData[t])
  /\ CheckTransaction(TxData[t])
  /\ \A o \in Prevouts(TxData[t]) : ~HaveOutpoint(o)
  /\ CheckTxInputs(TxData[t], view, height)
  /\ TxFee(TxData[t], view) >= Params.minRelayFee

\* AddUnchecked of a transaction that is not in the pool.
AddUnchecked(t, fee, height) ==
  LET inputs == Prevouts(TxData[t])
  IN  /\ mapTx' = [x \in DOMAIN mapTx \cup {t} |->
                     IF x = t THEN [fee |-> fee, height |-> height]
                     ELSE mapTx[x]]
      /\ mapPrevOut' = [o \in DOMAIN mapPrevOut \cup inputs |->
                          IF o \in inputs THEN t ELSE mapPrevOut[o]]

\* RemoveTx for each transaction of a set: an outpoint is released by the
\* transaction it is recorded for.
RemoveTxs(gone) ==
  LET released == {o \in DOMAIN mapPrevOut :
                     \E t \in gone \cap DOMAIN mapTx :
                       o \in Prevouts(TxData[t]) /\ mapPrevOut[o] = t}
  IN  /\ mapTx' = [x \in DOMAIN mapTx \ gone |-> mapTx[x]]
      /\ mapPrevOut' = [o \in DOMAIN mapPrevOut \ released |-> mapPrevOut[o]]

\* Mutant: maturity is not looked at again.
SpentMatureOnly(view, height) ==
  {t \in DOMAIN mapTx : \E o \in Prevouts(TxData[t]) : o \notin DOMAIN view}

\* The transactions RemoveSpent drops: an input is gone or not mature.
Spent(view, height) ==
  {t \in DOMAIN mapTx : \E o \in Prevouts(TxData[t]) :
     o \notin DOMAIN view \/ ~IsSpendable(view[o], height)}

RemoveSpent(view, height) == RemoveTxs(Spent(view, height))

\* The outpoints of the pool are those its transactions spend, each recorded
\* for the one transaction that spends it: no two transactions of the pool
\* compete, and RemoveTx leaves nothing behind that would refuse a later one.
PoolIsConsistent ==
  /\ DOMAIN mapPrevOut = UNION {Prevouts(TxData[t]) : t \in DOMAIN mapTx}
  /\ \A t \in DOMAIN mapTx : \A o \in Prevouts(TxData[t]) : mapPrevOut[o] = t
=============================================================================
