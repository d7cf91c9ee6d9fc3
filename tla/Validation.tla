----------------------------- MODULE Validation -----------------------------
(***************************************************************************)
(* Transactions, the set of unspent outputs (CCoinsView) and the checks of *)
(* consensus/validation.cpp.  A block is identified with its hash and a    *)
(* transaction with its txid; Header, Vtx and TxData give their contents.  *)
(*                                                                         *)
(* A signature is abstracted to the key that made it and a script to the   *)
(* key it asks for: VerifyScript succeeds when the two are equal.  The     *)
(* signature hash covers the whole transaction, and a transaction here is  *)
(* immutable, so a signature is never valid for another transaction.       *)
(***************************************************************************)
EXTENDS Consensus, SequencesExt

CONSTANTS
  Block,      \* the block hashes
  Genesis,    \* the hash of the network's genesis block
  NoBlock,    \* the zero hash
  Header,     \* Header[b]: CBlockHeader, with the PoW value of the hash
  Vtx,        \* Vtx[b]: the txids of the block, in order
  TxData      \* TxData[t]: vin, vout and the size of a coinbase's script

HeaderType ==
  [prev : Block \cup {NoBlock}, bits : [size : Nat, word : Nat],
   time : Nat, pow : Nat, merkleOk : BOOLEAN]

\* Hashes identify blocks, and only Genesis is the network's genesis.
ASSUME BlockAssumption ==
  /\ Genesis \in Block /\ NoBlock \notin Block
  /\ Header \in [Block -> HeaderType]
  /\ Header[Genesis].prev = NoBlock

-----------------------------------------------------------------------------
(* transaction.h, utxo-set.h *)

\* The index 0xffffffff of a coinbase's null outpoint.
NullIndex == -1

IsCoinBase(tx) == Len(tx.vin) = 1 /\ tx.vin[1].prevout = <<NoBlock, NullIndex>>

\* The empty CCoinsView: a view maps outpoints to coins.
NoCoins == <<>>

IsSpendable(coin, height) ==
  coin.isCoinbase => height - coin.height >= Params.coinbaseMaturity

AddCoins(view, coins) ==
  [o \in DOMAIN view \cup DOMAIN coins |->
     IF o \in DOMAIN coins THEN coins[o] ELSE view[o]]

\* Mutant: inputs are checked but not removed.
SpendCoinsNot(view, outs) == view

SpendCoins(view, outs) == [o \in DOMAIN view \ outs |-> view[o]]

\* CCoinsView::TotalValue
TotalValue(view) == MapThenSumSet(LAMBDA o : view[o].value, DOMAIN view)

-----------------------------------------------------------------------------
(* validation.cpp *)

Prevouts(tx) == {tx.vin[i].prevout : i \in DOMAIN tx.vin}

OutSum(tx) == MapThenSumSet(LAMBDA j : tx.vout[j].value, DOMAIN tx.vout)

InSum(tx, view) ==
  MapThenSumSet(LAMBDA i : view[tx.vin[i].prevout].value, DOMAIN tx.vin)

CheckTransaction(tx) ==
  /\ Len(tx.vin) \in 1..Params.maxTxCount
  /\ Len(tx.vout) \in 1..Params.maxTxCount
  /\ \A i, j \in DOMAIN tx.vin :
       tx.vin[i].prevout = tx.vin[j].prevout => i = j
  /\ \A j \in DOMAIN tx.vout : tx.vout[j].value \in 0..Params.maxMoney
  /\ OutSum(tx) <= Params.maxMoney
  /\ IF IsCoinBase(tx)
     THEN tx.scriptSize \in 2..100
     ELSE \A i \in DOMAIN tx.vin : tx.vin[i].prevout[1] # NoBlock

\* SignatureHash and VerifyScript.
VerifyScript(in, coin) == in.signer = coin.script

CheckTxInputs(tx, view, height) ==
  /\ ~IsCoinBase(tx)
  /\ \A i \in DOMAIN tx.vin :
       /\ tx.vin[i].prevout \in DOMAIN view
       /\ IsSpendable(view[tx.vin[i].prevout], height)
       /\ VerifyScript(tx.vin[i], view[tx.vin[i].prevout])
  /\ InSum(tx, view) \in OutSum(tx)..Params.maxMoney

TxFee(tx, view) == InSum(tx, view) - OutSum(tx)

\* prev is NoBlock for the genesis block, as the null pointer in the code.
CheckBlockHeader(b, prev) ==
  /\ CheckProofOfWork(Header[b].pow, Header[b].bits)
  /\ IF prev = NoBlock
     THEN b = Genesis
     ELSE Header[b].prev = prev /\ Header[b].time > Header[prev].time

\* The coins a non-coinbase transaction creates.
NewCoins(t, height) ==
  [o \in {<<t, j - 1>> : j \in DOMAIN TxData[t].vout} |->
     [value |-> TxData[t].vout[o[2] + 1].value,
      script |-> TxData[t].vout[o[2] + 1].script,
      height |-> height, isCoinbase |-> FALSE]]

\* One coin for the whole coinbase: the sum of its outputs, under the script
\* of the first.
CoinbaseCoin(t, height) ==
  [o \in {<<t, 0>>} |->
     [value |-> OutSum(TxData[t]), script |-> TxData[t].vout[1].script,
      height |-> height, isCoinbase |-> TRUE]]

\* Pass 1 of CheckBlock, for one transaction.
ConnectTx(acc, t, height) ==
  LET tx == TxData[t]
  IN  IF acc.ok /\ CheckTransaction(tx) /\ CheckTxInputs(tx, acc.view, height)
      THEN [ok |-> TRUE, fees |-> acc.fees + TxFee(tx, acc.view),
            view |-> AddCoins(SpendCoins(acc.view, Prevouts(tx)),
                              NewCoins(t, height))]
      ELSE [acc EXCEPT !.ok = FALSE]

\* The structural checks of CheckBlock.
BlockStructureOk(b) ==
  /\ Vtx[b] # <<>>
  /\ \A i \in DOMAIN Vtx[b] : IsCoinBase(TxData[Vtx[b][i]]) <=> i = 1
  /\ Len(Vtx[b]) <= Params.maxTxCount
  /\ Header[b].merkleOk

\* CheckBlock(b, height, view): the verdict and viewOut.
CheckBlock(b, height, view) ==
  LET rest == FoldLeft(LAMBDA acc, t : ConnectTx(acc, t, height),
                       [ok |-> TRUE, view |-> view, fees |-> 0], Tail(Vtx[b]))
      coinbase == TxData[Vtx[b][1]]
  IN  IF /\ BlockStructureOk(b)
         /\ rest.ok
         /\ CheckTransaction(coinbase)
         /\ IsCoinbaseValueValid(OutSum(coinbase), GetBlockSubsidy(height),
                                 rest.fees)
      THEN [ok |-> TRUE,
            view |-> AddCoins(rest.view, CoinbaseCoin(Vtx[b][1], height))]
      ELSE [ok |-> FALSE, view |-> view]
=============================================================================
