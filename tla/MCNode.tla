------------------------------- MODULE MCNode -------------------------------
(***************************************************************************)
(* A block tree for module Node.  A block is the path of payloads that     *)
(* leads to it from genesis; a payload says whether the block is hard and  *)
(* which transactions it confirms.                                         *)
(***************************************************************************)
EXTENDS Node

CONSTANT zero

Easy == [size |-> 3, word |-> 31]
Hard == [size |-> 3, word |-> 7]

MCParams ==
  [powNoRetarget |-> TRUE, targetBlockTime |-> 4, difficultyInterval |-> 2,
   maxAdjustment |-> 4, minDifficultyBits |-> Easy,
   initialBlockReward |-> 8, halvingInterval |-> 2, coinbaseMaturity |-> 2,
   maxMoney |-> 100, maxTxCount |-> 10, minRelayFee |-> 1]

Cb(h, fees) == <<"cb", h, fees>>
Tx(n) == <<"tx", n, 0>>

\* Transactions 1 and 2 spend the genesis coin; 3, 4 and 5 the outputs of 1.
split == Tx(1)
rival == Tx(2)
Onward == {Tx(3), Tx(4), Tx(5)}

Pays(from, n, signer, values) ==
  [vin |-> <<[prevout |-> <<from, n>>, signer |-> signer]>>,
   vout |-> [j \in DOMAIN values |-> [value |-> values[j], script |-> "u"]],
   scriptSize |-> 2]

CbData(h, fees) ==
  [vin |-> <<[prevout |-> <<zero, NullIndex>>, signer |-> h]>>,
   vout |-> <<[value |-> (IF h < 2 THEN 8 ELSE 4) + fees, script |-> "m"]>>,
   scriptSize |-> 16]

MCTxData ==
  [t \in {Cb(h, fees) : h \in 0..3, fees \in 0..2} \cup {Tx(n) : n \in 1..5} |->
     CASE t[1] = "cb" -> CbData(t[2], t[3])
       [] t = split   -> Pays(Cb(0, 0), 0, "m", <<3, 2, 2>>)
       [] t = rival   -> Pays(Cb(0, 0), 0, "m", <<6>>)
       [] t = Tx(3)   -> Pays(split, 0, "u", <<2>>)
       [] t = Tx(4)   -> Pays(split, 1, "u", <<1>>)
       [] t = Tx(5)   -> Pays(split, 2, "u", <<1>>)]

FeeOf(t) == IF t = rival THEN 2 ELSE 1

Payload(hard, txs) == [hard |-> hard, txs |-> txs]
e == Payload(FALSE, {})
h == Payload(TRUE, {})
p == Payload(FALSE, {split})

MCGenesis == <<>>

MCBlock ==
  {<<>>, <<e>>, <<h>>, <<h, h>>, <<h, e>>, <<e, e>>, <<e, p>>, <<e, h>>,
   <<e, Payload(TRUE, {split})>>, <<e, e, p>>,
   <<e, e, Payload(FALSE, {rival})>>}
  \cup {<<e, p, Payload(FALSE, txs)>> : txs \in kSubset(2, Onward)}

MCHeader ==
  [b \in MCBlock |->
     [prev |-> IF b = <<>> THEN zero ELSE Front(b),
      bits |-> IF b # <<>> /\ Last(b).hard THEN Hard ELSE Easy,
      time |-> Params.targetBlockTime * Len(b), pow |-> 0, merkleOk |-> TRUE]]

TxsOf(b) == IF b = <<>> THEN {} ELSE Last(b).txs

MCVtx ==
  [b \in MCBlock |->
     <<Cb(Len(b), MapThenSumSet(FeeOf, TxsOf(b)))>> \o SetToSeq(TxsOf(b))]
=============================================================================
