------------------------------ MODULE MCChain ------------------------------
(***************************************************************************)
(* A small block tree for module Chain:                                    *)
(*                                                                         *)
(*   g -- a1 -- a2 -- a3       a1, a2, a3 easy                             *)
(*   |     |`-- d2             d2 medium, heavier than a2                  *)
(*   |     |`-- e2             e2 easy, as heavy as a2                     *)
(*   |      `-- x2             x2 spends a coinbase too early              *)
(*   |`-- b1 -- b2             b1, b2 hard                                 *)
(*    `-- c1                   c1 firm: outweighs a1, a2, a3, but not b1   *)
(***************************************************************************)
EXTENDS ChainProps

CONSTANTS g, a1, a2, a3, b1, b2, c1, d2, e2, x2, zero

MCBlock == {g, a1, a2, a3, b1, b2, c1, d2, x2}

AllBlocks == MCBlock \cup {e2}

Easy == [size |-> 3, word |-> 31]
Medium == [size |-> 3, word |-> 15]
Firm == [size |-> 3, word |-> 9]
Hard == [size |-> 3, word |-> 7]

MCParams ==
  [powNoRetarget |-> TRUE, targetBlockTime |-> 4, difficultyInterval |-> 2,
   maxAdjustment |-> 4, minDifficultyBits |-> Easy,
   initialBlockReward |-> 8, halvingInterval |-> 2, coinbaseMaturity |-> 2,
   maxMoney |-> 100, maxTxCount |-> 10, minRelayFee |-> 1]

Hdr(prev, bits, time) ==
  [prev |-> prev, bits |-> bits, time |-> time, pow |-> 0, merkleOk |-> TRUE]

AllHeaders ==
  [b \in AllBlocks |->
     CASE b = g  -> Hdr(zero, Easy, 0)
       [] b = a1 -> Hdr(g, Easy, 1)
       [] b = a2 -> Hdr(a1, Easy, 2)
       [] b = a3 -> Hdr(a2, Easy, 3)
       [] b = b1 -> Hdr(g, Hard, 2)
       [] b = b2 -> Hdr(b1, Hard, 4)
       [] b = c1 -> Hdr(g, Firm, 3)
       [] b = d2 -> Hdr(a1, Medium, 4)
       [] b = e2 -> Hdr(a1, Easy, 3)
       [] b = x2 -> Hdr(a1, Easy, 5)]

MCHeader == [b \in MCBlock |-> AllHeaders[b]]

\* A chain and one sibling of the same difficulty.
SiblingBlock == {g, a1, a2, a3, e2}
SiblingHeader == [b \in SiblingBlock |-> AllHeaders[b]]

Coinbase(value) ==
  [vin |-> <<[prevout |-> <<zero, -1>>, signer |-> "none"]>>,
   vout |-> <<[value |-> value, script |-> "m"]>>, scriptSize |-> 4]

Spend(from, signer, value) ==
  [vin |-> <<[prevout |-> <<from, 0>>, signer |-> signer]>>,
   vout |-> <<[value |-> value, script |-> "u"]>>, scriptSize |-> 2]

\* "pay" and "pay2" spend the genesis coin, the one leaving a fee of 1;
\* "early" spends the coinbase of a1.
MCTxData ==
  [cg |-> Coinbase(8), ca1 |-> Coinbase(4), ca2 |-> Coinbase(5),
   cb1 |-> Coinbase(8), cb2 |-> Coinbase(4), cc1 |-> Coinbase(7),
   cd2 |-> Coinbase(4), cx2 |-> Coinbase(4),
   pay |-> Spend("cg", "m", 7), pay2 |-> Spend("cg", "m", 8),
   onward |-> Spend("pay", "u", 7), early |-> Spend("ca1", "m", 4)]

\* a3 carries the coinbase of a1 again: its coin replaces the older one.
MCVtx ==
  [b \in AllBlocks |->
     CASE b = g  -> <<"cg">>
       [] b = a1 -> <<"ca1">>
       [] b = a2 -> <<"ca2", "pay", "onward">>
       [] b = a3 -> <<"ca1">>
       [] b = b1 -> <<"cb1">>
       [] b = b2 -> <<"cb2", "pay2">>
       [] b = c1 -> <<"cc1">>
       [] b = d2 -> <<"cd2", "pay2">>
       [] b = e2 -> <<"cd2", "pay2">>
       [] b = x2 -> <<"cx2", "early">>]
=============================================================================
