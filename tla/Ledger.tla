-------------------------------- MODULE Ledger --------------------------------
(***************************************************************************)
(* What a node promises of its ledger, in terms of blocks and coins alone: *)
(* no files, no index, no heights kept beside the list they belong to.     *)
(* The ledger grows by a block, gives up its end for one other block, is   *)
(* lost when the process dies and comes back as it was last made durable.  *)
(* Module Chain implements this specification.                             *)
(***************************************************************************)
EXTENDS Naturals, Sequences

CONSTANTS
  Block,        \* the blocks
  Genesis,      \* the first block of every ledger
  NoCoins,      \* the coins of an empty ledger
  Valid(_),     \* the lists of blocks that break no rule
  CoinsOf(_)    \* the coins a list of blocks leaves

VARIABLES
  blocks,       \* the ledger; empty while no process runs
  coins,        \* the coins of the ledger
  durable       \* the ledger a restart comes back with

vars == <<blocks, coins, durable>>

Init ==
  /\ blocks = <<>>
  /\ coins = NoCoins
  /\ durable = <<>>

\* A process starts: with the durable ledger, or with the first block.
Begin ==
  /\ blocks = <<>>
  /\ blocks' = IF durable = <<>> THEN <<Genesis>> ELSE durable
  /\ coins' = CoinsOf(blocks')
  /\ durable' = blocks'

\* A block is added, and is durable with everything before it.
Grow(b) ==
  /\ blocks # <<>>
  /\ blocks' = Append(blocks, b)
  /\ Valid(blocks')
  /\ coins' = CoinsOf(blocks')
  /\ durable' = blocks'

\* The blocks after the n-th give way to b.  A restart still comes back with
\* the ledger of the last Begin or Grow.
Switch(b, n) ==
  /\ blocks' = Append(SubSeq(blocks, 1, n), b)
  /\ Valid(blocks')
  /\ coins' = CoinsOf(blocks')
  /\ UNCHANGED durable

\* The process dies.
Die ==
  /\ blocks' = <<>>
  /\ coins' = NoCoins
  /\ UNCHANGED durable

Next ==
  \/ Begin
  \/ Die
  \/ \E b \in Block : Grow(b) \/ \E n \in 1 .. Len(blocks) - 1 : Switch(b, n)

Spec == Init /\ [][Next]_vars
=============================================================================
