------------------------------- MODULE Wallet -------------------------------
(***************************************************************************)
(* An unlocked wallet on its node: balances, coin selection, the payments  *)
(* of sendtoaddress and the history (wallet.cpp, recovery.cpp, signer.cpp, *)
(* and the places of cdxd.cpp that use them).  All of it runs under the    *)
(* chain mutex.                                                            *)
(*                                                                         *)
(* Keys are numbers, given out one after the other; key 0 stands for all   *)
(* that are not the wallet's.  A transaction is its inputs and outputs,    *)
(* and an outpoint is a transaction and a position.  The chain is the      *)
(* sequence of its blocks, and what they did to the coins.  Module Node    *)
(* has the rules for blocks; here any block is good whose transactions     *)
(* come from the pool.                                                     *)
(***************************************************************************)
EXTENDS Integers, Sequences, SequencesExt, FiniteSetsExt

CONSTANTS
  Amount,       \* what sendtoaddress is called with
  Subsidy,
  Maturity,     \* COINBASE_MATURITY
  Fee,          \* EstimateFee of the size CreateTransaction assumes
  Dust,         \* change below it is not made, 1000
  MinRelayFee,
  MaxHeight,    \* bound on the height
  MaxKey,       \* bound on the keys
  MaxStarts,    \* bound on the restarts
  MaxReorgs     \* bound on the blocks that displace others

ASSUME WalletAssumption ==
  /\ Amount \subseteq Nat \ {0}
  /\ {Subsidy, Maturity, Fee, Dust, MinRelayFee, MaxHeight, MaxKey, MaxStarts,
      MaxReorgs} \subseteq Nat
  /\ 0 < MinRelayFee /\ MinRelayFee <= Fee

VARIABLES
  chain,     \* the active chain: each block the sequence of its transactions
  pool,      \* mempool
  lastKey,   \* the keys 1..lastKey are the wallet's
  answers,   \* the transactions whose txid sendtoaddress has returned
  history,   \* CWallet::history
  starts,    \* how often the node was started again
  reorgs     \* how often blocks were displaced

walletVars == <<chain, pool, lastKey, answers, history, starts, reorgs>>

Key == 1..lastKey
Height == Len(chain)

-----------------------------------------------------------------------------
(* Coins *)

\* The coinbase of a block; its height, and a tag, tell it from others.
Coinbase(key, fees, height, tag) ==
  [in |-> {}, out |-> <<[value |-> Subsidy + fees, key |-> key]>>,
   id |-> <<height, tag>>]

IsCoinBase(tx) == tx.in = {}

\* The coins after transaction tx in a block at height h.
Apply(coins, tx, h) ==
  LET kept == DOMAIN coins \ tx.in
      made == {<<tx, j>> : j \in DOMAIN tx.out}
  IN  [o \in kept \cup made |->
         IF o \in made
         THEN [value |-> tx.out[o[2]].value, key |-> tx.out[o[2]].key,
               height |-> h, isCoinbase |-> IsCoinBase(tx)]
         ELSE coins[o]]

\* The view of the chain.
View == FoldLeft(LAMBDA coins, h : FoldLeft(LAMBDA cs, tx : Apply(cs, tx, h),
                                            coins, chain[h]),
                 <<>>, [h \in 1..Height |-> h])

IsSpendable(coin) == coin.isCoinbase => Height - coin.height >= Maturity

Value(coins, outs) == MapThenSumSet(LAMBDA o : coins[o].value, outs)

-----------------------------------------------------------------------------
(* Balance and selection *)

Own(coins) == {o \in DOMAIN coins : coins[o].key \in Key}

\* Mutant: mature one block early.
BalanceEarly(coins) ==
  LET immature == {o \in Own(coins) :
                     /\ coins[o].isCoinbase
                     /\ Height - coins[o].height < Maturity - 1}
      confirmed == {o \in Own(coins) \ immature : coins[o].height <= Height}
  IN  [confirmed |-> Value(coins, confirmed), immature |-> Value(coins, immature)]

\* GetBalance: what getbalance reports as spendable, and the rest.
Balance(coins) ==
  LET immature == {o \in Own(coins) :
                     /\ coins[o].isCoinbase
                     /\ Height - coins[o].height < Maturity}
      confirmed == {o \in Own(coins) \ immature : coins[o].height <= Height}
  IN  [confirmed |-> Value(coins, confirmed), immature |-> Value(coins, immature)]

\* The selections SelectCoins may return: coins in ascending order of value,
\* equal ones in any order, until the amount is reached.
Selections(coins, needed) ==
  LET mine == {o \in Own(coins) : IsSpendable(coins[o])}
  IN  {sel \in SUBSET mine :
         /\ Value(coins, sel) >= needed
         /\ \E last \in sel :
              /\ Value(coins, sel \ {last}) < needed
              /\ \A o \in sel : coins[o].value <= coins[last].value
              /\ \A o \in mine \ sel : coins[o].value >= coins[last].value}

\* The transaction CreateTransaction builds; its inputs are signed with the
\* keys that own them.
MakeTx(coins, sel, amount) ==
  LET change == Value(coins, sel) - (amount + Fee)
  IN  [in |-> sel, id |-> <<>>,
       out |-> <<[value |-> amount, key |-> 0]>>
               \o IF change < Dust THEN <<>>
                  ELSE <<[value |-> change, key |-> lastKey + 1]>>]

OutSum(tx) == FoldLeft(LAMBDA s, out : s + out.value, 0, tx.out)
TxFee(coins, tx) == Value(coins, tx.in) - OutSum(tx)

\* ValidateTransaction, for a transaction that is signed.
ValidateTransaction(coins, tx) ==
  /\ tx.in \subseteq DOMAIN coins /\ tx.in # {}
  /\ \A o \in tx.in : IsSpendable(coins[o])
  /\ TxFee(coins, tx) >= 0

\* Mutant: the pool is not asked.
CheckTxAlone(coins, tx) ==
  ValidateTransaction(coins, tx) /\ TxFee(coins, tx) >= MinRelayFee

\* CTxMemPool::CheckTx
CheckTx(coins, tx) ==
  /\ ValidateTransaction(coins, tx)
  /\ \A other \in pool : other.in \cap tx.in = {}
  /\ TxFee(coins, tx) >= MinRelayFee

-----------------------------------------------------------------------------
(* The node's operations *)

\* GenerateNewAddress
GetNewAddress ==
  /\ lastKey < MaxKey
  /\ lastKey' = lastKey + 1
  /\ UNCHANGED <<chain, pool, answers, history, starts, reorgs>>

\* sendtoaddress with funds: the txid is returned whether or not the pool
\* takes the transaction, and the key of the change stays.
SendToAddress(amount) ==
  LET coins == View
  IN  \E sel \in Selections(coins, amount + Fee) :
        LET tx == MakeTx(coins, sel, amount)
        IN  /\ lastKey + Len(tx.out) - 1 <= MaxKey
            /\ lastKey' = lastKey + Len(tx.out) - 1
            /\ ValidateTransaction(coins, tx)
            /\ pool' = IF CheckTx(coins, tx) THEN pool \cup {tx} ELSE pool
            /\ answers' = answers \cup {tx}
            /\ UNCHANGED <<chain, history, starts, reorgs>>

\* RemoveSpent, with the coins and the height after a block.
Cleaned(txs) ==
  LET coins == View' IN
  {tx \in txs : \A o \in tx.in : /\ o \in DOMAIN coins
                                 /\ coins[o].isCoinbase =>
                                      Height' - coins[o].height >= Maturity}

\* The next blocks whose coinbase pays key, with at most one transaction of
\* the pool.
NewBlocks(key) ==
  {<<Coinbase(key, 0, Height + 1, 0)>>}
    \cup {<<Coinbase(key, TxFee(View, tx), Height + 1, 0), tx>> : tx \in pool}

Extend(block) ==
  /\ Height < MaxHeight
  /\ chain' = Append(chain, block)
  /\ pool' = Cleaned(pool)

\* The miner finds a block; it pays an address of the wallet.
MineBlock ==
  /\ \E block \in NewBlocks(1) : Extend(block)
  /\ UNCHANGED <<lastKey, answers, history, starts, reorgs>>

\* AddRecord for all transactions of the block, whoever they pay.
Recorded(block, h) == {[tx |-> block[i], height |-> h] : i \in DOMAIN block}

\* HandleBlock of a block that extends the chain.
HandleBlock ==
  /\ \E block \in NewBlocks(0) :
       /\ Extend(block)
       /\ history' = history \cup Recorded(block, Height + 1)
  /\ UNCHANGED <<lastKey, answers, starts, reorgs>>

\* HandleBlock of one that displaces those above height h.
HandleBlockReorg(h) ==
  LET block == <<Coinbase(0, 0, h + 1, reorgs + 1)>>
  IN  /\ h < Height
      /\ reorgs < MaxReorgs
      /\ reorgs' = reorgs + 1
      /\ chain' = Append(SubSeq(chain, 1, h), block)
      /\ pool' = Cleaned(pool)
      /\ history' = history \cup Recorded(block, h + 1)
      /\ UNCHANGED <<lastKey, answers, starts>>

\* WalletRescan: the transactions of the chain with an output of the wallet.
Rescan ==
  UNION {{r \in Recorded(chain[h], h) :
            \E i \in DOMAIN r.tx.out : r.tx.out[i].key \in Key} :
         h \in 1..Height}

\* Mutant: the history survives in memory.
RestartKeeps ==
  /\ starts < MaxStarts
  /\ starts' = starts + 1
  /\ pool' = {}
  /\ history' = history \cup {[r EXCEPT !.height = @ + 1] : r \in Rescan}
  /\ UNCHANGED <<chain, lastKey, answers, reorgs>>

\* The node starts again, with or without -rescan.  The pool and the history
\* are in memory only; the keys were saved.
Restart ==
  /\ starts < MaxStarts
  /\ starts' = starts + 1
  /\ pool' = {}
  /\ history' \in {{}, Rescan}
  /\ UNCHANGED <<chain, lastKey, answers, reorgs>>

WalletInit ==
  /\ chain = <<>> /\ pool = {} /\ lastKey = 1
  /\ answers = {} /\ history = {} /\ starts = 0 /\ reorgs = 0

WalletNext ==
  \/ GetNewAddress \/ MineBlock \/ HandleBlock \/ Restart
  \/ \E amount \in Amount : SendToAddress(amount)
  \/ \E h \in 0..MaxHeight : HandleBlockReorg(h)

-----------------------------------------------------------------------------
(* What is wanted of it *)

\* A payment the balance covers can be made: SelectCoins finds coins exactly
\* when getbalance promises them, no later step of CreateTransaction refuses
\* what it chose, and the payment costs the estimated fee or, for want of
\* change, less than the dust limit more.
FundsSuffice ==
  LET coins == View
  IN  \A amount \in Amount :
        LET sels == Selections(coins, amount + Fee)
        IN  /\ (Balance(coins).confirmed >= amount + Fee) <=> sels # {}
            /\ \A sel \in sels :
                 LET tx == MakeTx(coins, sel, amount)
                 IN  /\ ValidateTransaction(coins, tx)
                     /\ TxFee(coins, tx) \in Fee..Fee + Dust - 1

\* No payment of the wallet in the pool is in the way of another, and each
\* can be mined as things are.
PaymentsCompatible ==
  LET coins == View
  IN  /\ \A tx \in pool : ValidateTransaction(coins, tx)
      /\ \A tx, other \in pool : tx # other => tx.in \cap other.in = {}

\* A payment whose txid was returned is in the pool, or in the chain, unless
\* the node was started again ("masuk mempool", sendtoaddress).
\* The code does not keep this (README, "Deviations").
AnswerIsPooled ==
  starts = 0 => \A tx \in answers :
                  tx \in pool \/ \E h \in 1..Height : Contains(chain[h], tx)

\* A record with a height is of a confirmed transaction ("-1 = belum
\* dikonfirmasi (mempool)", WalletTxRecord), after rescans too and as long as
\* no block has been displaced.
RecordConfirmed ==
  reorgs = 0 => \A r \in history : r.height <= Height /\ Contains(chain[r.height], r.tx)
=============================================================================
