---------------------------- MODULE LedgerProofs ----------------------------
(***************************************************************************)
(* Module Chain implements module Ledger when no write is lost or torn.    *)
(***************************************************************************)
EXTENDS DiskProofs

\* The chains in memory and on disk break no rule.  A restart does not check
\* the chain it loads, so that this has to be carried along; and a process
\* that does not run shows an empty ledger.
LedgerInv ==
  /\ saved.byHeight # <<>> => ValidChain(saved.byHeight)
  /\ running => ValidChain(byHeight)
  /\ ~running => byHeight = <<>> /\ view = NoCoins

\* A block that passes AcceptBlock's checks on a valid chain extends it to one.
LEMMA ValidAppend ==
  ASSUME NEW s \in Seq(Block), ValidChain(s), NEW b \in Block,
         CheckBlockHeader(b, s[Len(s)]), CheckBlock(b, Len(s), Replay(s)).ok
  PROVE  ValidChain(Append(s, b))
<1> DEFINE t == Append(s, b)
<1>1. /\ t \in Seq(Block) /\ Len(t) = Len(s) + 1 /\ t[Len(s) + 1] = b
      /\ Len(s) \in Nat \ {0} /\ \A i \in 1..Len(s) : t[i] = s[i]
  BY DEF ValidChain
<1> HIDE DEF t
<1>2. \A k \in 0..Len(s) : ReplayViews(t)[k] = ReplayViews(s)[k]
  BY <1>1, ReplayPrefix
<1>3. t # <<>> /\ t[1] = Genesis
  BY <1>1 DEF ValidChain
<1>4. ASSUME NEW n \in 1..Len(t)
      PROVE  CheckBlock(t[n], n - 1, ReplayViews(t)[n - 1]).ok
  <2>1. CASE n \in 1..Len(s)
    <3>1. n - 1 \in 0..Len(s) /\ t[n] = s[n]
      BY <1>1, <2>1
    <3>2. CheckBlock(s[n], n - 1, ReplayViews(s)[n - 1]).ok
      BY <2>1 DEF ValidChain
    <3>3. QED
      BY <1>2, <3>1, <3>2
  <2>2. CASE n = Len(s) + 1
    <3>1. n - 1 = Len(s) /\ Len(s) \in 0..Len(s) /\ t[n] = b
      BY <1>1, <2>2
    <3>2. QED
      BY <1>2, <3>1 DEF Replay
  <2>3. QED
    BY <1>1, <2>1, <2>2
<1>5. ASSUME NEW n \in 2..Len(t)
      PROVE  CheckBlockHeader(t[n], t[n - 1])
  <2>1. CASE n \in 2..Len(s)
    <3>1. n \in 1..Len(s) /\ n - 1 \in 1..Len(s)
      BY <1>1, <2>1
    <3>2. t[n] = s[n] /\ t[n - 1] = s[n - 1]
      BY <1>1, <3>1
    <3>3. QED
      BY <2>1, <3>2 DEF ValidChain
  <2>2. CASE n = Len(s) + 1
    <3>1. n - 1 = Len(s) /\ Len(s) \in 1..Len(s) /\ t[n] = b
      BY <1>1, <2>2
    <3>2. QED
      BY <1>1, <3>1
  <2>3. QED
    BY <1>1, <2>1, <2>2
<1>6. QED
  BY <1>3, <1>4, <1>5 DEF ValidChain, t

\* The blocks that pass TryAcceptBlock's validation loop form a valid chain.
LEMMA ForkIsValid ==
  ASSUME NEW s \in Seq(Block), s # <<>>, ForkValid(s)
  PROVE  ValidChain(s)
<1>1. Len(s) \in Nat \ {0}
  OBVIOUS
<1>2. s[1] = Genesis
  BY <1>1 DEF ForkValid, CheckBlockHeader
<1>3. ASSUME NEW n \in 2..Len(s) PROVE CheckBlockHeader(s[n], s[n - 1])
  <2>1. n \in 1..Len(s) /\ n # 1
    BY <1>1
  <2>2. QED
    BY <2>1 DEF ForkValid
<1>4. \A n \in 1..Len(s) : CheckBlock(s[n], n - 1, ReplayViews(s)[n - 1]).ok
  BY DEF ForkValid
<1>5. QED
  BY <1>2, <1>3, <1>4 DEF ValidChain

\* So does the genesis block alone, when ApplyGenesis accepts it.
LEMMA GenesisIsValid ==
  ASSUME CheckBlock(Genesis, 0, NoCoins).ok
  PROVE  ValidChain(<<Genesis>>)
<1> DEFINE s == <<Genesis>>
<1>1. s \in Seq(Block) /\ s # <<>> /\ Len(s) = 1 /\ s[1] = Genesis
  BY BlockAssumption
<1> HIDE DEF s
<1>2. ReplayViews(s)[0] = NoCoins
  BY <1>1, ReplayUnfold
<1>3. \A n \in 1..Len(s) : n = 1 /\ n - 1 = 0
  BY <1>1
<1>4. \A n \in 2..Len(s) : FALSE
  BY <1>1
<1>5. QED
  BY <1>1, <1>2, <1>3, <1>4 DEF ValidChain, s

-----------------------------------------------------------------------------
\* What each step of Chain is to the ledger, and that it keeps the chains
\* valid.

\* A restart comes back with the chain last saved, or with genesis.
LEMMA StartBegins ==
  ASSUME Faults = {}, SafeInv, DiskInv, LedgerInv, Start
  PROVE  L!Begin /\ LedgerInv'
<1>1. ~running /\ running' = TRUE /\ byHeight = <<>>
  BY DEF Start, LedgerInv
<1>2. CASE Loadable /\ LoadSaved
  <2>1. saved.byHeight # <<>>
    BY <1>2 DEF Loadable, ReadPositions
  <2>2. byHeight' = saved.byHeight /\ view' = saved.view /\ saved' = saved
    BY <1>2 DEF LoadSaved, disk
  <2>3. saved.view = Replay(saved.byHeight)
    BY <2>1 DEF SafeInv, IsState
  <2>4. LedgerInv'
    BY <1>1, <2>1, <2>2 DEF LedgerInv
  <2>5. QED
    BY <1>1, <2>1, <2>2, <2>3, <2>4 DEF L!Begin
<1>3. CASE ~Loadable /\ ApplyGenesis
  <2>1. saved.byHeight = <<>>
    <3>1. ASSUME saved.byHeight # <<>> PROVE FALSE
      <4>1. 1 \in DOMAIN saved.byHeight
        BY <3>1 DEF SafeInv
      <4>2. QED
        BY <1>3, <4>1 DEF DiskInv, AllStored, Loadable, ReadPositions
    <3>2. QED
      BY <3>1
  <2>2. /\ CheckBlock(Genesis, 0, NoCoins).ok
        /\ byHeight' = <<Genesis>>
        /\ view' = CheckBlock(Genesis, 0, NoCoins).view
        /\ saved' = State(CheckBlock(Genesis, 0, NoCoins).view, <<Genesis>>)
    BY <1>3 DEF ApplyGenesis, GenesisInMemory, SaveChainState, SavedGenesis
  <2>3. view' = Replay(<<Genesis>>) /\ saved'.byHeight = <<Genesis>>
    BY <2>2, GenesisState DEF IsState, State
  <2>4. ValidChain(<<Genesis>>)
    BY <2>2, GenesisIsValid
  <2>5. LedgerInv'
    BY <1>1, <2>2, <2>3, <2>4 DEF LedgerInv
  <2>6. QED
    BY <1>1, <2>1, <2>2, <2>3, <2>5 DEF L!Begin
<1>4. QED
  BY <1>2, <1>3 DEF Start

\* AcceptBlock makes the ledger grow.
LEMMA ExtendGrows ==
  ASSUME Faults = {}, SafeInv, LedgerInv, NEW b \in Block, Extend(b)
  PROVE  L!Grow(b) /\ LedgerInv'
<1>1. /\ running /\ running' = running /\ CanExtend(b)
      /\ byHeight' = Append(byHeight, b) /\ view' = Extended(b).view
      /\ saved' = Extended(b) /\ Extended(b).byHeight = Append(byHeight, b)
  BY DEF Extend, Extended, SaveChainState
<1>2. /\ byHeight \in Seq(Block) /\ IsChain(byHeight) /\ ValidChain(byHeight)
      /\ height = Len(byHeight) - 1 /\ tipHash = byHeight[Len(byHeight)]
      /\ view = Replay(byHeight) /\ ReadableHeights
  BY <1>1 DEF SafeInv, IsState, LedgerInv
<1>3. /\ Prev(b) = tipHash /\ tipHash \in DOMAIN index /\ tipHash \in stored
      /\ CheckBlockHeader(b, tipHash)
      /\ CheckBlock(b, index[tipHash].height + 1, view).ok
  BY <1>1 DEF CanExtend, IsCandidate, AcceptChecks
<1>4. Len(byHeight) \in Nat /\ Len(byHeight) \in DOMAIN byHeight
  BY <1>2 DEF IsChain
<1>5. index[tipHash].height = Len(byHeight) - 1
  BY <1>2, <1>3, <1>4 DEF ReadableHeights
<1>6. index[tipHash].height + 1 = Len(byHeight)
  BY <1>4, <1>5
<1>7. ValidChain(Append(byHeight, b))
  BY <1>2, <1>3, <1>6, ValidAppend
<1>8. Extended(b).view = Replay(Extended(b).byHeight)
  BY <1>1, ExtendedState DEF IsState
<1>9. byHeight # <<>>
  BY <1>2 DEF IsChain
<1>10. LedgerInv'
  BY <1>1, <1>7 DEF LedgerInv
<1>11. QED
  BY <1>1, <1>7, <1>8, <1>9, <1>10 DEF L!Grow

\* A reorganisation replaces the end of the ledger: it keeps genesis, which the
\* index holds, and gives up the tip, which is not the new block's parent.
LEMMA ReorganizeSwitches ==
  ASSUME Faults = {}, SafeInv, DiskInv, LedgerInv, NEW b \in Block, Reorganize(b)
  PROVE  /\ \E n \in 1..Len(byHeight) - 1 : L!Switch(b, n)
         /\ LedgerInv'
<1> DEFINE n == index[Prev(b)].height + 1
<1>1. /\ running /\ running' = running /\ CanReorganize(b)
      /\ view' = Replay(ForkBlocks(b)) /\ byHeight' = ForkBlocks(b)
      /\ saved' = saved
  BY DEF Reorganize
<1>2. /\ byHeight \in Seq(Block) /\ IsChain(byHeight)
      /\ tipHash = byHeight[Len(byHeight)] /\ byHeight[1] = Genesis
      /\ Len(byHeight) \in Nat \ {0}
  BY <1>1 DEF SafeInv, IsState, IsChain
<1>3. /\ ForkBlocks(b) \in Seq(Block) /\ ForkBlocks(b) # <<>>
      /\ Len(ForkBlocks(b)) = index[Prev(b)].height + 2
      /\ Len(ForkBlocks(b)) \in Nat \ {0}
      /\ Len(ForkBlocks(b)) - 1 <= Len(byHeight)
      /\ ForkBlocks(b)[Len(ForkBlocks(b))] = b
      /\ \A i \in 1..Len(ForkBlocks(b)) - 1 : ForkBlocks(b)[i] = byHeight[i]
  BY <1>1, ForkState
<1>4. /\ ForkValid(ForkBlocks(b)) /\ b \notin DOMAIN index /\ Prev(b) # tipHash
      /\ index[Prev(b)].height \in Nat \cup {-1}
  BY <1>1 DEF CanReorganize, IsCandidate, HaveBlock, SafeInv
<1>5. n \in Nat /\ n = Len(ForkBlocks(b)) - 1 /\ n <= Len(byHeight)
      /\ n + 1 = Len(ForkBlocks(b)) /\ n + 1 \in 1..Len(ForkBlocks(b))
  BY <1>3, <1>4
<1>6. ForkBlocks(b) = Append(SubSeq(byHeight, 1, n), b)
  BY DEF ForkBlocks
<1> HIDE DEF n
<1>7. n # 0
  <2>1. SUFFICES ASSUME n = 0 PROVE FALSE
    OBVIOUS
  <2>2. ForkBlocks(b)[1] = b /\ 1 \in 1..Len(ForkBlocks(b))
    <3>1. Len(ForkBlocks(b)) = 1
      BY <1>5, <2>1
    <3>2. QED
      BY <1>3, <3>1
  <2>3. b = Genesis
    BY <1>4, <2>2 DEF ForkValid, CheckBlockHeader
  <2>4. Genesis \in DOMAIN index
    <3>1. 1 \in DOMAIN byHeight
      BY <1>2
    <3>2. QED
      BY <1>1, <1>2, <3>1 DEF DiskInv
  <2>5. QED
    BY <1>4, <2>3, <2>4
<1>8. n # Len(byHeight)
  <2>1. SUFFICES ASSUME n = Len(byHeight) PROVE FALSE
    OBVIOUS
  <2>2. n + 1 # 1 /\ (n + 1) - 1 = n /\ n \in 1..Len(ForkBlocks(b)) - 1
    BY <1>5, <1>7
  <2>3. CheckBlockHeader(ForkBlocks(b)[n + 1], ForkBlocks(b)[n])
    BY <1>4, <1>5, <2>2 DEF ForkValid
  <2>4. ForkBlocks(b)[n + 1] = b /\ ForkBlocks(b)[n] = tipHash
    BY <1>2, <1>3, <1>5, <2>1, <2>2
  <2>5. tipHash # NoBlock
    BY <1>2, BlockAssumption
  <2>6. QED
    BY <1>4, <2>3, <2>4, <2>5 DEF CheckBlockHeader, Prev
<1>9. n \in 1..Len(byHeight) - 1
  BY <1>2, <1>5, <1>7, <1>8
<1>10. ValidChain(ForkBlocks(b))
  BY <1>3, <1>4, ForkIsValid
<1>11. L!Switch(b, n)
  BY <1>1, <1>6, <1>10 DEF L!Switch
<1>12. LedgerInv'
  BY <1>1, <1>10 DEF LedgerInv
<1>13. QED
  BY <1>9, <1>11, <1>12

\* A crash, wherever it falls, loses the process and nothing that is durable.
LEMMA CrashDies ==
  ASSUME LedgerInv, MemoryLost, saved' = saved
  PROVE  L!Die /\ LedgerInv'
BY DEF LedgerInv, MemoryLost, L!Die

\* Every step is a step of the ledger or changes nothing of it.
LEMMA LedgerStep ==
  ASSUME Faults = {}, SafeInv, DiskInv, LedgerInv, [Next]_vars
  PROVE  [L!Next]_L!vars /\ LedgerInv'
<1>1. CASE Start
  BY <1>1, StartBegins DEF L!Next
<1>2. CASE CrashInStart
  <2>1. /\ running' = running /\ byHeight' = byHeight /\ view' = view
        /\ saved' = saved
    BY <1>2 DEF CrashInStart, memory, TornState
  <2>2. QED
    BY <2>1 DEF LedgerInv, L!vars
<1>3. CASE Crash
  BY <1>3, CrashDies DEF Crash, disk, L!Next
<1>4. ASSUME NEW b \in Block, CrashInExtend(b) \/ CrashInReorganize(b)
      PROVE  [L!Next]_L!vars /\ LedgerInv'
  <2>1. MemoryLost /\ saved' = saved
    BY <1>4 DEF CrashInExtend, CrashInReorganize, TornState
  <2>2. QED
    BY <2>1, CrashDies DEF L!Next
<1>5. ASSUME NEW b \in Block, Extend(b)
      PROVE  [L!Next]_L!vars /\ LedgerInv'
  BY <1>5, ExtendGrows DEF L!Next
<1>6. ASSUME NEW b \in Block, Reorganize(b)
      PROVE  [L!Next]_L!vars /\ LedgerInv'
  BY <1>6, ReorganizeSwitches DEF L!Next
<1>7. CASE UNCHANGED vars
  BY <1>7 DEF vars, LedgerInv, L!vars
<1>8. QED
  BY <1>1, <1>2, <1>3, <1>4, <1>5, <1>6, <1>7 DEF Next

\* CBlockchain implements the ledger: with storage that neither loses nor
\* tears a write, every extension, reorganisation, restart and crash between
\* two writes is a step of module Ledger or a stutter of it.
THEOREM ChainImplementsLedger ==
  ASSUME Faults = {}
  PROVE  Spec => ImplementsLedger
<1>1. Init => L!Init /\ LedgerInv
  <2>1. NoState.byHeight = <<>>
    BY DEF NoState
  <2>2. QED
    BY <2>1 DEF Init, L!Init, LedgerInv
<1>2. SafeInv /\ DiskInv /\ LedgerInv /\ [Next]_vars
        => [L!Next]_L!vars /\ LedgerInv'
  BY LedgerStep
<1>3. QED
  BY <1>1, <1>2, DiskInvariant, PTL DEF Spec, ImplementsLedger, L!Spec
=============================================================================
