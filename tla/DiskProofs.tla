---------------------------- MODULE DiskProofs ----------------------------
(***************************************************************************)
(* What a node finds on disk after a crash, when no write is lost or torn: *)
(* proofs about module Chain with no Faults.                               *)
(***************************************************************************)
EXTENDS ChainProofs

\* The blocks of a chain are all on disk.
AllStored(blocks) == \A i \in DOMAIN blocks : blocks[i] \in stored

\* The inductive invariant, next to SafeInv.
DiskInv ==
  /\ AllStored(saved.byHeight)
  /\ saved.byHeight = <<>> => stored \subseteq {Genesis}
  /\ running => /\ saved.byHeight # <<>>
                /\ AllStored(byHeight)
                /\ \A i \in DOMAIN byHeight : byHeight[i] \in DOMAIN index

\* Blocks are only added.
LEMMA NothingLost ==
  ASSUME Faults = {}, SafeInv, DiskInv, [Next]_vars
  PROVE  stored \subseteq stored'
<1>1. CASE Start
  BY <1>1 DEF Start, LoadSaved, ApplyGenesis, WriteGenesis, GenesisWritten,
              disk, DiskInv
<1>2. CASE CrashInStart
  BY <1>2 DEF CrashInStart, WriteGenesis, GenesisWritten, TornIndex, DiskInv
<1>3. CASE Crash
  BY <1>3 DEF Crash, disk
<1>4. ASSUME NEW b \in Block, Extend(b) \/ Reorganize(b)
      PROVE  stored \subseteq stored'
  BY <1>4 DEF Extend, Reorganize, WriteBlock
<1>5. ASSUME NEW b \in Block, CrashInExtend(b) \/ CrashInReorganize(b)
      PROVE  stored \subseteq stored'
  BY <1>5 DEF CrashInExtend, CrashInReorganize, WriteBlock, TornIndex
<1>6. CASE UNCHANGED vars
  BY <1>6 DEF vars
<1>7. QED
  BY <1>1, <1>2, <1>3, <1>4, <1>5, <1>6 DEF Next

\* A crash before or after a whole write.
LEMMA DeadDisk ==
  ASSUME DiskInv, MemoryLost, stored \subseteq stored', saved' = saved,
         saved.byHeight # <<>>
  PROVE  DiskInv'
<1>1. running' = FALSE
  BY DEF MemoryLost
<1>2. QED
  BY <1>1 DEF DiskInv, AllStored

\* Every step keeps the disk in order.
LEMMA DiskStep ==
  ASSUME Faults = {}, SafeInv, SafeInv', DiskInv, [Next]_vars
  PROVE  DiskInv'
<1>1. stored \subseteq stored'
  BY NothingLost
<1>2. CASE Loadable /\ LoadSaved /\ running' = TRUE
  <2>1. /\ saved' = saved /\ stored' = stored /\ byHeight' = saved.byHeight
        /\ saved.byHeight # <<>>
        /\ index' = RebuiltIndex(saved.byHeight, saved.tipHash)
    BY <1>2 DEF LoadSaved, disk, Loadable, ReadPositions
  <2>2. saved.byHeight \in Seq(Block) /\ IsChain(saved.byHeight)
    BY <2>1 DEF SafeInv, IsState
  <2>3. \A i \in DOMAIN saved.byHeight :
          saved.byHeight[i] \in stored => saved.byHeight[i] \in DOMAIN index'
    BY <2>1, <2>2, RebuiltHeights
  <2>4. QED
    BY <2>1, <2>3 DEF DiskInv, AllStored
<1>3. CASE ApplyGenesis /\ running' = TRUE
  <2>1. /\ byHeight' = <<Genesis>> /\ DOMAIN index' = {Genesis}
        /\ stored' = GenesisWritten
        /\ saved' = State(CheckBlock(Genesis, 0, NoCoins).view, <<Genesis>>)
    BY <1>3 DEF ApplyGenesis, GenesisInMemory, WriteGenesis, SavedGenesis,
                SaveChainState
  <2>2. saved'.byHeight = <<Genesis>> /\ Genesis \in stored'
    BY <2>1 DEF State, GenesisWritten
  <2>3. /\ \A i \in DOMAIN <<Genesis>> : <<Genesis>>[i] = Genesis
        /\ <<Genesis>> # <<>>
    OBVIOUS
  <2>4. QED
    BY <2>1, <2>2, <2>3 DEF DiskInv, AllStored
<1>4. CASE CrashInStart
  <2>1. /\ running' = running /\ ~running /\ saved' = saved
        /\ stored' = GenesisWritten
    BY <1>4 DEF CrashInStart, memory, WriteGenesis, TornIndex, TornState
  <2>2. saved.byHeight = <<>> => stored' \subseteq {Genesis}
    BY <2>1 DEF GenesisWritten
  <2>3. QED
    BY <1>1, <2>1, <2>2 DEF DiskInv, AllStored
<1>5. CASE Crash
  BY <1>1, <1>5, DeadDisk DEF Crash, disk, DiskInv
<1>6. ASSUME NEW b \in Block, Extend(b) PROVE DiskInv'
  <2>1. /\ running /\ byHeight' = Append(byHeight, b)
        /\ DOMAIN index' = DOMAIN index \cup {b}
        /\ stored' = stored \cup {b}
        /\ saved'.byHeight = Append(byHeight, b)
    BY <1>6 DEF Extend, Extended, IndexWith, WriteBlock, SaveChainState
  <2>2. byHeight \in Seq(Block)
    BY DEF SafeInv
  <2>3. /\ \A i \in DOMAIN Append(byHeight, b) :
             \/ Append(byHeight, b)[i] = b
             \/ i \in DOMAIN byHeight /\ Append(byHeight, b)[i] = byHeight[i]
        /\ Append(byHeight, b) # <<>>
    BY <2>2
  <2>4. QED
    BY <2>1, <2>3 DEF DiskInv, AllStored
<1>7. ASSUME NEW b \in Block, Reorganize(b) PROVE DiskInv'
  <2> DEFINE blocks == ForkBlocks(b)
  <2>1. /\ running /\ CanReorganize(b) /\ byHeight' = blocks
        /\ DOMAIN index' = DOMAIN index \cup {b}
        /\ stored' = stored \cup {b} /\ saved' = saved
    BY <1>7 DEF Reorganize, IndexWith, WriteBlock
  <2>2. /\ blocks \in Seq(Block) /\ Len(blocks) \in Nat \ {0}
        /\ Len(blocks) - 1 <= Len(byHeight) /\ blocks[Len(blocks)] = b
        /\ \A i \in 1..Len(blocks) - 1 : blocks[i] = byHeight[i]
    BY <2>1, ForkState
  <2>3. byHeight \in Seq(Block)
    BY DEF SafeInv
  <2> HIDE DEF blocks
  <2>4. \A i \in DOMAIN blocks :
          blocks[i] = b \/ (i \in DOMAIN byHeight /\ blocks[i] = byHeight[i])
    BY <2>2, <2>3
  <2>5. QED
    BY <2>1, <2>4 DEF DiskInv, AllStored
<1>8. ASSUME NEW b \in Block, CrashInExtend(b) PROVE DiskInv'
  <2>1. saved' = saved /\ MemoryLost /\ running
    BY <1>8 DEF CrashInExtend, TornState
  <2>2. QED
    BY <1>1, <2>1, DeadDisk DEF DiskInv
<1>9. ASSUME NEW b \in Block, CrashInReorganize(b) PROVE DiskInv'
  BY <1>9 DEF CrashInReorganize, TornIndex
<1>10. CASE UNCHANGED vars
  BY <1>10 DEF vars, DiskInv, AllStored
<1>11. QED
  BY <1>2, <1>3, <1>4, <1>5, <1>6, <1>7, <1>8, <1>9, <1>10 DEF Next, Start

\* Both invariants hold of every behaviour.
LEMMA DiskInvariant ==
  ASSUME Faults = {}
  PROVE  Spec => [](SafeInv /\ DiskInv)
<1>1. Spec => []SafeInv
  BY SafeInvariant
<1>2. Init => DiskInv
  <2>1. NoState.byHeight = <<>>
    BY DEF NoState
  <2>2. QED
    BY <2>1 DEF Init, DiskInv, AllStored
<1>3. SafeInv /\ SafeInv' /\ DiskInv /\ [Next]_vars => DiskInv'
  BY DiskStep
<1>4. QED
  BY <1>1, <1>2, <1>3, PTL DEF Spec

\* A restart finds a chain from genesis, all of whose blocks can be read, and
\* the coins of that chain, also after a crash between the two writes of
\* AcceptBlock.
THEOREM DiskConsistent ==
  ASSUME Faults = {}
  PROVE  Spec => []DiskIsConsistent
<1>1. SafeInv /\ DiskInv => DiskIsConsistent
  BY DEF SafeInv, DiskInv, IsState, AllStored, DiskIsConsistent
<1>2. QED
  BY <1>1, DiskInvariant, PTL

\* While the node runs, byHeight, the index and the block files agree about
\* every block of the active chain.
THEOREM ActiveChainIndexed ==
  ASSUME Faults = {}
  PROVE  Spec => []ActiveChainIsIndexed
<1>1. SafeInv /\ DiskInv => ActiveChainIsIndexed
  BY DEF SafeInv, DiskInv, AllStored, ReadableHeights, ActiveChainIsIndexed
<1>2. QED
  BY <1>1, DiskInvariant, PTL

\* No crash or restart makes a stored block unreadable.
THEOREM StoredStay ==
  ASSUME Faults = {}
  PROVE  Spec => StoredBlocksStay
<1>1. SafeInv /\ DiskInv /\ [Next]_vars => [stored \subseteq stored']_vars
  BY NothingLost
<1>2. QED
  BY <1>1, DiskInvariant, PTL DEF Spec, StoredBlocksStay
=============================================================================
