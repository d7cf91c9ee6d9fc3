------------------------------- MODULE Chain -------------------------------
(***************************************************************************)
(* CBlockchain and its storage: the active chain in memory, the block      *)
(* index, and the two files that survive a restart, blocks/index.dat and   *)
(* chainstate.dat.  Blocks are offered one at a time (every caller of      *)
(* TryAcceptBlock holds the chain mutex) in any order and any number of    *)
(* times; the process may be killed at any moment, also between the writes *)
(* of one handler, and is started again.                                   *)
(***************************************************************************)
EXTENDS Validation

CONSTANT Faults   \* the storage faults considered, see FaultKind

\* "write_lost": WriteBlock or SaveChainState fails, its result is ignored.
\* The other kinds: the process dies while SaveIndex, or SaveChainState,
\* rewrites its file in place, the latter before the magic is on disk
\* ("torn_empty") or later ("torn_state").
FaultKind == {"write_lost", "torn_index", "torn_empty", "torn_state"}

ASSUME FaultsAssumption == Faults \subseteq FaultKind

VARIABLES
  running,    \* has CBlockchain::Init returned in a live process?
  view,       \* chain.view
  height,     \* chain.height
  tipHash,    \* chain.tipHash
  byHeight,   \* chain.byHeight; byHeight[h + 1] is the block at height h
  index,      \* chain.index
  chainWork,  \* chain.chainWork
  stored,     \* the blocks index.dat leads to
  saved       \* the contents of chainstate.dat

memory == <<running, view, height, tipHash, byHeight, index, chainWork>>
disk == <<stored, saved>>
vars == <<running, view, height, tipHash, byHeight, index, chainWork,
          stored, saved>>

Work(b) == GetBlockWork(Header[b].bits)

Prev(b) == Header[b].prev

\* The work of a block is a uint256, and there is one.
ASSUME WorkAssumption ==
  Space \in Nat \ {0} /\ \A b \in Block : Work(b) \in Uint256

\* A default-constructed CBlockIndex, which std::map::operator[] inserts.
DefaultEntry == [height |-> -1, chainWork |-> 0]

\* What LoadChainState makes of a missing file.
NoState == [view |-> NoCoins, height |-> -1, tipHash |-> NoBlock,
            byHeight |-> <<>>]

\* The arguments of SaveChainState for a chain with these blocks.
State(v, blocks) == [view |-> v, height |-> Len(blocks) - 1,
                     tipHash |-> blocks[Len(blocks)], byHeight |-> blocks]

-----------------------------------------------------------------------------
(* Storage: blocks.cpp *)

\* index.dat after WriteBlock(b): the append, the new entry, SaveIndex.
WriteBlock(b) ==
  {stored \cup {b}} \cup (IF "write_lost" \in Faults THEN {stored} ELSE {})

\* chainstate.dat after SaveChainState of s.
SaveChainState(s) ==
  {s} \cup (IF "write_lost" \in Faults THEN {saved} ELSE {})

\* index.dat when the process dies inside SaveIndex: the entries before the
\* cut.  They are written in the order of their hashes, which says nothing
\* of their heights.
TornIndex(entries) ==
  IF "torn_index" \in Faults THEN SUBSET entries ELSE {}

\* chainstate.dat as LoadChainState reads it when the process dies inside
\* SaveChainState(s): no magic, or the list of hashes cut after k of them
\* (the buffer still holds the hash read last), or the coins cut.
TornState(s) ==
  LET Cut(k) == [i \in DOMAIN s.byHeight |->
                   IF i <= k THEN s.byHeight[i]
                   ELSE IF k = 0 THEN s.tipHash ELSE s.byHeight[k]]
      cuts == {[s EXCEPT !.byHeight = Cut(k), !.view = NoCoins] :
                 k \in 0..Len(s.byHeight) - 1}
              \cup {[s EXCEPT !.view = SpendCoins(@, lost)] :
                      lost \in SUBSET DOMAIN s.view}
  IN  (IF "torn_empty" \in Faults THEN {NoState} ELSE {})
        \cup (IF "torn_state" \in Faults THEN cuts ELSE {})

-----------------------------------------------------------------------------
(* Starting: LoadFromStorage and ApplyGenesis, blockchain.cpp *)

\* The chainWork LoadFromStorage computes for each position of a chain: a
\* predecessor that was not read counts for nothing.
RebuiltWork(blocks) ==
  LET Before(i) == {j \in 1..i - 1 : /\ blocks[j] = Prev(blocks[i])
                                     /\ blocks[j] \in stored}
      work[i \in DOMAIN blocks] ==
        IF blocks[i] \notin stored THEN 0
        ELSE IF i = 1 THEN Work(blocks[i])
        ELSE Plus256(IF Before(i) = {} THEN 0 ELSE work[Max(Before(i))],
                     Work(blocks[i]))
  IN  work

\* The positions of a chain whose block can be read.
ReadPositions(blocks) == {i \in DOMAIN blocks : blocks[i] \in stored}

\* The index LoadFromStorage rebuilds, with the entries that operator[]
\* inserts for a predecessor, or a tip, that was not read.
RebuiltIndex(blocks, tip) ==
  LET read == ReadPositions(blocks)
      At(b) == {i \in read : blocks[i] = b}
      work == RebuiltWork(blocks)
  IN  [b \in {blocks[i] : i \in read}
             \cup {Prev(blocks[i]) : i \in read \ {1}} \cup {tip} |->
         IF At(b) = {} THEN DefaultEntry
         ELSE [height |-> Max(At(b)) - 1, chainWork |-> work[Max(At(b))]]]

\* LoadFromStorage when chainstate.dat loads and a block of it can be read.
LoadSaved ==
  /\ view' = saved.view
  /\ height' = saved.height
  /\ tipHash' = saved.tipHash
  /\ byHeight' = saved.byHeight
  /\ index' = RebuiltIndex(saved.byHeight, saved.tipHash)
  /\ chainWork' = index'[saved.tipHash].chainWork
  /\ UNCHANGED disk

\* ApplyGenesis up to its writes.
GenesisInMemory ==
  /\ CheckBlock(Genesis, 0, NoCoins).ok
  /\ view' = CheckBlock(Genesis, 0, NoCoins).view
  /\ height' = 0
  /\ tipHash' = Genesis
  /\ byHeight' = <<Genesis>>
  /\ index' = [b \in {Genesis} |->
                 [height |-> 0, chainWork |-> Work(Genesis)]]
  /\ chainWork' = Work(Genesis)

\* index.dat after ApplyGenesis.  WriteBlock does not load the index: unless
\* an earlier ReadBlock did, the file is rewritten with genesis alone.
GenesisWritten ==
  IF saved.byHeight = <<>> THEN {Genesis} ELSE stored \cup {Genesis}

WriteGenesis ==
  {GenesisWritten} \cup (IF "write_lost" \in Faults THEN {stored} ELSE {})

\* What ApplyGenesis passes to SaveChainState.
SavedGenesis == State(CheckBlock(Genesis, 0, NoCoins).view, <<Genesis>>)

ApplyGenesis ==
  /\ GenesisInMemory
  /\ stored' \in WriteGenesis
  /\ saved' \in SaveChainState(SavedGenesis)

\* Does LoadFromStorage find something to load?
Loadable == ReadPositions(saved.byHeight) # {}

Start ==
  /\ ~running
  /\ running' = TRUE
  /\ \/ Loadable /\ LoadSaved
     \/ ~Loadable /\ ApplyGenesis

-----------------------------------------------------------------------------
(* Accepting: AcceptBlock, blockchain.cpp, and TryAcceptBlock, reorg.cpp *)

\* Mutant: what is on disk counts as accepted.
HaveBlockOnDisk(b) == b \in DOMAIN index \cup stored

HaveBlock(b) == b \in DOMAIN index

\* The first lines of TryAcceptBlock.
IsCandidate(b) == ~HaveBlock(b) /\ Prev(b) \in DOMAIN index

\* The firstTime AcceptBlock may use for a child of prev.  At a retarget
\* intervalStartHeight is the height of the block being added, so byHeight
\* is read one past its end: any block hash the heap may hold there, or
\* none.
FirstTimes(prev) ==
  LET start == ((index[prev].height + 1) \div Params.difficultyInterval)
                 * Params.difficultyInterval
      TimeOf(b) == IF b \in stored THEN Header[b].time ELSE Header[prev].time
  IN  IF start <= 0 THEN {Header[prev].time}
      ELSE IF start + 1 \in DOMAIN byHeight THEN {TimeOf(byHeight[start + 1])}
      ELSE {Header[prev].time} \cup {TimeOf(b) : b \in stored}

\* The values of expectedBits in AcceptBlock.
ExpectedBits(prev) ==
  {GetNextWorkRequired(Header[prev].time, index[prev].height,
                       Header[prev].bits, first) : first \in FirstTimes(prev)}

\* AcceptBlock's checks of a block that extends the tip.
AcceptChecks(b) ==
  /\ Prev(b) \in stored
  /\ CheckBlockHeader(b, Prev(b))
  /\ Header[b].bits \in ExpectedBits(Prev(b))
  /\ CheckBlock(b, index[Prev(b)].height + 1, view).ok

CanExtend(b) == IsCandidate(b) /\ Prev(b) = tipHash /\ AcceptChecks(b)

NewEntryOnActive(b, h) ==
  [height |-> h, chainWork |-> Plus256(chainWork, Work(b))]

\* The index entry of a new block, the same in AcceptBlock and AddIndexEntry.
NewEntry(b, h) ==
  [height |-> h, chainWork |-> Plus256(index[Prev(b)].chainWork, Work(b))]

IndexWith(b, h) ==
  [x \in DOMAIN index \cup {b} |-> IF x = b THEN NewEntry(b, h) ELSE index[x]]

\* Mutant: coins created at the height of the parent.
ExtendedEarly(b) ==
  [view |-> CheckBlock(b, height, view).view, height |-> height + 1,
   tipHash |-> b, byHeight |-> Append(byHeight, b)]

\* What AcceptBlock passes to SaveChainState.
Extended(b) ==
  [view |-> CheckBlock(b, index[Prev(b)].height + 1, view).view,
   height |-> index[Prev(b)].height + 1,
   tipHash |-> b, byHeight |-> Append(byHeight, b)]

\* TryAcceptBlock, case 1.
Extend(b) ==
  /\ running
  /\ CanExtend(b)
  /\ view' = Extended(b).view
  /\ height' = Extended(b).height
  /\ tipHash' = b
  /\ byHeight' = Extended(b).byHeight
  /\ index' = IndexWith(b, Extended(b).height)
  /\ chainWork' = index'[b].chainWork
  /\ stored' \in WriteBlock(b)
  /\ saved' \in SaveChainState(Extended(b))
  /\ UNCHANGED running

\* The blocks a reorganisation validates: the active chain up to the height
\* of the new block's parent, and the new block.
ForkBlocks(b) == Append(SubSeq(byHeight, 1, index[Prev(b)].height + 1), b)

\* The views of a validation from genesis; the n-th is that after n blocks.
ReplayViews(blocks) ==
  LET v[n \in 0..Len(blocks)] ==
        IF n = 0 THEN NoCoins ELSE CheckBlock(blocks[n], n - 1, v[n - 1]).view
  IN  v

Replay(blocks) == ReplayViews(blocks)[Len(blocks)]

\* Mutant: the validation loop without CheckBlockHeader.
ForkValidNoHeaders(blocks) ==
  \A n \in 1..Len(blocks) :
    CheckBlock(blocks[n], n - 1, ReplayViews(blocks)[n - 1]).ok

\* The validation loop of TryAcceptBlock.
ForkValid(blocks) ==
  \A n \in 1..Len(blocks) :
    /\ CheckBlockHeader(blocks[n], IF n = 1 THEN NoBlock ELSE blocks[n - 1])
    /\ CheckBlock(blocks[n], n - 1, ReplayViews(blocks)[n - 1]).ok

\* Mutant: the work of the active chain for that of the fork's parent.
ForkWorkOnActive(b) == Plus256(chainWork, Work(b))

ForkWork(b) == Plus256(index[Prev(b)].chainWork, Work(b))

CanReorganize(b) ==
  /\ IsCandidate(b)
  /\ Prev(b) # tipHash
  /\ ForkWork(b) > chainWork
  /\ index[Prev(b)].height <= height
  /\ \A h \in 0..index[Prev(b)].height : byHeight[h + 1] \in stored
  /\ ForkValid(ForkBlocks(b))

\* TryAcceptBlock, case 2: chain.chainWork keeps its value and
\* chainstate.dat is not written.
Reorganize(b) ==
  /\ running
  /\ CanReorganize(b)
  /\ view' = Replay(ForkBlocks(b))
  /\ height' = Len(ForkBlocks(b)) - 1
  /\ tipHash' = b
  /\ byHeight' = ForkBlocks(b)
  /\ index' = IndexWith(b, Len(ForkBlocks(b)) - 1)
  /\ stored' \in WriteBlock(b)
  /\ UNCHANGED <<running, chainWork, saved>>

\* TryAcceptBlock changes nothing when it rejects a block.
TryAcceptBlock(b) == Extend(b) \/ Reorganize(b)

-----------------------------------------------------------------------------
(* Dying *)

\* A process that is not running: CBlockchain as constructed.
MemoryLost ==
  /\ running' = FALSE
  /\ view' = NoCoins
  /\ height' = -1
  /\ tipHash' = NoBlock
  /\ byHeight' = <<>>
  /\ index' = <<>>
  /\ chainWork' = 0

Crash ==
  /\ running
  /\ MemoryLost
  /\ UNCHANGED disk

\* Mutant: AcceptBlock saves the chain state before the block.
CrashInExtendSwapped(b) ==
  /\ running
  /\ CanExtend(b)
  /\ MemoryLost
  /\ saved' = Extended(b)
  /\ UNCHANGED stored

\* Between AcceptBlock's WriteBlock and its SaveChainState, or inside one.
CrashInExtend(b) ==
  /\ running
  /\ CanExtend(b)
  /\ MemoryLost
  /\ \/ stored' \in WriteBlock(b) /\ saved' = saved
     \/ stored' \in TornIndex(stored \cup {b}) /\ saved' = saved
     \/ stored' \in WriteBlock(b) /\ saved' \in TornState(Extended(b))

\* Inside the WriteBlock of a reorganisation.
CrashInReorganize(b) ==
  /\ running
  /\ CanReorganize(b)
  /\ MemoryLost
  /\ stored' \in TornIndex(stored \cup {b})
  /\ UNCHANGED saved

\* Between ApplyGenesis's WriteBlock and its SaveChainState, or inside one.
CrashInStart ==
  /\ ~running
  /\ ~Loadable
  /\ CheckBlock(Genesis, 0, NoCoins).ok
  /\ \/ stored' \in WriteGenesis /\ saved' = saved
     \/ stored' \in TornIndex(GenesisWritten) /\ saved' = saved
     \/ stored' \in WriteGenesis /\ saved' \in TornState(SavedGenesis)
  /\ UNCHANGED memory

-----------------------------------------------------------------------------

Init ==
  /\ running = FALSE
  /\ view = NoCoins
  /\ height = -1
  /\ tipHash = NoBlock
  /\ byHeight = <<>>
  /\ index = <<>>
  /\ chainWork = 0
  /\ stored = {}
  /\ saved = NoState

Next ==
  \/ Start
  \/ CrashInStart
  \/ Crash
  \/ \E b \in Block : \/ Extend(b)
                      \/ Reorganize(b)
                      \/ CrashInExtend(b)
                      \/ CrashInReorganize(b)

Spec == Init /\ [][Next]_vars
=============================================================================
