----------------------------- MODULE ChainProps -----------------------------
(***************************************************************************)
(* What CBlockchain promises: properties of module Chain.                  *)
(***************************************************************************)
EXTENDS Chain

\* CBlockIndex, as far as TryAcceptBlock reads it.
Entry == [height : Int, chainWork : Uint256]

\* Every variable holds a value of the C++ member it stands for.
TypeOK ==
  /\ running \in BOOLEAN
  /\ height \in Int
  /\ tipHash \in Block \cup {NoBlock}
  /\ byHeight \in Seq(Block)
  /\ DOMAIN index \subseteq Block \cup {NoBlock}
  /\ \A b \in DOMAIN index : index[b] \in Entry
  /\ chainWork \in Uint256
  /\ stored \subseteq Block
  /\ saved.height \in Int
  /\ saved.tipHash \in Block \cup {NoBlock}
  /\ saved.byHeight \in Seq(Block)

-----------------------------------------------------------------------------

\* A path of the block tree from genesis, along which time increases.
IsChain(blocks) ==
  /\ blocks # <<>> /\ blocks[1] = Genesis
  /\ \A i \in 1..Len(blocks) - 1 :
       /\ Prev(blocks[i + 1]) = blocks[i]
       /\ Header[blocks[i + 1]].time > Header[blocks[i]].time

\* CChain's members describe one chain: byHeight is a path from genesis and
\* height and tipHash are its end, whatever mix of extensions,
\* reorganisations and restarts led here.
ActiveChainIsPath ==
  running => /\ IsChain(byHeight)
             /\ height = Len(byHeight) - 1
             /\ tipHash = byHeight[Len(byHeight)]

\* GetBlockByHeight and GetIndex never fail on the active chain and agree on
\* its heights: a reorganisation or a restart leaves no hole between
\* byHeight, the block index and the block files.
ActiveChainIsIndexed ==
  running => \A i \in DOMAIN byHeight :
               /\ byHeight[i] \in stored
               /\ byHeight[i] \in DOMAIN index
               /\ index[byHeight[i]].height = i - 1

\* The index is closed: every block in it but genesis has its parent there,
\* one height below, so that no work is added up across a gap.
IndexIsClosed ==
  running =>
    \A b \in DOMAIN index \ {Genesis} :
      /\ Prev(b) \in DOMAIN index
      /\ index[b].height = index[Prev(b)].height + 1
      /\ index[b].chainWork = Plus256(index[Prev(b)].chainWork, Work(b))

\* The coins in memory are those of the active chain replayed from genesis:
\* AcceptBlock builds them incrementally, a reorganisation from scratch, a
\* restart from chainstate.dat.
ViewIsReplay ==
  running => view = Replay(byHeight)

\* A restart finds on disk a chain whose blocks can all be read and whose
\* coins are its own, also after a crash between two writes of AcceptBlock.
DiskIsConsistent ==
  saved.byHeight # <<>> =>
    /\ IsChain(saved.byHeight)
    /\ saved.tipHash = saved.byHeight[Len(saved.byHeight)]
    /\ saved.height = Len(saved.byHeight) - 1
    /\ \A i \in DOMAIN saved.byHeight : saved.byHeight[i] \in stored
    /\ saved.view = Replay(saved.byHeight)

\* chain.chainWork is the work of the chain that was saved last, not of the
\* active one: it lags exactly as chainstate.dat does, and never exceeds the
\* work of the tip.
ChainWorkIsSavedWork ==
  running =>
    /\ saved.tipHash \in DOMAIN index
    /\ chainWork = index[saved.tipHash].chainWork
    /\ chainWork = index[tipHash].chainWork
         \/ chainWork < index[tipHash].chainWork

\* Blocks once readable stay readable, over crashes and restarts: rewriting
\* index.dat drops no entry.
StoredBlocksStay == [][stored \subseteq stored']_vars

\* The coins never exceed the subsidies of the active chain's heights: no
\* spend, fee, coinbase or reorganisation creates money.
SupplyBound ==
  running => TotalValue(view) <= GetCumulativeSupplyAt(height + 1)

-----------------------------------------------------------------------------
(* The ledger behind the files *)

\* The lists of blocks AcceptBlock and TryAcceptBlock may make active: every
\* block passes CheckBlock on the coins of those before it, and every block
\* but the first CheckBlockHeader on its predecessor.
ValidChain(blocks) ==
  /\ blocks # <<>> /\ blocks[1] = Genesis
  /\ \A n \in 1..Len(blocks) :
       CheckBlock(blocks[n], n - 1, ReplayViews(blocks)[n - 1]).ok
  /\ \A n \in 2..Len(blocks) : CheckBlockHeader(blocks[n], blocks[n - 1])

L == INSTANCE Ledger WITH blocks <- byHeight, coins <- view,
                          durable <- saved.byHeight,
                          Valid <- ValidChain, CoinsOf <- Replay

\* CBlockchain implements the ledger: an extension, a reorganisation, a crash
\* between any two of their writes and a restart each look, to whoever sees
\* only the active chain, its coins and what survives, like one step of
\* module Ledger or like nothing.
ImplementsLedger == L!Spec

-----------------------------------------------------------------------------
(* Choosing and reaching the best chain *)

\* The path from genesis to each block.
PathTo ==
  LET path[b \in Block] ==
        IF Prev(b) \in Block THEN Append(path[Prev(b)], b) ELSE <<b>>
  IN  path

\* The chains that break no rule where difficulty is fixed.
ValidPaths ==
  {p \in {PathTo[b] : b \in Block} :
     /\ ForkValid(p)
     /\ \A i \in 1..Len(p) - 1 : Header[p[i + 1]].bits = Header[p[i]].bits}

PathWork(p) == FoldLeft(LAMBDA w, b : Plus256(w, Work(b)), 0, p)

\* The process is started again after it died, and a block it can accept is
\* offered to it again and again: peers announce it, and every headers
\* message leads to a getdata for what is not in the index.
Fairness ==
  /\ WF_vars(Start)
  /\ \A b \in Block : WF_vars(TryAcceptBlock(b))

FairSpec == Spec /\ Fairness

\* "Chain terpilih = chain dengan accumulated work tertinggi" (chainwork.h):
\* a node that stops crashing ends on a chain at least as heavy as every
\* valid chain offered to it.
HeaviestChainWins ==
  <>[]running =>
    <>[](running /\ \A p \in ValidPaths :
                      index[tipHash].chainWork >= PathWork(p))

\* "Restart harus dapat resume synchronization" (sync.h): a node that stops
\* crashing ends on a chain at least as long as every valid one.
\* The code does not keep this (README, "Deviations").
RestartResumesSync ==
  <>[]running =>
    <>[](running /\ \A p \in ValidPaths : Len(byHeight) >= Len(p))

\* "Chain work adalah satu-satunya kriteria pemilihan" (reorg.cpp): while
\* the node runs, a switch of tip never lowers the work of the active chain.
\* The code does not keep this (README, "Deviations").
WorkNeverDrops ==
  [][running /\ running' =>
       index'[tipHash'].chainWork >= index[tipHash].chainWork]_vars

\* "node menghitung expected target sendiri. Miner TIDAK menentukan
\* difficulty" (difficulty.h): with fixed difficulty every block of the
\* active chain has the bits of its parent.
\* The code does not keep this (README, "Deviations").
ActiveBitsExpected ==
  running /\ Params.powNoRetarget =>
    \A i \in 1..Len(byHeight) - 1 :
      Header[byHeight[i + 1]].bits = Header[byHeight[i]].bits
=============================================================================
