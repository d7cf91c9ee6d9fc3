---------------------------- MODULE ChainProofs ----------------------------
(***************************************************************************)
(* Proofs about module Chain, for every block tree and every history.      *)
(***************************************************************************)
EXTENDS ChainProps, SequenceTheorems, WellFoundedInduction, TLAPS

-----------------------------------------------------------------------------
(* Induction on the naturals, over a set instead of a predicate. *)

\* A set with zero that is closed under successor has every natural number.
LEMMA NatSetInduction ==
  ASSUME NEW S, 0 \in S, \A n \in Nat : n \in S => n + 1 \in S
  PROVE  Nat \subseteq S
<1> SUFFICES ASSUME Nat \ S # {} PROVE FALSE
  OBVIOUS
<1> DEFINE Less == {ss \in Nat \X Nat : ss[1] < ss[2]}
<1>1. IsWellFoundedOn(Less, Nat)
  BY NatLessThanWellFounded, Zenon DEF OpToRel
<1>2. PICK x \in Nat \ S : \A y \in Nat \ S : <<y, x>> \notin Less
  <2>1. Nat \ S \subseteq Nat
    OBVIOUS
  <2> HIDE DEF Less
  <2>2. QED
    BY <1>1, <2>1, WFMin
<1>3. \A y \in Nat : y < x => <<y, x>> \in Less
  OBVIOUS
<1>4. x # 0 /\ x - 1 \in Nat /\ x - 1 < x
  OBVIOUS
<1>5. x - 1 \in S
  BY <1>2, <1>3, <1>4
<1> QED
  BY <1>4, <1>5

-----------------------------------------------------------------------------
(* Chains *)

\* Along a chain the timestamps increase, so no block occurs twice: what the
\* timestamp rule of CheckBlockHeader buys.
LEMMA ChainTimes ==
  ASSUME NEW s \in Seq(Block), IsChain(s)
  PROVE  \A i, j \in 1..Len(s) :
           i < j => Header[s[i]].time < Header[s[j]].time
<1> DEFINE S == {n \in Nat : \A i \in 1..Len(s) :
                   i + n + 1 <= Len(s) =>
                     Header[s[i]].time < Header[s[i + n + 1]].time}
<1>1. \A i \in 1..Len(s) : Header[s[i]].time \in Nat
  BY BlockAssumption DEF HeaderType
<1>2. 0 \in S
  BY DEF IsChain
<1>3. ASSUME NEW n \in Nat, n \in S PROVE n + 1 \in S
  <2> SUFFICES ASSUME NEW i \in 1..Len(s), i + (n + 1) + 1 <= Len(s)
               PROVE  Header[s[i]].time < Header[s[i + (n + 1) + 1]].time
    OBVIOUS
  <2>1. Header[s[i]].time < Header[s[i + n + 1]].time
    <3>1. n \in S /\ i + n + 1 <= Len(s)
      BY <1>3
    <3>2. QED
      BY <3>1
  <2>2. Header[s[i + n + 1]].time < Header[s[(i + n + 1) + 1]].time
    <3>1. i + n + 1 \in 1..Len(s) - 1
      OBVIOUS
    <3>2. QED
      BY <3>1 DEF IsChain
  <2>3. QED
    BY <1>1, <2>1, <2>2
<1>4. Nat \subseteq S
  <2> HIDE DEF S
  <2>1. QED
    BY <1>2, <1>3, NatSetInduction
<1> SUFFICES ASSUME NEW i \in 1..Len(s), NEW j \in 1..Len(s), i < j
               PROVE  Header[s[i]].time < Header[s[j]].time
  OBVIOUS
<1>5. j - i - 1 \in Nat /\ i + (j - i - 1) + 1 = j
  OBVIOUS
<1>6. j - i - 1 \in S
  BY <1>4, <1>5
<1> QED
  BY <1>5, <1>6

\* No block occurs twice in a chain.
LEMMA ChainDistinct ==
  ASSUME NEW s \in Seq(Block), IsChain(s)
  PROVE  \A i, j \in 1..Len(s) : s[i] = s[j] => i = j
<1> SUFFICES ASSUME NEW i \in 1..Len(s), NEW j \in 1..Len(s),
                    s[i] = s[j], i < j
             PROVE  FALSE
  OBVIOUS
<1>1. Header[s[i]].time \in Nat
  BY BlockAssumption DEF HeaderType
<1>2. QED
  BY <1>1, ChainTimes

\* A block that passes CheckBlockHeader on the last block of a chain makes a
\* longer chain.
LEMMA ChainAppend ==
  ASSUME NEW s \in Seq(Block), IsChain(s), NEW b \in Block,
         CheckBlockHeader(b, s[Len(s)])
  PROVE  IsChain(Append(s, b))
<1>1. Len(s) \in Nat \ {0} /\ s[Len(s)] \in Block
  BY DEF IsChain
<1>2. Prev(b) = s[Len(s)] /\ Header[b].time > Header[s[Len(s)]].time
  BY <1>1, BlockAssumption DEF CheckBlockHeader, Prev
<1>3. QED
  BY <1>1, <1>2 DEF IsChain

\* The blocks that pass TryAcceptBlock's validation loop form a chain.
LEMMA ForkIsChain ==
  ASSUME NEW s \in Seq(Block), s # <<>>, ForkValid(s)
  PROVE  IsChain(s)
<1>1. Len(s) \in Nat \ {0}
  OBVIOUS
<1>2. s[1] = Genesis
  BY <1>1 DEF ForkValid, CheckBlockHeader
<1>3. ASSUME NEW i \in 1..Len(s) - 1
      PROVE  /\ Prev(s[i + 1]) = s[i]
             /\ Header[s[i + 1]].time > Header[s[i]].time
  <2>1. i + 1 \in 1..Len(s) /\ i + 1 # 1 /\ (i + 1) - 1 = i
    BY <1>1
  <2>2. CheckBlockHeader(s[i + 1], s[i])
    BY <2>1 DEF ForkValid
  <2>3. s[i] \in Block
    BY <1>1
  <2>4. QED
    BY <2>2, <2>3, BlockAssumption DEF CheckBlockHeader, Prev
<1>4. QED
  BY <1>2, <1>3 DEF IsChain

-----------------------------------------------------------------------------
(* Replaying a chain *)

\* The views of a replay satisfy their recursive definition: viewOut of each
\* CheckBlock is the view of the next.
LEMMA ReplayUnfold ==
  ASSUME NEW s \in Seq(Block)
  PROVE  ReplayViews(s) =
           [n \in 0..Len(s) |->
              IF n = 0 THEN NoCoins
              ELSE CheckBlock(s[n], n - 1, ReplayViews(s)[n - 1]).view]
<1> DEFINE Step(n, v) == CheckBlock(s[n], n - 1, v).view
           Rec(f, m) == f = [n \in 0..m |-> IF n = 0 THEN NoCoins
                                            ELSE Step(n, f[n - 1])]
           S == {m \in Nat : \E f : Rec(f, m)}
<1>1. 0 \in S
  <2> DEFINE f == [n \in 0..0 |-> NoCoins]
  <2>1. Rec(f, 0)
    <3> HIDE DEF Step
    <3> QED OBVIOUS
  <2>2. QED
    BY <2>1
<1>2. ASSUME NEW m \in Nat, m \in S PROVE m + 1 \in S
  <2>1. PICK f : Rec(f, m)
    BY <1>2
  <2> DEFINE g == [n \in 0..m + 1 |-> IF n = m + 1 THEN Step(m + 1, f[m])
                                      ELSE f[n]]
  <2>2. Rec(g, m + 1)
    <3> HIDE DEF Step
    <3>1. g[m] = f[m] /\ \A n \in 1..m : g[n - 1] = f[n - 1]
      OBVIOUS
    <3>2. \A n \in 0..m : f[n] = IF n = 0 THEN NoCoins ELSE Step(n, f[n - 1])
      BY <2>1
    <3>3. ASSUME NEW n \in 0..m + 1
          PROVE  g[n] = IF n = 0 THEN NoCoins ELSE Step(n, g[n - 1])
      <4>1. CASE n = m + 1
        BY <4>1, <3>1
      <4>2. CASE n \in 0..m
        BY <4>2, <3>1, <3>2
      <4>3. QED
        BY <4>1, <4>2
    <3>4. QED
      BY <3>3
  <2> HIDE DEF Rec, g
  <2>3. QED
    BY <2>2
<1>3. Len(s) \in S
  <2> HIDE DEF S
  <2>1. Nat \subseteq S
    BY <1>1, <1>2, NatSetInduction
  <2>2. QED
    BY <2>1
<1>4. \E f : Rec(f, Len(s))
  BY <1>3
<1>5. ReplayViews(s) = CHOOSE f : Rec(f, Len(s))
  BY DEF ReplayViews
<1>6. QED
  BY <1>4, <1>5, Zenon

\* The view after n blocks depends on those n blocks only.
LEMMA ReplayPrefix ==
  ASSUME NEW s \in Seq(Block), NEW t \in Seq(Block), NEW k \in Nat,
         k <= Len(s), k <= Len(t), \A i \in 1..k : s[i] = t[i]
  PROVE  ReplayViews(s)[k] = ReplayViews(t)[k]
<1> DEFINE S == {m \in Nat : m <= k => ReplayViews(s)[m] = ReplayViews(t)[m]}
<1>1. 0 \in S
  BY ReplayUnfold
<1>2. ASSUME NEW m \in Nat, m \in S PROVE m + 1 \in S
  <2> SUFFICES ASSUME m + 1 <= k
               PROVE  ReplayViews(s)[m + 1] = ReplayViews(t)[m + 1]
    OBVIOUS
  <2>1. ReplayViews(s)[m] = ReplayViews(t)[m] /\ s[m + 1] = t[m + 1]
    BY <1>2
  <2>2. /\ m + 1 \in 0..Len(s) /\ m + 1 \in 0..Len(t) /\ m + 1 # 0
        /\ (m + 1) - 1 = m
    OBVIOUS
  <2>3. ReplayViews(s)[m + 1]
          = CheckBlock(s[m + 1], (m + 1) - 1, ReplayViews(s)[(m + 1) - 1]).view
    BY <2>2, ReplayUnfold
  <2>4. ReplayViews(t)[m + 1]
          = CheckBlock(t[m + 1], (m + 1) - 1, ReplayViews(t)[(m + 1) - 1]).view
    BY <2>2, ReplayUnfold
  <2>5. QED
    BY <2>1, <2>2, <2>3, <2>4
<1>3. Nat \subseteq S
  <2> HIDE DEF S
  <2>1. QED
    BY <1>1, <1>2, NatSetInduction
<1>4. QED
  BY <1>3

\* Replaying one block more is one CheckBlock more: AcceptBlock's incremental
\* update of chain.view and the reorganisation's replay do the same thing.
LEMMA ReplayAppend ==
  ASSUME NEW s \in Seq(Block), NEW b \in Block
  PROVE  Replay(Append(s, b)) = CheckBlock(b, Len(s), Replay(s)).view
<1> DEFINE t == Append(s, b)
<1>1. /\ t \in Seq(Block) /\ Len(t) = Len(s) + 1 /\ t[Len(s) + 1] = b
      /\ Len(s) \in Nat /\ \A i \in 1..Len(s) : s[i] = t[i]
  OBVIOUS
<1> HIDE DEF t
<1>2. ReplayViews(s)[Len(s)] = ReplayViews(t)[Len(s)]
  BY <1>1, ReplayPrefix
<1>3. ReplayViews(t)[Len(t)]
        = CheckBlock(t[Len(t)], Len(t) - 1, ReplayViews(t)[Len(t) - 1]).view
  BY <1>1, ReplayUnfold
<1>4. Len(t) - 1 = Len(s)
  BY <1>1
<1>5. QED
  BY <1>1, <1>2, <1>3, <1>4 DEF Replay, t

-----------------------------------------------------------------------------
(* The coins are those of the active chain, whatever writes are lost *)

\* A chain as SaveChainState gets it.
IsState(s) ==
  /\ IsChain(s.byHeight)
  /\ s.height = Len(s.byHeight) - 1
  /\ s.tipHash = s.byHeight[Len(s.byHeight)]
  /\ s.view = Replay(s.byHeight)

\* Where a block of the active chain can be read, its index entry tells its
\* height.  A lost write may leave other entries without one.
ReadableHeights ==
  \A i \in DOMAIN byHeight :
    byHeight[i] \in stored \cap DOMAIN index =>
      index[byHeight[i]].height = i - 1

\* The inductive invariant.
SafeInv ==
  /\ running \in BOOLEAN
  /\ stored \subseteq Block
  /\ byHeight \in Seq(Block) /\ saved.byHeight \in Seq(Block)
  /\ saved.byHeight # <<>> => IsState(saved)
  /\ running =>
       /\ IsState([view |-> view, height |-> height, tipHash |-> tipHash,
                   byHeight |-> byHeight])
       /\ \A b \in DOMAIN index : index[b].height \in Nat \cup {-1}
       /\ ReadableHeights

\* The genesis state of ApplyGenesis.
LEMMA GenesisState ==
  ASSUME CheckBlock(Genesis, 0, NoCoins).ok
  PROVE  /\ <<Genesis>> \in Seq(Block)
         /\ IsState(State(CheckBlock(Genesis, 0, NoCoins).view, <<Genesis>>))
<1>1. <<Genesis>> \in Seq(Block) /\ Len(<<Genesis>>) = 1
  BY BlockAssumption
<1>2. IsChain(<<Genesis>>)
  BY DEF IsChain
<1>3. Replay(<<Genesis>>) = CheckBlock(Genesis, 0, NoCoins).view
  <2> DEFINE s == <<Genesis>>
  <2>1. s[1] = Genesis /\ Len(s) = 1 /\ s \in Seq(Block)
    BY <1>1
  <2> HIDE DEF s
  <2>2. ReplayViews(s)[0] = NoCoins
    BY <2>1, ReplayUnfold
  <2>3. ReplayViews(s)[1] = CheckBlock(s[1], 1 - 1, ReplayViews(s)[1 - 1]).view
    BY <2>1, ReplayUnfold
  <2>4. 1 - 1 = 0
    OBVIOUS
  <2>5. QED
    BY <2>1, <2>2, <2>3, <2>4 DEF Replay, s
<1>4. QED
  BY <1>1, <1>2, <1>3 DEF IsState, State

\* The index LoadFromStorage rebuilds gives each readable block of a chain
\* its height, and the others none.
LEMMA RebuiltHeights ==
  ASSUME NEW s \in Seq(Block), IsChain(s), NEW tip,
         NEW idx, idx = RebuiltIndex(s, tip)
  PROVE  /\ \A b \in DOMAIN idx : idx[b].height \in Nat \cup {-1}
         /\ \A i \in DOMAIN s : s[i] \in stored =>
              s[i] \in DOMAIN idx /\ idx[s[i]].height = i - 1
<1> DEFINE read == ReadPositions(s)
           At(b) == {i \in read : s[i] = b}
           work == RebuiltWork(s)
           dom == {s[i] : i \in read} \cup {Prev(s[i]) : i \in read \ {1}}
                    \cup {tip}
<1>1. /\ DOMAIN s = 1..Len(s) /\ read \subseteq DOMAIN s
      /\ \A i \in DOMAIN s : i \in Nat /\ i - 1 \in Nat
  BY DEF ReadPositions
<1>2. idx = [b \in dom |->
               IF At(b) = {} THEN DefaultEntry
               ELSE [height |-> Max(At(b)) - 1, chainWork |-> work[Max(At(b))]]]
  BY DEF RebuiltIndex
<1>3. \A i \in read : At(s[i]) = {i}
  BY <1>1, ChainDistinct
<1>4. \A i \in read : Max(At(s[i])) = i
  <2> TAKE i \in read
  <2>1. Max({i}) = i
    BY <1>1 DEF Max
  <2>2. QED
    BY <1>3, <2>1
<1> HIDE DEF read, work, dom
<1>5. \A i \in read : s[i] \in dom /\ idx[s[i]].height = i - 1
  <2> TAKE i \in read
  <2>1. s[i] \in dom
    BY DEF dom
  <2>2. At(s[i]) # {}
    BY <1>3
  <2> HIDE DEF At
  <2>3. QED
    BY <1>2, <1>4, <2>1, <2>2
<1>6. \A b \in dom : (\E i \in read : s[i] = b) \/ idx[b] = DefaultEntry
  <2> TAKE b \in dom
  <2>1. CASE At(b) = {}
    <3> HIDE DEF At
    <3> QED
      BY <1>2, <2>1
  <2>2. CASE At(b) # {}
    BY <2>2
  <2>3. QED
    BY <2>1, <2>2
<1>7. \A b \in dom : idx[b].height \in Nat \cup {-1}
  BY <1>1, <1>5, <1>6 DEF DefaultEntry
<1>8. DOMAIN idx = dom
  BY <1>2
<1>9. \A i \in DOMAIN s : s[i] \in stored => i \in read
  BY DEF read, ReadPositions
<1>10. QED
  BY <1>5, <1>7, <1>8, <1>9

\* What AcceptBlock makes of a sound chain.
LEMMA ExtendedState ==
  ASSUME SafeInv, running, NEW b \in Block, CanExtend(b)
  PROVE  /\ IsState(Extended(b)) /\ Extended(b).byHeight \in Seq(Block)
         /\ Extended(b).height \in Nat
<1>1. /\ Prev(b) = tipHash /\ tipHash \in DOMAIN index /\ tipHash \in stored
      /\ CheckBlockHeader(b, tipHash)
  BY DEF CanExtend, IsCandidate, AcceptChecks
<1>2. /\ IsChain(byHeight) /\ byHeight \in Seq(Block)
      /\ height = Len(byHeight) - 1 /\ tipHash = byHeight[Len(byHeight)]
      /\ view = Replay(byHeight) /\ ReadableHeights
  BY DEF SafeInv, IsState
<1>3. Len(byHeight) \in Nat /\ Len(byHeight) \in DOMAIN byHeight
  BY <1>2 DEF IsChain
<1>4. index[Prev(b)].height + 1 = Len(byHeight)
  <2>1. index[tipHash].height = Len(byHeight) - 1
    BY <1>1, <1>2, <1>3 DEF ReadableHeights
  <2>2. QED
    BY <1>1, <1>3, <2>1
<1>5. IsChain(Append(byHeight, b))
  BY <1>1, <1>2, ChainAppend
<1>6. Replay(Append(byHeight, b)) = CheckBlock(b, Len(byHeight), view).view
  BY <1>2, ReplayAppend
<1>7. /\ Append(byHeight, b) \in Seq(Block)
      /\ Len(Append(byHeight, b)) = Len(byHeight) + 1
      /\ Append(byHeight, b)[Len(byHeight) + 1] = b
  BY <1>2
<1>8. QED
  BY <1>3, <1>4, <1>5, <1>6, <1>7 DEF Extended, IsState

\* What a reorganisation makes of a sound chain: it keeps the first blocks.
LEMMA ForkState ==
  ASSUME SafeInv, running, NEW b \in Block, CanReorganize(b)
  PROVE  LET blocks == ForkBlocks(b)
         IN  /\ blocks \in Seq(Block) /\ IsChain(blocks)
             /\ Len(blocks) = index[Prev(b)].height + 2
             /\ Len(blocks) \in Nat \ {0} /\ Len(blocks) - 1 <= Len(byHeight)
             /\ blocks[Len(blocks)] = b
             /\ \A i \in 1..Len(blocks) - 1 : blocks[i] = byHeight[i]
<1> DEFINE h == index[Prev(b)].height
           kept == SubSeq(byHeight, 1, h + 1)
           blocks == Append(kept, b)
<1>1. /\ byHeight \in Seq(Block) /\ height = Len(byHeight) - 1
      /\ h \in Nat \cup {-1} /\ h <= height /\ ForkValid(ForkBlocks(b))
  BY DEF SafeInv, IsState, CanReorganize, IsCandidate
<1> HIDE DEF h
<1>2. h \in Int /\ h + 1 \in Nat /\ h + 1 <= Len(byHeight)
  BY <1>1
<1>3. /\ kept \in Seq(Block) /\ Len(kept) = h + 1
      /\ \A i \in 1..h + 1 : kept[i] = byHeight[i]
  <2>1. \A i \in 1..h + 1 : byHeight[i] \in Block
    BY <1>1, <1>2
  <2>2. /\ kept \in Seq(Block)
        /\ Len(kept) = IF 1 <= h + 1 THEN (h + 1) - 1 + 1 ELSE 0
        /\ \A i \in 1..(h + 1) - 1 + 1 : kept[i] = byHeight[1 + i - 1]
    BY <1>2, <2>1, SubSeqProperties
  <2>3. QED
    BY <1>2, <2>2
<1> HIDE DEF kept
<1>4. /\ blocks \in Seq(Block) /\ Len(blocks) = h + 2 /\ blocks[h + 2] = b
      /\ \A i \in 1..h + 1 : blocks[i] = byHeight[i]
  BY <1>2, <1>3
<1>5. blocks # <<>>
  BY <1>2, <1>4
<1>6. ForkBlocks(b) = blocks
  BY DEF ForkBlocks, kept, h
<1> HIDE DEF blocks
<1>7. IsChain(blocks)
  BY <1>1, <1>4, <1>5, <1>6, ForkIsChain
<1>8. (h + 2) - 1 = h + 1 /\ h + 2 \in Nat \ {0}
  BY <1>2
<1>9. QED
  BY <1>2, <1>4, <1>6, <1>7, <1>8 DEF h

\* A sound chain grows or is replaced by one that keeps its first blocks and
\* ends in the new block: the heights of the index stay right.
LEMMA HeightsStay ==
  ASSUME SafeInv, running, NEW b \in Block, b \notin DOMAIN index,
         NEW blocks \in Seq(Block), IsChain(blocks),
         Len(blocks) \in Nat \ {0}, Len(blocks) - 1 <= Len(byHeight),
         blocks[Len(blocks)] = b,
         \A i \in 1..Len(blocks) - 1 : blocks[i] = byHeight[i],
         byHeight' = blocks, index' = IndexWith(b, Len(blocks) - 1),
         stored' \subseteq stored \cup {b}
  PROVE  /\ \A x \in DOMAIN index' : index'[x].height \in Nat \cup {-1}
         /\ ReadableHeights'
<1>1. /\ \A x \in DOMAIN index : index[x].height \in Nat \cup {-1}
      /\ byHeight \in Seq(Block) /\ ReadableHeights
  BY DEF SafeInv
<1>2. /\ DOMAIN index' = DOMAIN index \cup {b}
      /\ index'[b].height = Len(blocks) - 1
      /\ \A x \in DOMAIN index : index'[x] = index[x]
  BY DEF IndexWith, NewEntry
<1>3. \A x \in DOMAIN index' : index'[x].height \in Nat \cup {-1}
  BY <1>1, <1>2
<1>4. ASSUME NEW i \in DOMAIN blocks, blocks[i] \in stored' \cap DOMAIN index'
      PROVE  index'[blocks[i]].height = i - 1
  <2>1. CASE i = Len(blocks)
    BY <1>2, <2>1
  <2>2. CASE i # Len(blocks)
    <3>1. i \in 1..Len(blocks) - 1 /\ i \in DOMAIN byHeight
      BY <1>1, <2>2
    <3>2. blocks[i] = byHeight[i] /\ blocks[i] # b
      BY <2>2, <3>1, ChainDistinct
    <3>3. byHeight[i] \in stored \cap DOMAIN index
      BY <1>2, <1>4, <3>2
    <3>4. index[byHeight[i]].height = i - 1
      BY <1>1, <3>1, <3>3 DEF ReadableHeights
    <3>5. QED
      BY <1>2, <3>2, <3>3, <3>4
  <2>3. QED
    BY <2>1, <2>2
<1>5. ReadableHeights'
  BY <1>4 DEF ReadableHeights
<1>6. QED
  BY <1>3, <1>5

\* WriteBlock and SaveChainState, failing or not.
LEMMA Writes ==
  /\ \A b \in Block : \A d \in WriteBlock(b) : d \subseteq stored \cup {b}
  /\ \A s : \A d \in SaveChainState(s) : d = s \/ d = saved
BY DEF WriteBlock, SaveChainState

\* Nothing but coins and names of the saved state is left after a crash.
LEMMA DeadStep ==
  ASSUME SafeInv, MemoryLost, stored' \subseteq Block,
         saved' = saved \/ saved' = NoState
  PROVE  SafeInv'
<1>1. /\ running' = FALSE /\ byHeight' = <<>>
      /\ <<>> \in Seq(Block) /\ NoState.byHeight = <<>>
  BY DEF MemoryLost, NoState
<1>2. /\ saved'.byHeight \in Seq(Block)
      /\ saved'.byHeight # <<>> => IsState(saved')
  BY <1>1 DEF SafeInv
<1>3. QED
  BY <1>1, <1>2 DEF SafeInv

\* Every step keeps the inductive invariant unless SaveChainState is torn
\* after its magic.
LEMMA SafeStep ==
  ASSUME "torn_state" \notin Faults, SafeInv, [Next]_vars
  PROVE  SafeInv'
<1> USE DEF SafeInv
<1>1. CASE Loadable /\ LoadSaved /\ running' = TRUE
  <2>1. saved.byHeight # <<>>
    BY <1>1 DEF Loadable, ReadPositions
  <2>2. /\ stored' = stored /\ saved' = saved /\ byHeight' = saved.byHeight
        /\ height' = saved.height /\ tipHash' = saved.tipHash
        /\ view' = saved.view
        /\ index' = RebuiltIndex(saved.byHeight, saved.tipHash)
    BY <1>1 DEF LoadSaved, disk
  <2>3. IsState(saved) /\ IsChain(saved.byHeight)
    BY <2>1 DEF IsState
  <2>4. /\ \A b \in DOMAIN index' : index'[b].height \in Nat \cup {-1}
        /\ \A i \in DOMAIN saved.byHeight : saved.byHeight[i] \in stored =>
             index'[saved.byHeight[i]].height = i - 1
    BY <2>2, <2>3, RebuiltHeights
  <2>5. ReadableHeights'
    BY <2>2, <2>4 DEF ReadableHeights
  <2>6. IsState([view |-> view', height |-> height', tipHash |-> tipHash',
                 byHeight |-> byHeight'])
    BY <2>2, <2>3 DEF IsState
  <2>7. QED
    BY <1>1, <2>2, <2>3, <2>4, <2>5, <2>6
<1>2. CASE ApplyGenesis /\ running' = TRUE
  <2> DEFINE s == State(CheckBlock(Genesis, 0, NoCoins).view, <<Genesis>>)
  <2>1. /\ CheckBlock(Genesis, 0, NoCoins).ok
        /\ view' = CheckBlock(Genesis, 0, NoCoins).view
        /\ height' = 0 /\ tipHash' = Genesis /\ byHeight' = <<Genesis>>
        /\ DOMAIN index' = {Genesis} /\ index'[Genesis].height = 0
        /\ stored' \in {GenesisWritten, stored}
        /\ saved' \in SaveChainState(s)
    BY <1>2 DEF ApplyGenesis, GenesisInMemory, WriteGenesis, SavedGenesis
  <2>2. IsState(s) /\ s.byHeight = <<Genesis>> /\ <<Genesis>> \in Seq(Block)
    BY <2>1, GenesisState DEF State
  <2>3. IsState([view |-> view', height |-> height', tipHash |-> tipHash',
                 byHeight |-> byHeight'])
    BY <2>1, <2>2 DEF IsState, State
  <2> HIDE DEF s
  <2>4. stored' \subseteq Block
    BY <2>1, BlockAssumption DEF GenesisWritten
  <2>5. saved' = s \/ saved' = saved
    BY <2>1, Writes
  <2>6. ReadableHeights'
    BY <2>1 DEF ReadableHeights
  <2>7. \A b \in DOMAIN index' : index'[b].height \in Nat \cup {-1}
    BY <2>1
  <2>8. /\ saved'.byHeight \in Seq(Block)
        /\ saved'.byHeight # <<>> => IsState(saved')
    BY <2>2, <2>5
  <2>9. QED
    BY <1>2, <2>1, <2>2, <2>3, <2>4, <2>6, <2>7, <2>8
<1>3. CASE CrashInStart
  <2>1. /\ running' = running /\ byHeight' = byHeight /\ ~running
        /\ saved' = saved \/ saved' \in TornState(SavedGenesis)
        /\ stored' \in WriteGenesis \/ stored' \in TornIndex(GenesisWritten)
    BY <1>3 DEF CrashInStart, memory
  <2>2. stored' \subseteq Block
    BY <2>1, BlockAssumption DEF GenesisWritten, WriteGenesis, TornIndex
  <2>3. saved' = saved \/ saved' = NoState
    BY <2>1 DEF TornState
  <2>4. /\ saved'.byHeight \in Seq(Block)
        /\ saved'.byHeight # <<>> => IsState(saved')
    <3>1. NoState.byHeight = <<>> /\ <<>> \in Seq(Block)
      BY DEF NoState
    <3>2. QED
      BY <2>3, <3>1
  <2>5. QED
    BY <2>1, <2>2, <2>4
<1>4. CASE Crash
  BY <1>4, DeadStep DEF Crash, disk
<1>5. ASSUME NEW b \in Block, Extend(b) PROVE SafeInv'
  <2> DEFINE s == Extended(b)
  <2>1. /\ running /\ running' = running /\ CanExtend(b)
        /\ view' = s.view /\ height' = s.height /\ tipHash' = b
        /\ byHeight' = s.byHeight /\ index' = IndexWith(b, s.height)
        /\ stored' \in WriteBlock(b) /\ saved' \in SaveChainState(s)
    BY <1>5 DEF Extend
  <2>2. IsState(s) /\ s.byHeight \in Seq(Block) /\ s.height \in Nat
    BY <2>1, ExtendedState
  <2>3. s.tipHash = b /\ s.byHeight = Append(byHeight, b)
    BY DEF Extended
  <2> HIDE DEF s
  <2>4. /\ stored' \subseteq stored \cup {b} /\ saved' \in {s, saved}
        /\ b \notin DOMAIN index
    BY <2>1, Writes DEF CanExtend, IsCandidate, HaveBlock
  <2>5. IsState([view |-> view', height |-> height', tipHash |-> tipHash',
                 byHeight |-> byHeight'])
    BY <2>1, <2>2, <2>3 DEF IsState
  <2>6. /\ \A x \in DOMAIN index' : index'[x].height \in Nat \cup {-1}
        /\ ReadableHeights'
    <3>1. /\ IsChain(s.byHeight) /\ s.height = Len(s.byHeight) - 1
          /\ s.byHeight[Len(s.byHeight)] = b
      BY <2>2, <2>3 DEF IsState
    <3>2. /\ Len(s.byHeight) \in Nat \ {0}
          /\ Len(s.byHeight) - 1 <= Len(byHeight)
          /\ \A i \in 1..Len(s.byHeight) - 1 : s.byHeight[i] = byHeight[i]
      BY <2>3
    <3>3. QED
      BY <2>1, <2>2, <2>4, <3>1, <3>2, HeightsStay
  <2>7. QED
    BY <2>1, <2>2, <2>4, <2>5, <2>6
<1>6. ASSUME NEW b \in Block, Reorganize(b) PROVE SafeInv'
  <2> DEFINE blocks == ForkBlocks(b)
  <2>1. /\ running /\ running' = running /\ CanReorganize(b)
        /\ view' = Replay(blocks) /\ height' = Len(blocks) - 1 /\ tipHash' = b
        /\ byHeight' = blocks /\ index' = IndexWith(b, Len(blocks) - 1)
        /\ stored' \in WriteBlock(b) /\ saved' = saved
    BY <1>6 DEF Reorganize
  <2>2. /\ blocks \in Seq(Block) /\ IsChain(blocks)
        /\ Len(blocks) \in Nat \ {0} /\ Len(blocks) - 1 <= Len(byHeight)
        /\ blocks[Len(blocks)] = b
        /\ \A i \in 1..Len(blocks) - 1 : blocks[i] = byHeight[i]
    BY <2>1, ForkState
  <2> HIDE DEF blocks
  <2>3. stored' \subseteq stored \cup {b} /\ b \notin DOMAIN index
    BY <2>1, Writes DEF CanReorganize, IsCandidate, HaveBlock
  <2>4. IsState([view |-> view', height |-> height', tipHash |-> tipHash',
                 byHeight |-> byHeight'])
    BY <2>1, <2>2 DEF IsState
  <2>5. /\ \A x \in DOMAIN index' : index'[x].height \in Nat \cup {-1}
        /\ ReadableHeights'
    BY <2>1, <2>2, <2>3, HeightsStay
  <2>6. QED
    BY <2>1, <2>2, <2>3, <2>4, <2>5
<1>7. ASSUME NEW b \in Block, CrashInExtend(b) \/ CrashInReorganize(b)
      PROVE  SafeInv'
  <2>1. \A d \in TornIndex(stored \cup {b}) : d \subseteq Block
    BY DEF TornIndex
  <2>2. \A d \in TornState(Extended(b)) : d = NoState
    BY DEF TornState
  <2>3. stored' \subseteq Block /\ (saved' = saved \/ saved' = NoState)
    BY <1>7, <2>1, <2>2 DEF CrashInExtend, CrashInReorganize, WriteBlock
  <2>4. QED
    BY <1>7, <2>3, DeadStep DEF CrashInExtend, CrashInReorganize
<1>8. CASE UNCHANGED vars
  BY <1>8 DEF vars, IsState, ReadableHeights
<1>9. QED
  BY <1>1, <1>2, <1>3, <1>4, <1>5, <1>6, <1>7, <1>8 DEF Next, Start

\* The inductive invariant holds of every behaviour.
LEMMA SafeInvariant ==
  ASSUME "torn_state" \notin Faults
  PROVE  Spec => []SafeInv
<1>1. Init => SafeInv
  <2>1. <<>> \in Seq(Block) /\ NoState.byHeight = <<>>
    BY DEF NoState
  <2>2. QED
    BY <2>1 DEF Init, SafeInv
<1>2. SafeInv /\ [Next]_vars => SafeInv'
  BY SafeStep
<1>3. QED
  BY <1>1, <1>2, PTL DEF Spec

\* The active chain is a path of the block tree from genesis whose end is the
\* tip, after any extensions, reorganisations, crashes, lost writes and torn
\* index files.
THEOREM ActiveChainSound ==
  ASSUME "torn_state" \notin Faults
  PROVE  Spec => []ActiveChainIsPath
<1>1. SafeInv => ActiveChainIsPath
  BY DEF SafeInv, IsState, ActiveChainIsPath
<1>2. QED
  BY <1>1, SafeInvariant, PTL

\* The coins in memory are always those of the active chain replayed from
\* genesis.
THEOREM CoinsSound ==
  ASSUME "torn_state" \notin Faults
  PROVE  Spec => []ViewIsReplay
<1>1. SafeInv => ViewIsReplay
  BY DEF SafeInv, IsState, ViewIsReplay
<1>2. QED
  BY <1>1, SafeInvariant, PTL

-----------------------------------------------------------------------------
(* Types *)

\* Zero is an amount of work, and an amount of work is an integer.
LEMMA WorkType ==
  0 \in Uint256 /\ Uint256 \subseteq Int
BY WorkAssumption DEF Uint256

\* The sum of two amounts of work is one.
LEMMA PlusType ==
  ASSUME NEW a \in Int, NEW b \in Block
  PROVE  Plus256(a, Work(b)) \in Uint256
BY WorkAssumption, WorkType DEF Plus256, Uint256

\* The works LoadFromStorage adds up along a chain, one block at a time.
LEMMA RebuiltUnfold ==
  ASSUME NEW s \in Seq(Block), IsChain(s)
  PROVE  LET work == RebuiltWork(s)
         IN  work = [i \in 1..Len(s) |->
                       IF s[i] \notin stored THEN 0
                       ELSE IF i = 1 THEN Work(s[i])
                       ELSE Plus256(IF s[i - 1] \in stored THEN work[i - 1]
                                    ELSE 0, Work(s[i]))]
<1> DEFINE Before(i) == {j \in 1..i - 1 : s[j] = Prev(s[i]) /\ s[j] \in stored}
           First == IF s[1] \notin stored THEN 0 ELSE Work(s[1])
           Step(i, w) == IF s[i] \notin stored THEN 0
                         ELSE Plus256(IF s[i - 1] \in stored THEN w ELSE 0,
                                      Work(s[i]))
           Value(i, f) == IF s[i] \notin stored THEN 0
                          ELSE IF i = 1 THEN Work(s[i])
                          ELSE Plus256(IF Before(i) = {} THEN 0
                                       ELSE f[Max(Before(i))], Work(s[i]))
           At(i, f) == IF i = 1 THEN First ELSE Step(i, f[i - 1])
           Rec(f, m) == f = [i \in 1..m |-> At(i, f)]
           S == {m \in Nat : \E f : Rec(f, m)}
<1>1. ASSUME NEW i \in 1..Len(s), NEW f PROVE Value(i, f) = At(i, f)
  <2> SUFFICES ASSUME i # 1
               PROVE  (IF Before(i) = {} THEN 0 ELSE f[Max(Before(i))])
                        = (IF s[i - 1] \in stored THEN f[i - 1] ELSE 0)
    OBVIOUS
  <2>1. i - 1 \in 1..Len(s) - 1 /\ (i - 1) + 1 = i /\ i - 1 \in 1..i - 1
    OBVIOUS
  <2>2. Prev(s[i]) = s[i - 1]
    BY <2>1 DEF IsChain
  <2>3. \A j \in 1..i - 1 : s[j] = s[i - 1] => j = i - 1
    BY <2>1, ChainDistinct
  <2>4. CASE s[i - 1] \in stored
    <3>1. Before(i) = {i - 1}
      BY <2>1, <2>2, <2>3, <2>4
    <3>2. Max({i - 1}) = i - 1
      BY DEF Max
    <3>3. QED
      BY <2>4, <3>1, <3>2
  <2>5. CASE s[i - 1] \notin stored
    <3>1. Before(i) = {}
      BY <2>2, <2>3, <2>5
    <3>2. QED
      BY <2>5, <3>1
  <2>6. QED
    BY <2>4, <2>5
<1>2. DOMAIN s = 1..Len(s)
  OBVIOUS
<1>3. RebuiltWork(s) = CHOOSE f : f = [i \in DOMAIN s |-> Value(i, f)]
  BY DEF RebuiltWork
<1> HIDE DEF Step, Value, First
<1>4. 0 \in S
  <2>1. Rec([i \in 1..0 |-> 0], 0)
    OBVIOUS
  <2> HIDE DEF Rec
  <2>2. QED
    BY <2>1
<1>5. ASSUME NEW m \in Nat, m \in S PROVE m + 1 \in S
  <2>1. PICK f : Rec(f, m)
    BY <1>5
  <2> DEFINE g == [i \in 1..m + 1 |-> IF i = m + 1 THEN At(m + 1, f) ELSE f[i]]
  <2>2. \A i \in 1..m : f[i] = At(i, f)
    BY <2>1
  <2>3. ASSUME NEW i \in 1..m + 1 PROVE g[i] = At(i, g)
    <3>1. i # 1 => i - 1 \in 1..m /\ g[i - 1] = f[i - 1]
      OBVIOUS
    <3>2. At(i, g) = At(i, f)
      <4> HIDE DEF g
      <4> QED
        BY <3>1
    <3>3. g[i] = At(i, f)
      BY <2>2
    <3>4. QED
      BY <3>2, <3>3
  <2>4. Rec(g, m + 1)
    <3> HIDE DEF At
    <3> QED
      BY <2>3
  <2> HIDE DEF Rec, g
  <2>5. QED
    BY <2>4
<1>6. \E f : Rec(f, Len(s))
  <2> HIDE DEF S
  <2>1. Nat \subseteq S
    BY <1>4, <1>5, NatSetInduction
  <2>2. Len(s) \in S
    BY <2>1
  <2>3. QED
    BY <2>2 DEF S
<1>7. PICK f : f = [i \in DOMAIN s |-> Value(i, f)]
  <2>1. PICK f : Rec(f, Len(s))
    BY <1>6
  <2> HIDE DEF At
  <2>2. f = [i \in DOMAIN s |-> Value(i, f)]
    BY <1>1, <1>2, <2>1
  <2>3. QED
    BY <2>2
<1>8. RebuiltWork(s) = [i \in DOMAIN s |-> Value(i, RebuiltWork(s))]
  BY <1>3, <1>7, Zenon
<1>9. PICK w : w = RebuiltWork(s)
  OBVIOUS
<1>10. w = [i \in 1..Len(s) |-> At(i, w)]
  <2> HIDE DEF At
  <2>1. QED
    BY <1>1, <1>2, <1>8, <1>9
<1>11. QED
  BY <1>9, <1>10 DEF First, Step

\* They are amounts of work.
LEMMA RebuiltType ==
  ASSUME NEW s \in Seq(Block), IsChain(s)
  PROVE  \A i \in 1..Len(s) : RebuiltWork(s)[i] \in Uint256
<1> DEFINE work == RebuiltWork(s)
           S == {n \in Nat : n + 1 <= Len(s) => work[n + 1] \in Uint256}
<1>1. \A i \in 1..Len(s) :
        work[i] = IF s[i] \notin stored THEN 0
                  ELSE IF i = 1 THEN Work(s[i])
                  ELSE Plus256(IF s[i - 1] \in stored THEN work[i - 1] ELSE 0,
                               Work(s[i]))
  <2>1. PICK w : w = work
    OBVIOUS
  <2>2. w = [i \in 1..Len(s) |->
               IF s[i] \notin stored THEN 0
               ELSE IF i = 1 THEN Work(s[i])
               ELSE Plus256(IF s[i - 1] \in stored THEN w[i - 1] ELSE 0,
                            Work(s[i]))]
    BY <2>1, RebuiltUnfold
  <2> HIDE DEF work
  <2>3. QED
    BY <2>1, <2>2
<1> HIDE DEF work
<1>2. \A i \in 1..Len(s) : s[i] \in Block /\ Work(s[i]) \in Uint256
  BY WorkAssumption
<1>3. 0 \in S
  BY <1>1, <1>2, WorkType
<1>4. ASSUME NEW n \in Nat, n \in S PROVE n + 1 \in S
  <2> SUFFICES ASSUME (n + 1) + 1 <= Len(s) PROVE work[(n + 1) + 1] \in Uint256
    OBVIOUS
  <2> DEFINE w == IF s[n + 1] \in stored THEN work[n + 1] ELSE 0
  <2>1. w \in Uint256
    <3>1. n \in S /\ n + 1 <= Len(s)
      BY <1>4
    <3>2. QED
      BY <3>1, WorkType
  <2>2. n + 2 \in 1..Len(s) /\ n + 2 # 1 /\ (n + 2) - 1 = n + 1
    OBVIOUS
  <2>3. work[n + 2] \in {0, Plus256(w, Work(s[n + 2]))}
    BY <1>1, <2>2
  <2> HIDE DEF w
  <2>4. Plus256(w, Work(s[n + 2])) \in Uint256
    <3>1. w \in Int /\ s[n + 2] \in Block
      BY <1>2, <2>1, <2>2, WorkType
    <3>2. QED
      BY <3>1, PlusType
  <2>5. work[n + 2] \in Uint256
    BY <2>3, <2>4, WorkType
  <2>6. QED
    BY <2>5
<1>5. Nat \subseteq S
  <2> HIDE DEF S
  <2>1. QED
    BY <1>3, <1>4, NatSetInduction
<1> SUFFICES ASSUME NEW i \in 1..Len(s) PROVE work[i] \in Uint256
  BY DEF work
<1>6. i - 1 \in S /\ (i - 1) + 1 = i
  BY <1>5
<1>7. QED
  BY <1>6

\* The index LoadFromStorage rebuilds has entries of the right type.
LEMMA RebuiltIndexType ==
  ASSUME NEW s \in Seq(Block), IsChain(s), NEW tip \in Block,
         NEW idx, idx = RebuiltIndex(s, tip)
  PROVE  /\ DOMAIN idx \subseteq Block \cup {NoBlock} /\ tip \in DOMAIN idx
         /\ \A b \in DOMAIN idx : idx[b] \in Entry
<1> DEFINE read == ReadPositions(s)
           At(b) == {i \in read : s[i] = b}
           work == RebuiltWork(s)
           dom == {s[i] : i \in read} \cup {Prev(s[i]) : i \in read \ {1}}
                    \cup {tip}
<1>1. /\ read \subseteq 1..Len(s) /\ \A i \in read : s[i] \in Block
      /\ \A i \in read : i - 1 \in Int /\ i \in Int
  BY DEF ReadPositions
<1>2. idx = [b \in dom |->
               IF At(b) = {} THEN DefaultEntry
               ELSE [height |-> Max(At(b)) - 1, chainWork |-> work[Max(At(b))]]]
  BY DEF RebuiltIndex
<1>3. DOMAIN idx = dom
  BY <1>2
<1>4. dom \subseteq Block \cup {NoBlock}
  BY <1>1, BlockAssumption DEF Prev, HeaderType
<1>5. \A i \in read : work[i] \in Uint256
  BY <1>1, RebuiltType
<1>6. \A b : At(b) # {} => Max(At(b)) \in read
  <2> TAKE b
  <2> HAVE At(b) # {}
  <2>1. PICK i \in read : s[i] = b
    OBVIOUS
  <2>2. At(b) = {i}
    BY <1>1, <2>1, ChainDistinct
  <2>3. Max({i}) = i
    BY <1>1 DEF Max
  <2>4. QED
    BY <2>1, <2>2, <2>3
<1>7. DefaultEntry \in Entry
  BY WorkType DEF DefaultEntry, Entry
<1>8. ASSUME NEW b \in dom PROVE idx[b] \in Entry
  <2> HIDE DEF dom, work, read, At
  <2>1. CASE At(b) = {}
    BY <1>2, <1>7, <2>1
  <2>2. CASE At(b) # {}
    <3>1. idx[b] = [height |-> Max(At(b)) - 1, chainWork |-> work[Max(At(b))]]
      BY <1>2, <2>2
    <3>2. Max(At(b)) - 1 \in Int /\ work[Max(At(b))] \in Uint256
      BY <1>1, <1>5, <1>6, <2>2
    <3>3. QED
      BY <3>1, <3>2 DEF Entry
  <2>3. QED
    BY <2>1, <2>2
<1>9. tip \in dom
  OBVIOUS
<1>10. QED
  BY <1>3, <1>4, <1>8, <1>9

\* The end of a sound state is a block, and its height a number.
LEMMA StateType ==
  ASSUME NEW s, IsState(s), s.byHeight \in Seq(Block)
  PROVE  s.height \in Int /\ s.tipHash \in Block
<1>1. Len(s.byHeight) \in Nat \ {0}
  BY DEF IsState, IsChain
<1>2. QED
  BY <1>1 DEF IsState

\* A new index entry is one, and disturbs no other.
LEMMA NewEntryType ==
  ASSUME TypeOK, NEW b \in Block, NEW h \in Int, Prev(b) \in DOMAIN index,
         NEW idx, idx = IndexWith(b, h)
  PROVE  /\ DOMAIN idx \subseteq Block \cup {NoBlock}
         /\ \A x \in DOMAIN idx : idx[x] \in Entry
         /\ idx[b].chainWork \in Uint256
<1>1. index[Prev(b)].chainWork \in Uint256
  BY DEF TypeOK, Entry
<1>2. Plus256(index[Prev(b)].chainWork, Work(b)) \in Uint256
  BY <1>1, PlusType, WorkType
<1>3. NewEntry(b, h) \in Entry /\ NewEntry(b, h).chainWork \in Uint256
  BY <1>2 DEF NewEntry, Entry
<1>4. /\ DOMAIN idx = DOMAIN index \cup {b} /\ idx[b] = NewEntry(b, h)
      /\ \A x \in DOMAIN index : idx[x] \in {index[x], NewEntry(b, h)}
  BY DEF IndexWith
<1>5. QED
  BY <1>3, <1>4 DEF TypeOK

\* Every step keeps the types.
LEMMA TypeStep ==
  ASSUME "torn_state" \notin Faults, SafeInv, SafeInv', TypeOK, [Next]_vars
  PROVE  TypeOK'
<1>1. /\ running' \in BOOLEAN /\ stored' \subseteq Block
      /\ byHeight' \in Seq(Block) /\ saved'.byHeight \in Seq(Block)
  BY DEF SafeInv
<1>2. saved'.byHeight # <<>> =>
        saved'.height \in Int /\ saved'.tipHash \in Block
  BY StateType DEF SafeInv
<1>3. running' => height' \in Int /\ tipHash' \in Block
  <2> DEFINE s == [view |-> view', height |-> height', tipHash |-> tipHash',
                   byHeight |-> byHeight']
  <2>1. SUFFICES ASSUME running' PROVE height' \in Int /\ tipHash' \in Block
    OBVIOUS
  <2>2. IsState(s) /\ s.byHeight \in Seq(Block)
    BY <2>1 DEF SafeInv
  <2>3. s.height = height' /\ s.tipHash = tipHash'
    OBVIOUS
  <2> HIDE DEF s
  <2>4. QED
    BY <2>2, <2>3, StateType
<1>4. ASSUME NEW st, st = NoState
      PROVE  st.height \in Int /\ st.tipHash \in Block \cup {NoBlock}
  BY <1>4 DEF NoState
<1> DEFINE IndexOK == /\ DOMAIN index' \subseteq Block \cup {NoBlock}
                      /\ \A b \in DOMAIN index' : index'[b] \in Entry
                      /\ chainWork' \in Uint256
           SavedOK == /\ saved'.height \in Int
                      /\ saved'.tipHash \in Block \cup {NoBlock}
<1>5. CASE MemoryLost /\ (saved' = saved \/ saved' = NoState)
  <2>1. IndexOK /\ height' \in Int /\ tipHash' \in Block \cup {NoBlock}
    BY <1>5, WorkType DEF MemoryLost
  <2>2. SavedOK
    BY <1>4, <1>5 DEF TypeOK
  <2>3. QED
    BY <1>1, <2>1, <2>2 DEF TypeOK
<1>6. ASSUME running', IndexOK, SavedOK PROVE TypeOK'
  BY <1>1, <1>3, <1>6 DEF TypeOK
<1>7. CASE Loadable /\ LoadSaved /\ running' = TRUE
  <2>1. /\ saved' = saved /\ saved.byHeight # <<>>
        /\ index' = RebuiltIndex(saved.byHeight, saved.tipHash)
        /\ chainWork' = index'[saved.tipHash].chainWork
    BY <1>7 DEF LoadSaved, disk, Loadable, ReadPositions
  <2>2. IsChain(saved.byHeight) /\ saved.byHeight \in Seq(Block)
    BY <2>1 DEF SafeInv, IsState
  <2>3. saved.tipHash \in Block
    BY <1>2, <2>1
  <2>4. /\ DOMAIN index' \subseteq Block \cup {NoBlock}
        /\ saved.tipHash \in DOMAIN index'
        /\ \A b \in DOMAIN index' : index'[b] \in Entry
    BY <2>1, <2>2, <2>3, RebuiltIndexType
  <2>5. chainWork' \in Uint256
    BY <2>1, <2>4 DEF Entry
  <2>6. QED
    BY <1>6, <1>7, <2>1, <2>4, <2>5 DEF TypeOK
<1>8. CASE ApplyGenesis /\ running' = TRUE
  <2> DEFINE s == State(CheckBlock(Genesis, 0, NoCoins).view, <<Genesis>>)
  <2>1. /\ index' = [b \in {Genesis} |->
                       [height |-> 0, chainWork |-> Work(Genesis)]]
        /\ chainWork' = Work(Genesis) /\ saved' \in SaveChainState(s)
    BY <1>8 DEF ApplyGenesis, GenesisInMemory, SavedGenesis
  <2>2. Genesis \in Block /\ Work(Genesis) \in Uint256
    BY BlockAssumption, WorkAssumption
  <2>3. IndexOK
    BY <2>1, <2>2 DEF Entry
  <2>4. s.height \in Int /\ s.tipHash \in Block
    BY <2>2 DEF State
  <2> HIDE DEF s
  <2>5. SavedOK
    BY <2>1, <2>4, Writes DEF TypeOK
  <2>6. QED
    BY <1>6, <1>8, <2>3, <2>5
<1>9. CASE CrashInStart
  <2>1. /\ UNCHANGED memory
        /\ saved' = saved \/ saved' = NoState
    BY <1>9 DEF CrashInStart, TornState
  <2>2. SavedOK
    BY <1>4, <2>1 DEF TypeOK
  <2>3. QED
    BY <1>1, <2>1, <2>2 DEF memory, TypeOK
<1>10. ASSUME NEW b \in Block, Extend(b) PROVE TypeOK'
  <2>1. /\ running' /\ CanExtend(b)
        /\ index' = IndexWith(b, Extended(b).height)
        /\ chainWork' = index'[b].chainWork
        /\ saved' \in SaveChainState(Extended(b))
    BY <1>10 DEF Extend
  <2>2. Extended(b).height \in Int /\ Prev(b) \in DOMAIN index
    BY <1>10, ExtendedState DEF Extend, CanExtend, IsCandidate
  <2>3. IndexOK
    BY <2>1, <2>2, NewEntryType
  <2>4. Extended(b).tipHash = b
    BY DEF Extended
  <2>5. SavedOK
    BY <2>1, <2>2, <2>4, Writes DEF TypeOK
  <2>6. QED
    BY <1>6, <2>1, <2>3, <2>5
<1>11. ASSUME NEW b \in Block, Reorganize(b) PROVE TypeOK'
  <2>1. /\ running' /\ running /\ CanReorganize(b)
        /\ index' = IndexWith(b, Len(ForkBlocks(b)) - 1)
        /\ chainWork' = chainWork /\ saved' = saved
    BY <1>11 DEF Reorganize
  <2>2. Len(ForkBlocks(b)) - 1 \in Int /\ Prev(b) \in DOMAIN index
    BY <2>1, ForkState DEF CanReorganize, IsCandidate
  <2>3. IndexOK
    BY <2>1, <2>2, NewEntryType DEF TypeOK
  <2>4. QED
    BY <1>6, <2>1, <2>3 DEF TypeOK
<1>12. CASE Crash
  BY <1>5, <1>12 DEF Crash, disk
<1>13. ASSUME NEW b \in Block, CrashInExtend(b) \/ CrashInReorganize(b)
       PROVE  TypeOK'
  <2>1. \A d \in TornState(Extended(b)) : d = NoState
    BY DEF TornState
  <2>2. QED
    BY <1>5, <1>13, <2>1 DEF CrashInExtend, CrashInReorganize
<1>14. CASE UNCHANGED vars
  BY <1>14 DEF vars, TypeOK
<1>15. QED
  BY <1>7, <1>8, <1>9, <1>10, <1>11, <1>12, <1>13, <1>14 DEF Next, Start

\* Every variable keeps the type of the member it stands for.
THEOREM TypeCorrect ==
  ASSUME "torn_state" \notin Faults
  PROVE  Spec => []TypeOK
<1>1. ASSUME Init PROVE TypeOK
  <2>1. /\ running \in BOOLEAN /\ height \in Int /\ tipHash = NoBlock
        /\ chainWork \in Uint256 /\ stored \subseteq Block
    <3>1. /\ running = FALSE /\ height = -1 /\ tipHash = NoBlock
          /\ chainWork = 0 /\ stored = {}
      BY <1>1 DEF Init
    <3>2. height \in Int /\ chainWork \in Uint256
      BY <3>1, WorkType
    <3>3. QED
      BY <3>1, <3>2, Zenon
  <2>2. DOMAIN index = {}
    BY <1>1 DEF Init
  <2>3. byHeight \in Seq(Block) /\ saved.byHeight \in Seq(Block)
    <3>1. byHeight = <<>> /\ saved.byHeight = <<>>
      BY <1>1 DEF Init, NoState
    <3>2. QED
      BY <3>1
  <2>4. saved.height \in Int /\ saved.tipHash = NoBlock
    BY <1>1 DEF Init, NoState
  <2>5. QED
    BY <2>1, <2>2, <2>3, <2>4 DEF TypeOK
<1>2. SafeInv /\ SafeInv' /\ TypeOK /\ [Next]_vars => TypeOK'
  BY TypeStep
<1>3. QED
  BY <1>1, <1>2, SafeInvariant, PTL DEF Spec
=============================================================================
