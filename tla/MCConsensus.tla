---------------------------- MODULE MCConsensus ----------------------------
(***************************************************************************)
(* The arithmetic of module Consensus against reference definitions, for   *)
(* every input up to MaxInput: a target, a time or a height.               *)
(***************************************************************************)
EXTENDS Consensus

CONSTANT MaxInput

VARIABLE n

MCParams ==
  [powNoRetarget |-> FALSE, targetBlockTime |-> 4, difficultyInterval |-> 8,
   maxAdjustment |-> 4, minDifficultyBits |-> [size |-> 4, word |-> 31],
   initialBlockReward |-> 50, halvingInterval |-> 21, coinbaseMaturity |-> 2,
   maxMoney |-> 2100, maxTxCount |-> 10, minRelayFee |-> 1]

Init == n = 0

Next == n' = (n + 1) % (MaxInput + 1)

Spec == Init /\ [][Next]_n

-----------------------------------------------------------------------------

Rounded(t) == SetCompact(GetCompact(t))

\* A block that is harder to find never counts for less: the work computed
\* from bits does not grow with the target.
WorkFollowsTarget ==
  /\ Rounded(n) <= Rounded(n + 1)
  /\ GetBlockWork(GetCompact(n)) >= GetBlockWork(GetCompact(n + 1))

\* The target after an interval that took this long.
Retargeted(t, actual) ==
  TargetFromBits(GetNextWorkRequired(actual, Params.difficultyInterval - 1,
                                     GetCompact(t), 0))

MaxTarget == TargetFromBits(Params.minDifficultyBits)

\* A slower interval never makes the next one harder, nor any easier than
\* the minimum difficulty: the product of mul64 does not wrap.
RetargetMonotone ==
  n <= MaxTarget =>
    \A actual \in {k * Params.targetBlockTime : k \in 0..60} :
      /\ Retargeted(n, actual)
           <= Retargeted(n, actual + Params.targetBlockTime)
      /\ Retargeted(n, actual) <= MaxTarget

\* GetCumulativeSupplyAt, interval by interval, is the sum of the subsidies
\* block by block, also past the last subsidy, and never exceeds the cap of
\* two first intervals.
SupplyIsSum ==
  /\ GetCumulativeSupplyAt(0) = 0
  /\ GetCumulativeSupplyAt(n + 1) = GetCumulativeSupplyAt(n) + GetBlockSubsidy(n)
  /\ GetCumulativeSupplyAt(n)
       <= 2 * Params.initialBlockReward * Params.halvingInterval
=============================================================================
