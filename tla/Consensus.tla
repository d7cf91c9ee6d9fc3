----------------------------- MODULE Consensus -----------------------------
(***************************************************************************)
(* The arithmetic of the consensus rules: compact targets, proof of work,  *)
(* the work of a block, the difficulty retarget and the block subsidy.     *)
(*                                                                         *)
(* The code's integers are 256 bits wide and its compact encoding is base  *)
(* 256; here the base is Radix and an integer has Width digits, so that    *)
(* the same arithmetic, with the same truncations, fits a small instance.  *)
(* Radix = 256 and Width = 32 is the code.                                 *)
(***************************************************************************)
EXTENDS Integers, Sequences, FiniteSets, FiniteSetsExt

CONSTANTS Radix, Width, Params

\* The base of the compact encoding is even: its sign bit halves the word.
ASSUME RadixAssumption ==
  /\ Radix \in Nat /\ Radix >= 2 /\ Radix % 2 = 0
  /\ Width \in Nat /\ Width >= 3

\* The fields of ChainParams, and of the constants of networks.h and
\* rules.h, that the consensus rules read.
ASSUME ParamsAssumption ==
  Params \in [powNoRetarget : BOOLEAN, targetBlockTime : Nat,
              difficultyInterval : Nat \ {0}, maxAdjustment : Nat \ {0},
              minDifficultyBits : [size : Nat, word : Nat],
              initialBlockReward : Nat, halvingInterval : Nat \ {0},
              coinbaseMaturity : Nat, maxMoney : Nat,
              maxTxCount : Nat \ {0}, minRelayFee : Nat]

-----------------------------------------------------------------------------
(* uint256 *)

\* The number of values of a uint256.
Space == Radix^Width

Uint256 == 0..Space - 1

\* operator+ drops the carry out of the top word.
Plus256(a, b) == (a + b) % Space

\* The sign bit of a three-digit word.
SignBit == Radix^3 \div 2

\* The number of digits of t: nSize in getCompact.
DigitCount(t) == Min({k \in 0..Width : t < Radix^k})

\* Mutant: the leading bit is left where it reads as a sign.
GetCompactSigned(t) ==
  LET n == DigitCount(t)
  IN  [size |-> n, word |-> IF n <= 3 THEN t * Radix^(3 - n)
                            ELSE t \div Radix^(n - 3)]

\* uint256::getCompact: the three leading digits and the digit count, one
\* digit less when the leading bit would read as a sign.
GetCompact(t) ==
  LET n == DigitCount(t)
      word == IF n <= 3 THEN t * Radix^(3 - n) ELSE t \div Radix^(n - 3)
  IN  IF t = 0 THEN [size |-> 0, word |-> 0]
      ELSE IF word >= SignBit THEN [size |-> n + 1, word |-> word \div Radix]
      ELSE [size |-> n, word |-> word]

\* uint256::setCompact: the sign bit is masked, digits shifted out are lost.
SetCompact(bits) ==
  LET word == bits.word % SignBit
  IN  IF bits.size <= 3
      THEN word \div Radix^(3 - bits.size)
      ELSE (word * Radix^(bits.size - 3)) % Space

-----------------------------------------------------------------------------
(* difficulty.cpp, chainwork.cpp *)

TargetFromBits(bits) == SetCompact(bits)

\* A target of zero is never met.
CheckProofOfWork(hash, bits) ==
  /\ TargetFromBits(bits) # 0
  /\ hash <= TargetFromBits(bits)

\* floor(2^256 / (target + 1)), except where the shift-and-subtract loop of
\* pow2_256_div runs out of bits: a divisor of one gives the largest number,
\* one above half the range shifts the dividend out and gives zero.
GetBlockWork(bits) ==
  LET target == TargetFromBits(bits)
  IN  IF target = 0 THEN Space - 1
      ELSE IF target >= Space \div 2 THEN 0
      ELSE Space \div (target + 1)

\* Mutants: the upper limit missing, or that of one block.
ClampedTimeBelow(actual) == Max({actual, Params.targetBlockTime \div 4})

\* The measured time, clamped from below by a quarter of the time of ONE
\* block and from above by maxAdjustment times that of an interval.
ClampedTime(actual) ==
  LET low == Params.targetBlockTime \div 4
      high == Params.targetBlockTime * Params.difficultyInterval
                * Params.maxAdjustment
  IN  Min({Max({actual, low}), high})

\* Does the block after a block of this height start a new interval?
IsNewInterval(lastHeight) == (lastHeight + 1) % Params.difficultyInterval = 0

GetNextWorkRequired(lastTime, lastHeight, lastBits, firstTime) ==
  LET expected == Params.targetBlockTime * Params.difficultyInterval
      scaled == ((TargetFromBits(lastBits) * ClampedTime(lastTime - firstTime))
                   % Space) \div expected
      maxTarget == TargetFromBits(Params.minDifficultyBits)
  IN  IF Params.powNoRetarget \/ ~IsNewInterval(lastHeight)
      THEN lastBits
      ELSE GetCompact(Min({scaled, maxTarget}))

-----------------------------------------------------------------------------
(* rewards.cpp *)

\* The reward shifted right by the number of halvings.
GetBlockSubsidy(height) ==
  LET halvings == height \div Params.halvingInterval
      shifted[k \in 0..63] == IF k = 0 THEN Params.initialBlockReward
                              ELSE shifted[k - 1] \div 2
  IN  IF halvings >= 64 THEN 0 ELSE shifted[halvings]

IsCoinbaseValueValid(value, subsidy, fees) == value <= subsidy + fees

\* Mutant: the last interval is counted whole.
GetCumulativeSupplyAtWhole(height) ==
  LET H == Params.halvingInterval
  IN  MapThenSumSet(LAMBDA i : GetBlockSubsidy(i * H) * H,
                    {i \in 0..height : i * H < height})

\* The loop of GetCumulativeSupplyAt: a whole halving interval at a time.
GetCumulativeSupplyAt(height) ==
  LET End(h) == Min({(h \div Params.halvingInterval + 1)
                       * Params.halvingInterval, height})
      total[h \in 0..height] ==
        IF h >= height \/ GetBlockSubsidy(h) = 0
        THEN 0
        ELSE GetBlockSubsidy(h) * (End(h) - h) + total[End(h)]
  IN  total[0]
=============================================================================
