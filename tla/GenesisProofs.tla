---------------------------- MODULE GenesisProofs ----------------------------
(***************************************************************************)
(* What a killed search for the genesis nonce costs, and what it reports,  *)
(* for every number of threads, nonces, winners and restarts: proofs about *)
(* module GenesisMiner.                                                    *)
(***************************************************************************)
EXTENDS GenesisMiner, FiniteSetTheorems, TLAPS

Place == {"claim", "check", "hash", "open", "write", "decide", "done"}

\* Nonce k is with a worker that has not tried it, or that gave it up.
Held(k) == \E w \in Worker : n[w] = k /\ at[w] \in {"check", "hash", "done"}

\* S accounts for every nonce the counter has passed: what is not in it has
\* been tried, or a worker of this run holds it.
Covers(S) == \A k \in 0 .. MaxNonce : k < counter => k \in hashed \cup S \/ Held(k)

\* The types, and how the file and the results follow the threads.
ThreadInv ==
  /\ at \in [Worker -> Place] /\ n \in [Worker -> Nat] /\ counter \in Nat
  /\ starts \in Nat \ {0} /\ lost \in BOOLEAN /\ found \in BOOLEAN
  /\ file \in Nat \cup {NoFile, Empty}
  /\ reporter \in {"loop", "write", "done"}
  /\ reporter # "done" /\ file \in Nat => file <= counter
  /\ reporter = "done" => found /\ file = foundNonce /\ \A w \in Worker : at[w] = "done"
  /\ found => foundNonce \in Winner
  /\ ~found => \A w \in Worker : at[w] = "done" => n[w] > MaxNonce
  /\ \A w \in Worker : at[w] \in {"open", "write", "decide"} => n[w] \in hashed

\* Earlier runs left at most one nonce per worker behind, and this run's
\* workers hold the rest.
CostInv ==
  ~lost => \E S : /\ IsFiniteSet(S)
                  /\ Cardinality(S) <= Cardinality(Worker) * (starts - 1)
                  /\ Covers(S)

\* The invariants hold at the start.
LEMMA GenesisInitInv == GenesisInit => ThreadInv /\ CostInv
<1> SUFFICES ASSUME GenesisInit PROVE ThreadInv /\ CostInv
  OBVIOUS
<1>1. ThreadInv
  <2>1. /\ at \in [Worker -> Place] /\ n \in [Worker -> Nat] /\ counter \in Nat
        /\ \A w \in Worker : at[w] = "claim"
    BY DEF GenesisInit, Place
  <2>2. ~found /\ lost \in BOOLEAN /\ found \in BOOLEAN
    BY Zenon DEF GenesisInit
  <2>3. file = NoFile /\ reporter = "loop" /\ starts = 1
    BY DEF GenesisInit
  <2>4. QED
    BY <2>1, <2>2, <2>3, GenesisMinerAssumption DEF ThreadInv
<1>2. IsFiniteSet({}) /\ Cardinality({}) = 0
  BY FS_EmptySet
<1>3. Cardinality(Worker) \in Nat
  BY GenesisMinerAssumption, FS_CardinalityType
<1>4. Covers({})
  BY DEF GenesisInit, Covers
<1>5. Cardinality(Worker) * (starts - 1) = 0
  BY <1>3 DEF GenesisInit
<1>6. QED
  BY <1>1, <1>2, <1>4, <1>5 DEF CostInv

\* Every step of a worker keeps ThreadInv.
LEMMA WorkerThread ==
  ASSUME ThreadInv, NEW w \in Worker, WorkerStep(w)
  PROVE  ThreadInv'
<1> USE GenesisMinerAssumption DEF ThreadInv, Place, runVars
<1>0. reporter # "done"
  BY DEF WorkerStep, Claim, CheckFound, Hash, SaveOpen, SaveWrite, Decide
<1>1. CASE Claim(w)
  BY <1>0, <1>1 DEF Claim
<1>2. CASE CheckFound(w)
  BY <1>0, <1>2 DEF CheckFound
<1>3. CASE Hash(w)
  BY <1>0, <1>3 DEF Hash
<1>4. CASE SaveOpen(w)
  BY <1>0, <1>4 DEF SaveOpen
<1>5. CASE SaveWrite(w)
  BY <1>0, <1>5 DEF SaveWrite
<1>6. CASE Decide(w)
  BY <1>0, <1>6 DEF Decide
<1>7. QED
  BY <1>1, <1>2, <1>3, <1>4, <1>5, <1>6 DEF WorkerStep

\* So do the steps of main and a kill.
LEMMA MainThread ==
  ASSUME ThreadInv, Main \/ KillAndRun
  PROVE  ThreadInv'
<1> USE GenesisMinerAssumption DEF ThreadInv, Place, runVars
<1>1. CASE ReportOpen
  BY <1>1 DEF ReportOpen
<1>2. CASE ReportWrite
  BY <1>2 DEF ReportWrite
<1>3. CASE Finish
  <2>1. found /\ foundNonce \in Winner
    BY <1>3 DEF Finish
  <2>2. foundNonce \in Nat
    BY <2>1
  <2>3. QED
    BY <1>3, <2>1, <2>2 DEF Finish
<1>4. CASE KillAndRun
  <2>1. PICK start \in Resumed : Running(start)
    BY <1>4 DEF KillAndRun
  <2>2. start \in Nat /\ (file \in Nat => start = file)
    BY <2>1 DEF Resumed
  <2>3. /\ at' \in [Worker -> Place] /\ n' \in [Worker -> Nat] /\ counter' = start
        /\ \A w \in Worker : at'[w] = "claim"
    BY <2>1 DEF Running
  <2>4. ~found' /\ found' \in BOOLEAN
    BY <2>1, Zenon DEF Running
  <2>5. lost' \in BOOLEAN
    BY <1>4, Zenon DEF KillAndRun
  <2>6. file' = file /\ reporter' = "loop" /\ starts' \in Nat \ {0}
    BY <1>4, <2>1 DEF KillAndRun, Running
  <2>7. QED
    BY <2>2, <2>3, <2>4, <2>5, <2>6
<1>5. QED
  BY <1>1, <1>2, <1>3, <1>4 DEF Main

\* Whatever accounts for the nonces before a worker's step does so after it.
LEMMA WorkerCovers ==
  ASSUME ThreadInv, NEW w \in Worker, WorkerStep(w), NEW S, Covers(S)
  PROVE  Covers(S)'
<1> USE GenesisMinerAssumption DEF ThreadInv, Place, runVars, Covers, Held
<1>1. CASE Claim(w)
  <2> SUFFICES ASSUME NEW k \in 0 .. MaxNonce, k < counter + 1
               PROVE  k \in hashed \cup S \/ Held(k)'
    BY <1>1 DEF Claim
  <2>1. CASE k = counter
    BY <1>1, <2>1 DEF Claim
  <2>2. CASE k < counter
    BY <1>1, <2>2 DEF Claim
  <2>3. QED
    BY <2>1, <2>2
<1>2. CASE CheckFound(w)
  BY <1>2 DEF CheckFound
<1>3. CASE Hash(w)
  BY <1>3 DEF Hash
<1>4. CASE SaveOpen(w) \/ SaveWrite(w)
  BY <1>4 DEF SaveOpen, SaveWrite
<1>5. CASE Decide(w)
  BY <1>5 DEF Decide
<1>6. QED
  BY <1>1, <1>2, <1>3, <1>4, <1>5 DEF WorkerStep

\* A kill adds what the workers held to the nonces left behind.
LEMMA KillCost ==
  ASSUME ThreadInv, CostInv, KillAndRun
  PROVE  CostInv'
<1> SUFFICES ASSUME ~lost' PROVE CostInv'
  BY DEF CostInv
<1>1. ~lost /\ file # Empty
  BY DEF KillAndRun
<1>2. PICK S : /\ IsFiniteSet(S)
               /\ Cardinality(S) <= Cardinality(Worker) * (starts - 1)
               /\ Covers(S)
  BY <1>1 DEF CostInv
<1>h. PICK H : H = {n[w] : w \in Worker}
  OBVIOUS
<1>3. IsFiniteSet(H) /\ Cardinality(H) <= Cardinality(Worker)
  <2>1. n \in Surjection(Worker, H)
    BY <1>h DEF Surjection, ThreadInv
  <2>2. QED
    BY <2>1, GenesisMinerAssumption, FS_Surjection
<1>4. IsFiniteSet(S \cup H) /\ Cardinality(S \cup H) <= Cardinality(S) + Cardinality(H)
  <2>1. IsFiniteSet(S \cap H)
    BY <1>2, FS_Subset
  <2>2. /\ Cardinality(S) \in Nat /\ Cardinality(H) \in Nat
        /\ Cardinality(S \cap H) \in Nat
    BY <1>2, <1>3, <2>1, FS_CardinalityType
  <2>3. /\ IsFiniteSet(S \cup H)
        /\ Cardinality(S \cup H)
             = Cardinality(S) + Cardinality(H) - Cardinality(S \cap H)
    BY <1>2, <1>3, FS_Union, Zenon
  <2>4. QED
    BY <2>2, <2>3
<1>5. Cardinality(S \cup H) <= Cardinality(Worker) * (starts' - 1)
  <2> DEFINE c == Cardinality(Worker)
  <2>1. c \in Nat /\ starts \in Nat /\ starts' = starts + 1
    BY GenesisMinerAssumption, FS_CardinalityType DEF ThreadInv, KillAndRun
  <2>2. Cardinality(S) \in Nat /\ Cardinality(H) \in Nat /\ Cardinality(S \cup H) \in Nat
    BY <1>2, <1>3, <1>4, FS_CardinalityType
  <2> HIDE DEF c
  <2>3. c * (starts' - 1) = c * (starts - 1) + c
    BY <2>1
  <2>4. c * (starts - 1) \in Int
    BY <2>1
  <2>5. Cardinality(S) <= c * (starts - 1) /\ Cardinality(H) <= c
    BY <1>2, <1>3 DEF c
  <2>6. Cardinality(S \cup H) <= c * (starts - 1) + c
    BY <1>4, <2>1, <2>2, <2>4, <2>5
  <2>7. QED
    BY <2>3, <2>6 DEF c
<1>6. Covers(S \cup H)'
  <2>1. PICK start \in Resumed : Running(start)
    BY DEF KillAndRun
  <2>2. reporter # "done"
    BY DEF KillAndRun
  <2>3. start \in Nat /\ (start = 0 \/ start <= counter)
    BY <1>1, <2>1, <2>2, GenesisMinerAssumption DEF Resumed, ThreadInv
  <2>4. counter' = start /\ hashed' = hashed
    BY <2>1 DEF Running, KillAndRun
  <2>5. ASSUME NEW k \in 0 .. MaxNonce, k < start
        PROVE  k \in hashed \cup (S \cup H)
    <3>1. k < counter
      BY <2>3, <2>5, GenesisMinerAssumption DEF ThreadInv
    <3>2. k \in hashed \cup S \/ Held(k)
      BY <1>2, <2>5, <3>1 DEF Covers
    <3>3. QED
      BY <1>h, <3>2 DEF Held
  <2>6. QED
    BY <2>4, <2>5 DEF Covers
<1>7. QED
  BY <1>4, <1>5, <1>6 DEF CostInv

\* The invariants hold of every behaviour.
LEMMA GenesisInvariant == GenesisSpec => [](ThreadInv /\ CostInv)
<1>1. ThreadInv /\ CostInv /\ [GenesisNext]_genesisVars => (ThreadInv /\ CostInv)'
  <2> SUFFICES ASSUME ThreadInv, CostInv, [GenesisNext]_genesisVars
               PROVE  ThreadInv' /\ CostInv'
    OBVIOUS
  <2>1. ASSUME NEW w \in Worker, WorkerStep(w) PROVE ThreadInv' /\ CostInv'
    <3>1. lost' = lost /\ starts' = starts
      BY <2>1 DEF WorkerStep, Claim, CheckFound, Hash, SaveOpen, SaveWrite, Decide, runVars
    <3>2. QED
      BY <2>1, <3>1, WorkerThread, WorkerCovers DEF CostInv
  <2>2. CASE Main
    <3>1. UNCHANGED <<lost, starts, counter, hashed, n, at>>
      BY <2>2 DEF Main, ReportOpen, ReportWrite, Finish, runVars
    <3>2. QED
      BY <2>2, <3>1, MainThread DEF CostInv, Covers, Held
  <2>3. CASE KillAndRun
    BY <2>3, MainThread, KillCost
  <2>4. CASE UNCHANGED genesisVars
    BY <2>4 DEF genesisVars, ThreadInv, CostInv, Covers, Held
  <2>5. QED
    BY <2>1, <2>2, <2>3, <2>4 DEF GenesisNext
<1>2. QED
  BY <1>1, GenesisInitInv, PTL DEF GenesisSpec

\* Whatever S accounts for the nonces holds every skipped one.
LEMMA SkippedCovered ==
  ASSUME ThreadInv, ~found, NEW S, Covers(S)
  PROVE  Skipped \subseteq S
BY GenesisMinerAssumption DEF Skipped, Covers, Held, ThreadInv, Place

\* However often the search is killed, a kill costs at most one nonce per
\* worker, unless it comes while a savepoint has emptied the file.
THEOREM KillCostsFew == GenesisSpec => []SkipsFew
<1>1. ThreadInv /\ CostInv => SkipsFew
  <2> SUFFICES ASSUME ThreadInv, CostInv, ~found, ~lost
               PROVE  Cardinality(Skipped) <= Cardinality(Worker) * (starts - 1)
    BY DEF SkipsFew
  <2>1. PICK S : /\ IsFiniteSet(S)
                 /\ Cardinality(S) <= Cardinality(Worker) * (starts - 1)
                 /\ Covers(S)
    BY DEF CostInv
  <2>2. Skipped \in SUBSET S
    BY <2>1, SkippedCovered
  <2>3. IsFiniteSet(Skipped) /\ Cardinality(Skipped) <= Cardinality(S)
    BY <2>1, <2>2, FS_Subset
  <2>4. Cardinality(Skipped) \in Nat /\ Cardinality(S) \in Nat /\ Cardinality(Worker) \in Nat
    BY <2>1, <2>3, GenesisMinerAssumption, FS_CardinalityType
  <2>5. Cardinality(Worker) * (starts - 1) \in Int
    BY <2>4 DEF ThreadInv
  <2>6. QED
    BY <2>1, <2>3, <2>4, <2>5
<1>2. QED
  BY <1>1, GenesisInvariant, PTL

\* A run that is not killed skips nothing: the atomic work counter hands
\* every nonce to a worker that tries it.
THEOREM OneRunSkipsNothing == GenesisSpec => []NothingSkipped
<1> DEFINE Once == starts = 1 => Covers({})
<1>1. GenesisInit => Once
  BY DEF GenesisInit, Covers
<1>2. ThreadInv /\ Once /\ [GenesisNext]_genesisVars => Once'
  <2> SUFFICES ASSUME ThreadInv, Once, [GenesisNext]_genesisVars PROVE Once'
    OBVIOUS
  <2>1. ASSUME NEW w \in Worker, WorkerStep(w) PROVE Once'
    <3>1. starts' = starts
      BY <2>1 DEF WorkerStep, Claim, CheckFound, Hash, SaveOpen, SaveWrite, Decide, runVars
    <3>2. QED
      BY <2>1, <3>1, WorkerCovers
  <2>2. CASE Main
    BY <2>2 DEF Main, ReportOpen, ReportWrite, Finish, runVars, Covers, Held
  <2>3. CASE KillAndRun
    BY <2>3 DEF KillAndRun, ThreadInv
  <2>4. CASE UNCHANGED genesisVars
    BY <2>4 DEF genesisVars, Covers, Held
  <2>5. QED
    BY <2>1, <2>2, <2>3, <2>4 DEF GenesisNext
<1>3. ThreadInv /\ Once => NothingSkipped
  BY SkippedCovered DEF NothingSkipped
<1>4. QED
  BY <1>1, <1>2, <1>3, GenesisInvariant, PTL DEF GenesisSpec

\* What is reported, and saved, is a nonce whose hash is below the target,
\* also when several workers find one at once and in a resumed run.
THEOREM ReportIsWinner == GenesisSpec => []ReportsWinner
<1>1. ThreadInv => ReportsWinner
  BY DEF ThreadInv, ReportsWinner
<1>2. QED
  BY <1>1, GenesisInvariant, PTL
=============================================================================
