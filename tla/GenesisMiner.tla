---------------------------- MODULE GenesisMiner ----------------------------
(***************************************************************************)
(* tools/mine_genesis.cpp: threads that search the nonces for the genesis  *)
(* block, and a progress file from which the next run goes on when this    *)
(* one is killed.                                                          *)
(***************************************************************************)
EXTENDS Integers, FiniteSets

CONSTANTS
  Worker,       \* the threads
  MaxNonce,     \* 0xFFFFFFFF
  Winner,       \* the nonces whose hash is below the target
  SavePeriod,   \* hashes of a worker between two savepoints, 0x100000
  MaxStarts,    \* bound: how often the program is run
  NoFile,       \* there is no progress file
  Empty         \* it has been opened for writing, and nothing written

ASSUME GenesisMinerAssumption ==
  /\ MaxNonce \in Nat /\ Winner \subseteq 0..MaxNonce
  /\ SavePeriod \in Nat \ {0} /\ MaxStarts \in Nat \ {0}
  /\ IsFiniteSet(Worker) /\ Worker # {}
  /\ NoFile \notin Nat /\ Empty \notin Nat /\ NoFile # Empty

VARIABLES
  at,          \* at[w]: where worker w is
  n,           \* n[w]: the nonce it has claimed
  cnt,         \* cnt[w]: its hashes since the last savepoint
  counter,     \* the atomic work counter
  found,
  foundNonce,
  reporter,    \* where main is
  file,        \* the counter in the progress file
  starts,
  lost,        \* some run started from an empty file
  hashed       \* the nonces tried, in all runs

genesisVars == <<at, n, cnt, counter, found, foundNonce, reporter, file, starts, lost,
          hashed>>

runVars == <<starts, lost>>

\* fetch_add
Claim(w) ==
  /\ at[w] = "claim"
  /\ n' = [n EXCEPT ![w] = counter]
  /\ counter' = counter + 1
  /\ at' = [at EXCEPT ![w] = IF counter > MaxNonce THEN "done" ELSE "check"]
  /\ UNCHANGED <<cnt, found, foundNonce, reporter, file, runVars, hashed>>

CheckFound(w) ==
  /\ at[w] = "check"
  /\ at' = [at EXCEPT ![w] = IF found THEN "done" ELSE "hash"]
  /\ UNCHANGED <<n, cnt, counter, found, foundNonce, reporter, file, runVars,
                 hashed>>

\* mine_hash; every SavePeriod hashes a savepoint follows.
Hash(w) ==
  /\ at[w] = "hash"
  /\ hashed' = hashed \cup {n[w]}
  /\ cnt' = [cnt EXCEPT ![w] = (@ + 1) % SavePeriod]
  /\ at' = [at EXCEPT ![w] = IF cnt[w] + 1 = SavePeriod THEN "open" ELSE "decide"]
  /\ UNCHANGED <<n, counter, found, foundNonce, reporter, file, runVars>>

\* The file is opened, which empties it, and then written.
SaveOpen(w) ==
  /\ at[w] = "open"
  /\ file' = Empty
  /\ at' = [at EXCEPT ![w] = "write"]
  /\ UNCHANGED <<n, cnt, counter, found, foundNonce, reporter, runVars, hashed>>

\* Mutant: the nonces of the next period are counted as tried.
SaveWriteAhead(w) ==
  /\ at[w] = "write"
  /\ file' = counter + SavePeriod
  /\ at' = [at EXCEPT ![w] = "decide"]
  /\ UNCHANGED <<n, cnt, counter, found, foundNonce, reporter, runVars, hashed>>

SaveWrite(w) ==
  /\ at[w] = "write"
  /\ file' = counter
  /\ at' = [at EXCEPT ![w] = "decide"]
  /\ UNCHANGED <<n, cnt, counter, found, foundNonce, reporter, runVars, hashed>>

\* A winning nonce is stored, and then the flag is set.
Decide(w) ==
  /\ at[w] = "decide"
  /\ IF n[w] \in Winner
     THEN /\ foundNonce' = n[w] /\ found' = TRUE
          /\ at' = [at EXCEPT ![w] = "done"]
     ELSE at' = [at EXCEPT ![w] = "claim"] /\ UNCHANGED <<found, foundNonce>>
  /\ UNCHANGED <<n, cnt, counter, reporter, file, runVars, hashed>>

\* The loop of main, while nothing is found: it saves as the workers do.
ReportOpen ==
  /\ reporter = "loop" /\ ~found
  /\ file' = Empty
  /\ reporter' = "write"
  /\ UNCHANGED <<at, n, cnt, counter, found, foundNonce, runVars, hashed>>

ReportWrite ==
  /\ reporter = "write"
  /\ file' = counter
  /\ reporter' = "loop"
  /\ UNCHANGED <<at, n, cnt, counter, found, foundNonce, runVars, hashed>>

\* The workers are joined, and the result is written.
Finish ==
  /\ reporter = "loop" /\ found
  /\ \A w \in Worker : at[w] = "done"
  /\ file' = foundNonce
  /\ reporter' = "done"
  /\ UNCHANGED <<at, n, cnt, counter, found, foundNonce, runVars, hashed>>

\* The counter a run starts with.  From an empty file nothing is read, and
\* the variables it should be read into have no value.
Resumed == IF file = NoFile THEN {0} ELSE IF file = Empty THEN 0..MaxNonce + 1
           ELSE {file}

Running(start) ==
  /\ at' = [w \in Worker |-> "claim"]
  /\ n' = [w \in Worker |-> 0]
  /\ cnt' = [w \in Worker |-> 0]
  /\ counter' = start
  /\ found' = FALSE /\ foundNonce' = 0
  /\ reporter' = "loop"

\* The process is killed and, in the next session, run again.
KillAndRun ==
  /\ starts < MaxStarts
  /\ reporter # "done"
  /\ starts' = starts + 1
  /\ \E start \in Resumed : Running(start)
  /\ lost' = (lost \/ file = Empty)
  /\ UNCHANGED <<file, hashed>>

GenesisInit ==
  /\ at = [w \in Worker |-> "claim"]
  /\ n = [w \in Worker |-> 0]
  /\ cnt = [w \in Worker |-> 0]
  /\ counter = 0 /\ found = FALSE /\ foundNonce = 0
  /\ reporter = "loop"
  /\ file = NoFile /\ starts = 1 /\ lost = FALSE /\ hashed = {}

WorkerStep(w) ==
  \/ Claim(w) \/ CheckFound(w) \/ Hash(w) \/ SaveOpen(w) \/ SaveWrite(w)
  \/ Decide(w)

Main == ReportOpen \/ ReportWrite \/ Finish

GenesisNext == Main \/ KillAndRun \/ \E w \in Worker : WorkerStep(w)

GenesisSpec == GenesisInit /\ [][GenesisNext]_genesisVars

-----------------------------------------------------------------------------
(* What is wanted of it *)

\* The nonces the counter has passed, that nobody has tried and nobody will.
Skipped ==
  {k \in 0..MaxNonce :
     /\ k < counter /\ k \notin hashed
     /\ \A w \in Worker : n[w] = k => at[w] \notin {"check", "hash"}}

\* Until the program is killed, a nonce the counter has passed is tried, or
\* some worker is about to try it, or it is not needed any more ("atomic work
\* counter (resume aman)").
NothingSkipped == starts = 1 /\ ~found => Skipped = {}

\* A run that is killed costs at most the nonces its workers were at, unless
\* it is killed while the file is empty (the savepoints of worker and main).
SkipsFew ==
  ~found /\ ~lost => Cardinality(Skipped) <= Cardinality(Worker) * (starts - 1)

\* What is reported, and written for later, is a winning nonce: of two that
\* are found at once either will do.
ReportsWinner == reporter = "done" => foundNonce \in Winner /\ file = foundNonce

\* The program ends: with no winning nonce it says so ("nonce space
\* exhausted; increase timestamp and re-run", main).
\* The code does not keep this (README, "Deviations").
Ends == <>(reporter = "done")
=============================================================================
