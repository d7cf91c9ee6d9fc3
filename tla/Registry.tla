------------------------------ MODULE Registry ------------------------------
(***************************************************************************)
(* Peer discovery: the threads of several nodes that run RunMongoRegistry  *)
(* (cdxd.cpp) against one collection of a database, which CMongoClient     *)
(* updates, reads and cleans.  The database is external: its commands are  *)
(* atomic, and one that fails may have been carried out.                   *)
(*                                                                         *)
(* Time passes while a thread sleeps and while AddTarget waits for a new   *)
(* target to answer; commands take none.  Clocks differ by a constant.     *)
(***************************************************************************)
EXTENDS Integers, FiniteSets, FiniteSetsExt, Functions

CONSTANTS
  Node,
  Addressed,   \* the nodes that know an address of their own
  Skew,        \* Skew[n]: how far the clock of n is ahead
  Sleep,       \* between two rounds, 60 seconds
  DialTime,    \* at most, for one target, 5 seconds
  Stale,       \* the age at which entries are cleaned, 600 seconds
  Limit,       \* peers in one answer, 100
  Absent,      \* no entry
  Faults       \* what may fail, see FaultKind

FaultKind == {"connect", "command", "crash"}

ASSUME RegistryAssumption ==
  /\ IsFiniteSet(Node) /\ Addressed \subseteq Node /\ Skew \in [Node -> Nat]
  /\ {Sleep, Stale, Limit} \subseteq Nat \ {0} /\ DialTime \in Nat
  /\ Absent \notin Nat /\ Faults \subseteq FaultKind

VARIABLES
  alive,
  at,          \* at[n]: where the thread of n is
  timer,       \* timer[n]: how long it stays there
  since,       \* since[n]: how long ago it read its clock
  registered,  \* registered[n]: UpsertPeer succeeded when it was last called
  fetched,     \* fetched[n]: and so did the FetchPeers that followed
  todo,        \* todo[n]: the peers of the answer it has not come to
  targets,     \* targets[n]: what it has called AddTarget for
  entry        \* entry[n]: the age of its entry in the collection, or Absent

threadVars == <<at, timer, since>>
flags == <<registered, fetched>>
vars == <<alive, threadVars, flags, todo, targets, entry>>

Present == {n \in Node : entry[n] # Absent}

\* Ages beyond it are alike to every cleanup.
MaxAge == Stale + Max(Range(Skew) \cup {0}) + Cardinality(Node) * DialTime + 1

LastSeen(n) == Skew[n] - entry[n]

\* The thread of n goes on to a step, without delay.
Goto(n, step) ==
  /\ at' = [at EXCEPT ![n] = step]
  /\ UNCHANGED <<alive, timer, since>>

\* The refresh loop at the end of a round.
GoSleep(n) ==
  /\ at' = [at EXCEPT ![n] = "sleep"]
  /\ timer' = [timer EXCEPT ![n] = Sleep]
  /\ UNCHANGED <<alive, since>>

Ready(n, step) == alive[n] /\ at[n] = step /\ timer[n] = 0

\* What a command leaves in the collection: it succeeds, or it fails and may
\* have been carried out.
Outcomes(new) ==
  {[ok |-> TRUE, entry |-> new]}
    \cup IF "command" \in Faults
         THEN {[ok |-> FALSE, entry |-> e] : e \in {entry, new}} ELSE {}

-----------------------------------------------------------------------------
(* A round of RunMongoRegistry *)

Connect(n) ==
  /\ Ready(n, "sleep")
  /\ at' = [at EXCEPT ![n] = "upsert"]
  /\ since' = [since EXCEPT ![n] = 0]
  /\ UNCHANGED <<alive, timer, flags, todo, targets, entry>>

\* Mutant: the thread ends.
ConnectFailsForGood(n) ==
  /\ "connect" \in Faults
  /\ Ready(n, "sleep")
  /\ at' = [at EXCEPT ![n] = "ended"]
  /\ timer' = [timer EXCEPT ![n] = Sleep]
  /\ registered' = [registered EXCEPT ![n] = FALSE]
  /\ fetched' = [fetched EXCEPT ![n] = FALSE]
  /\ UNCHANGED <<alive, since, todo, targets, entry>>

ConnectFails(n) ==
  /\ "connect" \in Faults
  /\ Ready(n, "sleep")
  /\ GoSleep(n)
  /\ registered' = [registered EXCEPT ![n] = FALSE]
  /\ fetched' = [fetched EXCEPT ![n] = FALSE]
  /\ UNCHANGED <<todo, targets, entry>>

\* UpsertPeer, for a node with an address.
UpsertPeer(n) ==
  /\ Ready(n, "upsert")
  /\ \E r \in Outcomes([entry EXCEPT ![n] = 0]) :
       /\ registered' = [registered EXCEPT ![n] = r.ok /\ n \in Addressed]
       /\ entry' = IF n \in Addressed THEN r.entry ELSE entry
  /\ fetched' = [fetched EXCEPT ![n] = FALSE]
  /\ Goto(n, "fetch")
  /\ UNCHANGED <<todo, targets>>

\* Mutant: only what was there before this second.
AnswersStrict(n) ==
  LET others == {p \in Present \ {n} : LastSeen(p) < Skew[n] - since[n]}
  IN  {found \in SUBSET others :
         /\ Cardinality(found) = Min({Limit, Cardinality(others)})
         /\ \A p \in found, q \in others \ found : LastSeen(p) >= LastSeen(q)}

\* The answers to find: the entries last seen, of which it takes Limit.
Answers(n) ==
  LET others == Present \ {n}
  IN  {found \in SUBSET others :
         /\ Cardinality(found) = Min({Limit, Cardinality(others)})
         /\ \A p \in found, q \in others \ found : LastSeen(p) >= LastSeen(q)}

\* FetchPeers, and the targets it leads to.
FetchPeers(n) ==
  /\ Ready(n, "fetch")
  /\ \/ /\ \E found \in Answers(n) : todo' = [todo EXCEPT ![n] = found]
        /\ fetched' = [fetched EXCEPT ![n] = TRUE]
        /\ Goto(n, "dial")
     \/ /\ "command" \in Faults
        /\ Goto(n, "cleanup")
        /\ UNCHANGED <<todo, fetched>>
  /\ UNCHANGED <<registered, targets, entry>>

\* AddTarget: a target that is new is dialled, which may take its time.
AddTarget(n) ==
  /\ Ready(n, "dial")
  /\ \E p \in todo[n] :
       /\ todo' = [todo EXCEPT ![n] = @ \ {p}]
       /\ targets' = [targets EXCEPT ![n] = @ \cup {p}]
       /\ \E t \in IF p \in targets[n] THEN {0} ELSE 0..DialTime :
            timer' = [timer EXCEPT ![n] = t]
  /\ UNCHANGED <<alive, at, since, flags, entry>>

AddedAll(n) ==
  /\ Ready(n, "dial")
  /\ todo[n] = {}
  /\ Goto(n, "cleanup")
  /\ UNCHANGED <<flags, todo, targets, entry>>

\* Mutant: one second early.
IsStaleEarly(n, p) == LastSeen(p) <= Skew[n] - since[n] - Stale

\* p's entry is older than the cutoff of n, which counts from the time n read
\* its clock, before it dialled anyone.
IsStale(n, p) == LastSeen(p) < Skew[n] - since[n] - Stale

CleanupStale(n) ==
  /\ Ready(n, "cleanup")
  /\ \E r \in Outcomes([p \in Node |->
                          IF p \in Present /\ IsStale(n, p) THEN Absent ELSE entry[p]]) :
       entry' = r.entry
  /\ GoSleep(n)
  /\ UNCHANGED <<flags, todo, targets>>

-----------------------------------------------------------------------------

\* The process of n ends, and with it what it knew; it may be started again.
Stop(n) ==
  /\ "crash" \in Faults
  /\ alive[n]
  /\ alive' = [alive EXCEPT ![n] = FALSE]
  /\ at' = [at EXCEPT ![n] = "sleep"]
  /\ timer' = [timer EXCEPT ![n] = 0]
  /\ since' = [since EXCEPT ![n] = 0]
  /\ registered' = [registered EXCEPT ![n] = FALSE]
  /\ fetched' = [fetched EXCEPT ![n] = FALSE]
  /\ todo' = [todo EXCEPT ![n] = {}]
  /\ targets' = [targets EXCEPT ![n] = {}]
  /\ UNCHANGED entry

Start(n) ==
  /\ ~alive[n]
  /\ alive' = [alive EXCEPT ![n] = TRUE]
  /\ UNCHANGED <<threadVars, flags, todo, targets, entry>>

\* A second passes when no thread is ready.
Tick ==
  /\ \E n \in Node : alive[n]
  /\ \A n \in Node : alive[n] => timer[n] > 0
  /\ timer' = [n \in Node |-> IF alive[n] THEN timer[n] - 1 ELSE 0]
  /\ since' = [n \in Node |-> IF at[n] = "dial" THEN since[n] + 1 ELSE since[n]]
  /\ entry' = [n \in Node |-> IF n \notin Present THEN Absent
                              ELSE Min({entry[n] + 1, MaxAge})]
  /\ UNCHANGED <<alive, at, flags, todo, targets>>

Init ==
  /\ alive = [n \in Node |-> FALSE]
  /\ at = [n \in Node |-> "sleep"]
  /\ timer = [n \in Node |-> 0]
  /\ since = [n \in Node |-> 0]
  /\ registered = [n \in Node |-> FALSE]
  /\ fetched = [n \in Node |-> FALSE]
  /\ todo = [n \in Node |-> {}]
  /\ targets = [n \in Node |-> {}]
  /\ entry = [n \in Node |-> Absent]

Round(n) ==
  \/ Connect(n) \/ ConnectFails(n) \/ UpsertPeer(n) \/ FetchPeers(n)
  \/ AddTarget(n) \/ AddedAll(n) \/ CleanupStale(n)

Next == Tick \/ \E n \in Node : Round(n) \/ Start(n) \/ Stop(n)

Spec == Init /\ [][Next]_vars

-----------------------------------------------------------------------------
(* What is wanted of it *)

\* A node that refreshes its entry keeps it: no other node takes it for
\* stale, however long they wait for targets and whatever their clocks say
\* (CleanupStale; 60 + 100 * 5 seconds and the skew are below 600).
StaysRegistered ==
  \A n \in Node : registered[n] => entry[n] # Absent

Knows(m, n) == n \in targets[m] \cup todo[m]

\* Of two nodes whose last rounds went well at least one knows the other,
\* also when they start at the same time: each registers before it reads.
OneKnowsTheOther ==
  \A m, n \in Node :
    m # n /\ registered[m] /\ fetched[m] /\ registered[n] /\ fetched[n]
      => Knows(m, n) \/ Knows(n, m)

\* A node that stays finds every other whose refreshes succeed from some time
\* on, though its own commands keep failing now and then ("check mongo ->
\* register self -> fetch peers -> connect", RunMongoRegistry).
FindsTheOthers ==
  \A m, n \in Node :
    m # n /\ <>[](alive[m] /\ registered[n]) => <>[](n \in targets[m])
=============================================================================
