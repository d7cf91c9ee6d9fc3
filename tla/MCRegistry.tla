----------------------------- MODULE MCRegistry -----------------------------
(***************************************************************************)
(* Peer discovery, at two levels that share no state: the nodes and their  *)
(* collection (Registry), and the client of one node and the replica set   *)
(* (MongoClient).  A behaviour is of one of the two, chosen at the start,  *)
(* while the other stays where it began.                                   *)
(*                                                                         *)
(* The clocks of the nodes differ by a second, and the set has three hosts.*)
(***************************************************************************)
EXTENDS Registry, MongoClient

CONSTANTS late, h1, h2, h3

VARIABLE level  \* the one that is looked at

MCSkew == [n \in Node |-> IF n = late THEN 0 ELSE 1]
MCTargets == <<h1, h2, h3>>

Nodes(A) == level = "nodes" /\ A /\ UNCHANGED <<mongoVars, level>>
Client(A) == level = "client" /\ A /\ UNCHANGED <<vars, level>>

\* One of the initial states of the client is enough for the nodes.
Begins ==
  /\ Init /\ MongoInit /\ level \in {"nodes", "client"}
  /\ level = "nodes" => up = {} /\ mechanisms = {} /\ ~silent

\* Time passes, threads run, and a database that is asked again and again
\* is reached, and answers, again and again.
NodesFairness ==
  /\ WF_vars(Nodes(Tick))
  /\ \A n \in Node :
       /\ WF_vars(Nodes(Round(n))) /\ SF_vars(Nodes(Connect(n)))
       /\ SF_vars(Nodes(FetchPeers(n) /\ fetched'[n]))
       /\ SF_vars(Nodes(CleanupStale(n)
                          /\ \A p \in Present : IsStale(n, p) => entry'[p] = Absent))

\* The thread of the client runs; nothing is asked of the replica set.
RegistrySpec ==
  /\ Begins
  /\ [][Nodes(Next) \/ Client(MongoNext)]_<<vars, mongoVars, level>>
  /\ NodesFairness
  /\ WF_mongoVars(Client(Thread))
=============================================================================
