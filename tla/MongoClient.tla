---------------------------- MODULE MongoClient -----------------------------
(***************************************************************************)
(* CMongoClient::Connect (mongo.cpp) against a replica set: the first host *)
(* that accepts, the hello that names the primary, the change to it, two   *)
(* ways to authenticate, the ping, and then the commands of one round of   *)
(* RunMongoRegistry (cdxd.cpp), of which the update needs the primary.     *)
(*                                                                         *)
(* Hosts go down, come back and elect a primary at any moment.  The reply  *)
(* of a host that is down is an error of the socket or, when it went       *)
(* without closing the connection, never comes: ReadExact goes on after    *)
(* every time-out of the socket.  The lookup of the hosts succeeds: when   *)
(* it fails the round ends at once.                                        *)
(***************************************************************************)
EXTENDS Naturals, Sequences

CONSTANTS
  Targets,     \* the hosts of the SRV answer, in its order
  None,
  MaxEvents    \* bound on what happens to the replica set

Host == {Targets[i] : i \in DOMAIN Targets}

ASSUME MongoAssumption ==
  Targets # <<>> /\ None \notin Host /\ MaxEvents \in Nat

VARIABLES
  mechanisms,  \* how the user may authenticate
  silent,      \* whether hosts go without closing their connections
  up,          \* the hosts that can be reached
  primary,
  events,
  pc,
  next,        \* the index of the target to try
  host,        \* the host of the open connection, or None
  authed,      \* that connection is authenticated
  told,        \* the primary that hello named, or None
  connected,   \* connected_
  wrote        \* the update of the last round was carried out

setVars == <<mechanisms, silent, up, primary, events>>
mongoVars == <<setVars, pc, next, host, authed, told, connected, wrote>>

Waiting == pc \in {"hello", "helloPrimary", "auth256", "auth1", "ping", "commands"}

\* Disconnect, and the minute until the next round.
GiveUp ==
  /\ pc' = "sleep"
  /\ host' = None
  /\ authed' = FALSE
  /\ connected' = FALSE
  /\ wrote' = FALSE
  /\ UNCHANGED <<next, told>>

StartRound ==
  /\ pc = "sleep"
  /\ pc' = "connect"
  /\ next' = 1
  /\ told' = None
  /\ UNCHANGED <<setVars, host, authed, connected, wrote>>

\* The loop over targets.
TryTarget ==
  /\ pc = "connect"
  /\ \/ /\ next <= Len(Targets)
        /\ \/ /\ Targets[next] \in up
              /\ host' = Targets[next]
              /\ pc' = "hello"
              /\ UNCHANGED <<next, authed, told, connected, wrote>>
           \/ /\ Targets[next] \notin up
              /\ next' = next + 1
              /\ UNCHANGED <<pc, host, authed, told, connected, wrote>>
     \/ next > Len(Targets) /\ GiveUp
  /\ UNCHANGED setVars

Hello ==
  /\ pc = "hello"
  /\ host \in up
  /\ told' = primary
  /\ pc' = "switch"
  /\ UNCHANGED <<setVars, next, host, authed, connected, wrote>>

\* The comparison that decides whether the host in use is the primary.
IsSame == told = Targets[1]

SwitchToPrimary ==
  /\ pc = "switch"
  /\ \/ /\ told = None \/ IsSame
        /\ pc' = "auth256"
        /\ UNCHANGED <<next, host, authed, told, connected, wrote>>
     \/ /\ told # None /\ ~IsSame
        /\ \/ /\ told \in up
              /\ host' = told
              /\ authed' = FALSE
              /\ pc' = "helloPrimary"
              /\ UNCHANGED <<next, told, connected, wrote>>
           \/ told \notin up /\ GiveUp
  /\ UNCHANGED setVars

HelloPrimary ==
  /\ pc = "helloPrimary"
  /\ host \in up
  /\ pc' = "auth256"
  /\ UNCHANGED <<setVars, next, host, authed, told, connected, wrote>>

\* Mutant: there is no second way.
AuthOnce ==
  /\ pc \in {"auth256", "auth1"}
  /\ host \in up
  /\ IF "SHA-256" \in mechanisms
     THEN pc' = "ping" /\ authed' = TRUE /\ UNCHANGED <<next, host, told, connected, wrote>>
     ELSE GiveUp
  /\ UNCHANGED setVars

\* ScramAuth, with SHA-256 and, when that is refused, with SHA-1.
Auth ==
  /\ pc \in {"auth256", "auth1"}
  /\ host \in up
  /\ \/ /\ (IF pc = "auth256" THEN "SHA-256" ELSE "SHA-1") \in mechanisms
        /\ pc' = "ping"
        /\ authed' = TRUE
        /\ UNCHANGED <<next, host, told, connected, wrote>>
     \/ /\ pc = "auth256"
        /\ "SHA-256" \notin mechanisms
        /\ pc' = "auth1"
        /\ UNCHANGED <<next, host, authed, told, connected, wrote>>
     \/ pc = "auth1" /\ "SHA-1" \notin mechanisms /\ GiveUp
  /\ UNCHANGED setVars

Ping ==
  /\ pc = "ping"
  /\ host \in up
  /\ pc' = "commands"
  /\ connected' = TRUE
  /\ UNCHANGED <<setVars, next, host, authed, told, wrote>>

\* The round ends whether the update is taken or refused.
Commands ==
  /\ pc = "commands"
  /\ host \in up
  /\ pc' = "sleep"
  /\ wrote' = (authed /\ host = primary)
  /\ host' = None
  /\ authed' = FALSE
  /\ connected' = FALSE
  /\ UNCHANGED <<setVars, next, told>>

\* A command fails on a connection that is gone.
Lost ==
  /\ Waiting
  /\ host \notin up
  /\ GiveUp
  /\ UNCHANGED setVars

\* ReadExact waits for a host that will not answer on this connection.
ReadExactWaits ==
  /\ silent
  /\ Waiting
  /\ host \notin up
  /\ pc' = "reading"
  /\ UNCHANGED <<setVars, next, host, authed, told, connected, wrote>>

-----------------------------------------------------------------------------
(* The replica set *)

SetEvent ==
  /\ events < MaxEvents
  /\ events' = events + 1
  /\ \/ \E h \in up : up' = up \ {h} /\ primary' = IF primary = h THEN None ELSE primary
     \/ \E h \in Host \ up : up' = up \cup {h} /\ UNCHANGED primary
     \/ \E h \in up \ {primary} : primary' = h /\ UNCHANGED up
  /\ UNCHANGED <<mechanisms, silent, pc, next, host, authed, told, connected, wrote>>

MongoInit ==
  /\ mechanisms \in SUBSET {"SHA-256", "SHA-1"}
  /\ silent \in BOOLEAN
  /\ up \in SUBSET Host
  /\ primary \in up \cup {None}
  /\ events = 0
  /\ pc = "sleep"
  /\ next = 1
  /\ host = None
  /\ authed = FALSE
  /\ told = None
  /\ connected = FALSE
  /\ wrote = FALSE

Thread ==
  \/ StartRound \/ TryTarget \/ Hello \/ SwitchToPrimary \/ HelloPrimary
  \/ Auth \/ Ping \/ Commands \/ Lost \/ ReadExactWaits

MongoNext == Thread \/ SetEvent

-----------------------------------------------------------------------------
(* What is wanted of it *)

\* The host in use is the primary that hello named: "tulis harus ke primary".
\* The code does not keep this (README, "Deviations").
WritesGoToPrimary == connected /\ told # None => host = told

\* When nothing more happens to a set whose hosts are all up and that has a
\* primary, every round registers the node, if its user may authenticate and
\* no read is left waiting (Connect, UpsertPeer).
StableSetIsWritten ==
  mechanisms # {} /\ ~silent =>
    (<>[](up = Host /\ primary # None) => []<>wrote)
=============================================================================
