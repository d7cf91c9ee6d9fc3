------------------------------ MODULE NetProofs ------------------------------
(***************************************************************************)
(* Sockets, CNode objects and the map of peers, for any number of each:    *)
(* proofs about module NetServer.                                          *)
(***************************************************************************)
EXTENDS NetServer, FiniteSetTheorems, TLAPS

\* The places of a connection: in peers, and anywhere.
Listed == {"reading", "leaving", "idle"}
Place == {"none", "accepted", "erased"} \cup Listed

Node == [fd : Fd \cup {Closed}, target : Target \cup {Inbound}, at : Place,
         silent : Nat \cup {Ages}, disconnected : BOOLEAN]

NetType ==
  /\ phase \in {"off", "up", "flagged", "cleared"}
  /\ open \in [Fd -> Conn \cup {NoConn}]
  /\ peers \in [Fd -> Conn \cup {NoConn}]
  /\ node \in [Conn -> Node]

\* An open descriptor is the one its connection has, and the other way round.
FdInv ==
  /\ \A f \in Fd : open[f] # NoConn => node[open[f]].fd = f
  /\ \A c \in Conn : node[c].fd \in Fd => open[node[c].fd] = c

\* The map has exactly the connections from registration to erasure, under
\* their descriptors, until Stop takes these away.
MapInv ==
  /\ \A f \in Fd : peers[f] # NoConn => node[peers[f]].fd = f /\ node[peers[f]].at \in Listed
  /\ \A c \in Conn : node[c].at \in Listed /\ node[c].fd \in Fd => peers[node[c].fd] = c
  /\ \A c \in Conn : node[c].at = "accepted" => node[c].fd \in Fd
  /\ phase # "cleared" => \A c \in Conn : node[c].at # "none" => node[c].fd \in Fd

NetInv == NetType /\ FdInv /\ MapInv

\* The invariant holds at the start.
LEMMA NetInit == Init => NetInv
BY NetServerAssumption
   DEF Init, NetInv, NetType, Node, FdInv, MapInv, Unused, Place, Listed

\* A descriptor given to a new connection leaves the invariant intact, if
\* the connection goes to where it waits, or into the map at once.
LEMMA OpenKeeps ==
  ASSUME NetInv, NEW f \in Fd, NEW c \in Conn, NEW t \in Target \cup {Inbound},
         NEW a \in {"accepted", "reading"}, Open(f, c, t, a), phase' = phase,
         IF a = "accepted" THEN peers' = peers ELSE peers' = [peers EXCEPT ![f] = c]
  PROVE  NetInv'
<1> USE NetServerAssumption DEF NetInv
<1>1. /\ open[f] = NoConn /\ node[c] = Unused
      /\ open' = [open EXCEPT ![f] = c]
  BY DEF Open
<1> DEFINE R == [Unused EXCEPT !.fd = f, !.target = t, !.at = a]
<1>2. R \in Node /\ R.fd = f /\ R.at = a
  BY DEF Node, Unused, Place, Listed
<1>3. NetType' /\ node' = [node EXCEPT ![c] = R]
  BY <1>1, <1>2 DEF NetType, Open
<1>4. node[c].fd = Closed /\ node[c].at = "none"
  BY <1>1 DEF Unused
<1>5. node'[c].fd = f /\ node'[c].at = a /\ \A d \in Conn \ {c} : node'[d] = node[d]
  BY <1>2, <1>3 DEF NetType
<1>6. FdInv'
  BY <1>1, <1>4, <1>5 DEF FdInv, NetType
<1>7. MapInv'
  <2>1. \A d \in Conn \ {c} : node[d].fd # f
    BY <1>1 DEF FdInv
  <2>2. peers[f] = NoConn
    BY <2>1, <1>4 DEF MapInv, NetType, Listed
  <2>3. \A g \in Fd \ {f} : peers'[g] = peers[g] /\ peers[g] # c
    BY <1>4 DEF NetType, MapInv, Listed
  <2>4. peers'[f] = IF a = "accepted" THEN NoConn ELSE c
    BY <2>2 DEF NetType
  <2>5. ASSUME NEW g \in Fd, peers'[g] # NoConn
        PROVE  node'[peers'[g]].fd = g /\ node'[peers'[g]].at \in Listed
    BY <1>5, <2>3, <2>4, <2>5 DEF MapInv, Listed, NetType
  <2>6. ASSUME NEW d \in Conn, node'[d].at \in Listed, node'[d].fd \in Fd
        PROVE  peers'[node'[d].fd] = d
    BY <1>5, <2>1, <2>3, <2>4, <2>6 DEF MapInv, Listed, NetType
  <2>7. \A d \in Conn : /\ node'[d].at = "accepted" => node'[d].fd \in Fd
                        /\ phase # "cleared" /\ node'[d].at # "none" => node'[d].fd \in Fd
    BY <1>5 DEF MapInv
  <2>8. QED
    BY <2>5, <2>6, <2>7 DEF MapInv
<1>8. QED
  BY <1>3, <1>6, <1>7

\* Registering or refusing an accepted connection keeps it.
LEMMA AcceptRegisterKeeps ==
  ASSUME NetInv, NEW c \in Conn, AcceptRegister(c)
  PROVE  NetInv'
<1> USE NetServerAssumption DEF NetInv
<1>1. node[c].at = "accepted" /\ node[c].fd \in Fd /\ open[node[c].fd] = c /\ phase' = phase
  BY DEF AcceptRegister, MapInv, FdInv
<1>2. \A d \in Conn \ {c} : node[d].fd # node[c].fd
  BY <1>1 DEF FdInv
<1>3. CASE Register(c)
  <2>1. NetType'
    BY <1>1, <1>3 DEF Register, NetType, Node, Place, Listed
  <2>2. /\ node'[c].fd = node[c].fd /\ node'[c].at = "reading"
        /\ \A d \in Conn \ {c} : node'[d] = node[d]
        /\ open' = open /\ peers'[node[c].fd] = c
        /\ \A g \in Fd \ {node[c].fd} : peers'[g] = peers[g]
    BY <1>1, <1>3 DEF Register, NetType, Node
  <2>3. FdInv'
    BY <2>2 DEF FdInv, NetType
  <2>4. ASSUME NEW g \in Fd, peers'[g] # NoConn
        PROVE  node'[peers'[g]].fd = g /\ node'[peers'[g]].at \in Listed
    BY <1>1, <2>2, <2>4 DEF MapInv, Listed, NetType
  <2>5. ASSUME NEW d \in Conn, node'[d].at \in Listed, node'[d].fd \in Fd
        PROVE  peers'[node'[d].fd] = d
    BY <1>2, <2>2, <2>5 DEF MapInv
  <2>6. MapInv'
    BY <1>1, <2>2, <2>4, <2>5 DEF MapInv
  <2>7. QED
    BY <2>1, <2>3, <2>6
<1>4. CASE Refuse(c)
  <2>1. NetType'
    BY <1>1, <1>4 DEF Refuse, NetType, Node, Place, Listed, Unused
  <2>2. /\ node'[c].fd = Closed /\ node'[c].at = "none"
        /\ \A d \in Conn \ {c} : node'[d] = node[d]
        /\ peers' = peers /\ open'[node[c].fd] = NoConn
        /\ \A g \in Fd \ {node[c].fd} : open'[g] = open[g]
    BY <1>1, <1>4 DEF Refuse, NetType, Unused
  <2>3. FdInv'
    BY <1>1, <1>2, <2>1, <2>2 DEF FdInv, NetType
  <2>4. MapInv'
    BY <1>1, <1>2, <2>1, <2>2 DEF MapInv, NetType, Listed
  <2>5. QED
    BY <2>1, <2>3, <2>4
<1>5. QED
  BY <1>3, <1>4 DEF AcceptRegister

\* A step that changes neither map nor descriptors, and moves connections
\* only within the map, keeps it.
LEMMA MovesKeep ==
  ASSUME NetInv, node' \in [Conn -> Node], UNCHANGED <<open, peers>>,
         phase' \in {"off", "up", "flagged"} \/ phase' = phase,
         phase' # "cleared" => phase # "cleared",
         \A c \in Conn : /\ node'[c].fd = node[c].fd
                         /\ \/ node'[c].at = node[c].at
                            \/ node[c].at \in Listed /\ node'[c].at \in Listed
  PROVE  NetInv'
<1>1. NetType'
  BY DEF NetInv, NetType
<1>2. FdInv'
  BY DEF NetInv, NetType, FdInv
<1>3. MapInv'
  BY DEF NetInv, NetType, MapInv, Listed
<1>4. QED
  BY <1>1, <1>2, <1>3 DEF NetInv

\* The reader's own exit keeps it: the entry goes first, then the descriptor.
LEMMA ReaderKeeps ==
  ASSUME NetInv, NEW c \in Conn, Reader(c)
  PROVE  NetInv'
<1> USE NetServerAssumption DEF NetInv
<1>1. CASE ReadData(c) \/ ReadEnds(c) \/ ReadIdle(c) \/ ReadStops(c)
  <2>1. node[c].at = "reading" /\ UNCHANGED <<phase, open, peers>>
    BY <1>1 DEF ReadData, ReadEnds, ReadIdle, ReadStops, Reads, Leaves
  <2>2. /\ node' \in [Conn -> Node]
        /\ \A d \in Conn : /\ node'[d].fd = node[d].fd
                           /\ \/ node'[d].at = node[d].at
                              \/ node[d].at \in Listed /\ node'[d].at \in Listed
    <3>1. CASE ReadData(c)
      <4>1. PICK bad \in BOOLEAN :
              node' = [node EXCEPT ![c].silent = 0, ![c].disconnected = bad]
        BY <3>1 DEF ReadData
      <4> DEFINE r == [node[c] EXCEPT !.silent = 0, !.disconnected = bad]
      <4>2. node' = [node EXCEPT ![c] = r]
        BY <4>1 DEF NetType
      <4>3. r \in Node /\ r.fd = node[c].fd /\ r.at = node[c].at
        BY DEF NetType, Node
      <4> HIDE DEF r
      <4>4. QED
        BY <4>2, <4>3 DEF NetType
    <3>2. ASSUME NEW why \in {"leaving", "idle"}, Leaves(c, why)
          PROVE  /\ node' \in [Conn -> Node]
                 /\ \A d \in Conn : /\ node'[d].fd = node[d].fd
                                    /\ \/ node'[d].at = node[d].at
                                       \/ node[d].at \in Listed /\ node'[d].at \in Listed
      <4> DEFINE r == [node[c] EXCEPT !.at = why, !.disconnected = TRUE]
      <4>1. node' = [node EXCEPT ![c] = r]
        BY <3>2 DEF Leaves, NetType
      <4>2. r \in Node /\ r.fd = node[c].fd /\ r.at \in Listed
        BY DEF NetType, Node, Place, Listed
      <4> HIDE DEF r
      <4>3. QED
        BY <2>1, <4>1, <4>2 DEF NetType, Listed
    <3>3. QED
      BY <1>1, <3>1, <3>2 DEF ReadEnds, ReadIdle, ReadStops
  <2>3. QED
    BY <2>1, <2>2, MovesKeep DEF NetType
<1>2. CASE ReaderErases(c)
  <2>1. /\ node[c].at \in Listed /\ UNCHANGED <<phase, open>>
        /\ node' \in [Conn -> Node]
        /\ node'[c].fd = node[c].fd /\ node'[c].at = "erased"
        /\ \A d \in Conn \ {c} : node'[d] = node[d]
    BY <1>2 DEF ReaderErases, NetType, Node, Place, Listed
  <2>2. /\ peers' \in [Fd -> Conn \cup {NoConn}]
        /\ node[c].fd \in Fd => peers'[node[c].fd] = NoConn
        /\ \A g \in Fd : g # node[c].fd => peers'[g] = peers[g]
    BY <1>2 DEF ReaderErases, NetType, Node
  <2>3. \A g \in Fd : peers'[g] # c
    BY <2>2 DEF MapInv
  <2>4. \A d \in Conn \ {c} : node[d].fd \in Fd => node[d].fd # node[c].fd
    BY DEF FdInv
  <2>5. NetType' /\ FdInv'
    BY <2>1, <2>2 DEF NetType, FdInv
  <2>6. ASSUME NEW g \in Fd, peers'[g] # NoConn
        PROVE  node'[peers'[g]].fd = g /\ node'[peers'[g]].at \in Listed
    BY <2>1, <2>2, <2>3, <2>6 DEF MapInv, NetType
  <2>7. ASSUME NEW d \in Conn, node'[d].at \in Listed, node'[d].fd \in Fd
        PROVE  peers'[node'[d].fd] = d
    BY <2>1, <2>2, <2>4, <2>7 DEF MapInv, Listed
  <2>8. QED
    BY <2>1, <2>5, <2>6, <2>7 DEF MapInv, Listed
<1>3. CASE ReaderCloses(c)
  <2>1. /\ node[c].at = "erased" /\ UNCHANGED <<phase, peers>>
        /\ node' \in [Conn -> Node]
        /\ node'[c].fd = Closed /\ node'[c].at = "none"
        /\ \A d \in Conn \ {c} : node'[d] = node[d]
    BY <1>3 DEF ReaderCloses, NetType, Node, Place, Listed, Unused
  <2>2. /\ open' \in [Fd -> Conn \cup {NoConn}]
        /\ node[c].fd \in Fd => open'[node[c].fd] = NoConn
        /\ \A g \in Fd : g # node[c].fd => open'[g] = open[g]
    BY <1>3 DEF ReaderCloses, NetType, Node
  <2>3. \A d \in Conn \ {c} : node[d].fd \in Fd => node[d].fd # node[c].fd
    BY DEF FdInv
  <2>4. \A g \in Fd : open'[g] # c
    BY <2>2 DEF FdInv
  <2>5. NetType'
    BY <2>1, <2>2 DEF NetType
  <2>6. FdInv'
    BY <2>1, <2>2, <2>3, <2>4, <2>5 DEF FdInv, NetType
  <2>7. \A g \in Fd : peers[g] # c
    BY <2>1 DEF MapInv, Listed
  <2>8. MapInv'
    BY <2>1, <2>7 DEF MapInv, Listed, NetType
  <2>9. QED
    BY <2>5, <2>6, <2>8
<1>4. QED
  BY <1>1, <1>2, <1>3 DEF Reader

\* A second passing, and a write that fails, keep it.
LEMMA MarksKeep ==
  ASSUME NetInv, Tick \/ \E f \in Fd : WriteFails(f)
  PROVE  NetInv'
<1> USE NetServerAssumption DEF NetInv
<1>1. CASE Tick
  <2>1. /\ node' \in [Conn -> Node]
        /\ \A c \in Conn : node'[c].fd = node[c].fd /\ node'[c].at = node[c].at
    BY <1>1 DEF Tick, NetType, Node
  <2>2. QED
    BY <1>1, <2>1, MovesKeep DEF Tick, NetType
<1>2. ASSUME NEW f \in Fd, WriteFails(f) PROVE NetInv'
  <2> DEFINE c == peers[f]
             r == [node[c] EXCEPT !.disconnected = TRUE]
  <2>1. c \in Conn
    BY <1>2 DEF WriteFails, NetType
  <2>2. r \in Node /\ r.fd = node[c].fd /\ r.at = node[c].at
    BY <2>1 DEF NetType, Node
  <2>3. node' = [node EXCEPT ![c] = r]
    BY <1>2, <2>1 DEF WriteFails, NetType
  <2> HIDE DEF r, c
  <2>4. /\ node' \in [Conn -> Node]
        /\ \A d \in Conn : node'[d].fd = node[d].fd /\ node'[d].at = node[d].at
    BY <2>1, <2>2, <2>3 DEF NetType
  <2>5. QED
    BY <1>2, <2>4, MovesKeep DEF WriteFails, NetType
<1>3. QED
  BY <1>1, <1>2

\* Stop closes the descriptors of the connections in the map, and these
\* have none afterwards.
LEMMA StopKeeps ==
  ASSUME NetInv, StopClear
  PROVE  NetInv'
<1> USE NetServerAssumption DEF NetInv
<1>1. /\ phase' = "cleared" /\ peers' = [f \in Fd |-> NoConn]
      /\ open' = [f \in Fd |-> IF peers[f] # NoConn THEN NoConn ELSE open[f]]
      /\ node' = [c \in Conn |-> IF \E f \in Fd : peers[f] # NoConn /\ peers[f] = c
                                 THEN [node[c] EXCEPT !.fd = Closed] ELSE node[c]]
  BY DEF StopClear, Registered
<1>2. \A c \in Conn : /\ node'[c] \in Node /\ node'[c].at = node[c].at
                      /\ IF \E f \in Fd : peers[f] = c
                         THEN node'[c].fd = Closed ELSE node'[c].fd = node[c].fd
  BY <1>1 DEF NetType, Node
<1>3. NetType'
  BY <1>1, <1>2 DEF NetType
<1>4. ASSUME NEW f \in Fd, open'[f] # NoConn PROVE node'[open'[f]].fd = f
  <2>1. peers[f] = NoConn /\ open'[f] = open[f] /\ open[f] \in Conn /\ node[open[f]].fd = f
    BY <1>1, <1>4 DEF NetType, FdInv
  <2>2. ~ \E g \in Fd : peers[g] = open[f]
    BY <2>1 DEF MapInv
  <2>3. QED
    BY <1>2, <2>1, <2>2
<1>5. ASSUME NEW c \in Conn, node'[c].fd \in Fd
      PROVE  /\ ~ \E f \in Fd : peers[f] = c
             /\ node'[c].fd = node[c].fd /\ open'[node'[c].fd] = c /\ node[c].at \notin Listed
  <2>1. ~ \E f \in Fd : peers[f] = c
    BY <1>2, <1>5
  <2>2. node'[c].fd = node[c].fd /\ node[c].fd \in Fd /\ open[node[c].fd] = c
    BY <1>2, <1>5, <2>1 DEF FdInv
  <2>3. node[c].at \notin Listed
    BY <2>1, <2>2 DEF MapInv
  <2>4. peers[node[c].fd] = NoConn
    BY <2>1, <2>2 DEF MapInv, FdInv, NetType
  <2>5. QED
    BY <1>1, <2>1, <2>2, <2>3, <2>4
<1>6. FdInv'
  BY <1>4, <1>5 DEF FdInv
<1>7. ASSUME NEW c \in Conn, node'[c].at = "accepted" PROVE node'[c].fd \in Fd
  <2>1. node[c].at = "accepted" /\ node[c].fd \in Fd
    BY <1>2, <1>7 DEF MapInv
  <2>2. ~ \E f \in Fd : peers[f] = c
    BY <2>1 DEF MapInv, Listed
  <2>3. QED
    BY <1>2, <2>1, <2>2
<1>8. MapInv'
  BY <1>1, <1>2, <1>5, <1>7 DEF MapInv
<1>9. QED
  BY <1>3, <1>6, <1>8

\* Every step keeps the invariant.
LEMMA NetStep == NetInv /\ [Next]_vars => NetInv'
<1> SUFFICES ASSUME NetInv, [Next]_vars PROVE NetInv'
  OBVIOUS
<1>1. ASSUME UNCHANGED <<open, peers, node>>,
             (phase' \in {"up", "flagged"} /\ phase # "cleared") \/ phase' = phase
      PROVE  NetInv'
  BY <1>1, MovesKeep DEF NetInv, NetType
<1>2. CASE Start \/ LoopCopy \/ LoopCheck \/ StopFlag
  BY <1>1, <1>2 DEF Start, LoopCopy, LoopCheck, StopFlag, running
<1>3. CASE (\E t \in Target : AddTarget(t)) \/ UNCHANGED vars
  BY <1>1, <1>3 DEF AddTarget, vars
<1>4. ASSUME NEW d \in Dials, DialFails(d) \/ Connects(d) PROVE NetInv'
  <2>1. CASE DialFails(d)
    BY <1>1, <2>1 DEF DialFails, DialDone
  <2>2. CASE Connects(d)
    <3>1. PICK f \in Fd, c \in Conn : DialConnects(d, f, c)
      BY <2>2 DEF Connects
    <3>2. d[2] \in Target
      BY DEF Dials
    <3>3. QED
      BY <3>1, <3>2, OpenKeeps DEF DialConnects, DialDone
  <2>3. QED
    BY <1>4, <2>1, <2>2
<1>5. ASSUME NEW f \in Fd, NEW c \in Conn, Accept(f, c) PROVE NetInv'
  BY <1>5, OpenKeeps DEF Accept
<1>6. ASSUME NEW c \in Conn, Reader(c) \/ AcceptRegister(c) PROVE NetInv'
  BY <1>6, ReaderKeeps, AcceptRegisterKeeps
<1>7. CASE Tick \/ StopClear \/ \E f \in Fd : WriteFails(f)
  BY <1>7, MarksKeep, StopKeeps
<1>8. QED
  BY <1>2, <1>3, <1>4, <1>5, <1>6, <1>7 DEF Next

\* The invariant holds of every behaviour.
LEMMA NetInvariant == Spec => []NetInv
BY NetInit, NetStep, PTL DEF Spec

\* While the server runs, a connection that is read is in peers under its
\* own descriptor, however descriptors are reused.
THEOREM ReadersAreRegistered == Spec => []ReaderIsRegistered
<1>1. NetInv => ReaderIsRegistered
  BY DEF NetInv, NetType, FdInv, MapInv, Listed, ReaderIsRegistered, running
<1>2. QED
  BY <1>1, NetInvariant, PTL

\* Every open descriptor has exactly one connection that closes it.
THEOREM DescriptorsAreOwned == Spec => []EachDescriptorOwned
<1>1. NetInv => EachDescriptorOwned
  BY NetServerAssumption DEF NetInv, NetType, FdInv, EachDescriptorOwned
<1>2. QED
  BY <1>1, NetInvariant, PTL

\* The accept loop and the dialling threads together stay below the limit.
THEOREM PeersStayBounded == Spec => []PeersBounded
<1> USE NetServerAssumption
<1>1. ASSUME NetType, NEW f \in Fd, NEW c \in Conn, HasRoom, peers' = [peers EXCEPT ![f] = c]
      PROVE  PeersBounded'
  <2>1. Registered' = Registered \cup {f}
    BY <1>1 DEF Registered, NetType
  <2>2. IsFiniteSet(Registered)
    BY FS_Subset DEF Registered
  <2>3. Cardinality(Registered) \in Nat /\ Cardinality(Registered) < MaxPeers
    BY <1>1, <2>2, FS_CardinalityType DEF HasRoom
  <2>4. Cardinality(Registered \cup {f}) \in {Cardinality(Registered), Cardinality(Registered) + 1}
    BY <2>2, FS_AddElement
  <2>5. QED
    BY <2>1, <2>3, <2>4 DEF PeersBounded
<1>2. ASSUME PeersBounded, Registered' \subseteq Registered PROVE PeersBounded'
  <2>1. IsFiniteSet(Registered)
    BY FS_Subset DEF Registered
  <2>2. /\ Cardinality(Registered') <= Cardinality(Registered)
        /\ IsFiniteSet(Registered')
    BY <1>2, <2>1, FS_Subset
  <2>3. Cardinality(Registered) \in Nat /\ Cardinality(Registered') \in Nat
    BY <2>1, <2>2, FS_CardinalityType
  <2>4. QED
    BY <1>2, <2>2, <2>3 DEF PeersBounded
<1>3. Init => PeersBounded
  <2> SUFFICES ASSUME Init PROVE PeersBounded
    OBVIOUS
  <2>1. Registered = {}
    BY DEF Init, Registered
  <2>2. QED
    BY <2>1, FS_EmptySet DEF PeersBounded
<1>4. NetInv /\ PeersBounded /\ [Next]_vars => PeersBounded'
  <2> SUFFICES ASSUME NetInv, PeersBounded, [Next]_vars PROVE PeersBounded'
    OBVIOUS
  <2>0. NetType
    BY DEF NetInv
  <2>1. ASSUME peers' = peers PROVE PeersBounded'
    BY <1>2, <2>1 DEF Registered
  <2>2. ASSUME NEW c \in Conn, AcceptRegister(c) PROVE PeersBounded'
    <3>1. node[c].fd \in Fd
      BY <2>2 DEF AcceptRegister, NetInv, MapInv
    <3>2. QED
      BY <1>1, <2>0, <2>1, <2>2, <3>1 DEF AcceptRegister, Register, Refuse
  <2>3. ASSUME NEW c \in Conn, Reader(c) PROVE PeersBounded'
    <3>1. CASE ReaderErases(c)
      <4>1. Registered' \subseteq Registered
        BY <3>1, <2>0 DEF ReaderErases, Registered, NetType
      <4>2. QED
        BY <1>2, <4>1
    <3>2. QED
      BY <2>1, <2>3, <3>1 DEF Reader, ReadData, ReadEnds, ReadIdle, ReadStops, Leaves,
                              ReaderCloses
  <2>4. ASSUME NEW d \in Dials, DialFails(d) \/ Connects(d) PROVE PeersBounded'
    BY <1>1, <2>0, <2>1, <2>4 DEF DialFails, Connects, DialConnects
  <2>5. CASE StopClear
    <3>1. Registered' \subseteq Registered
      BY <2>5 DEF StopClear, Registered
    <3>2. QED
      BY <1>2, <3>1
  <2>6. QED
    BY <2>1, <2>2, <2>3, <2>4, <2>5
       DEF Next, Start, LoopCopy, LoopCheck, Tick, StopFlag, AddTarget, WriteFails, Accept, vars
<1>5. QED
  BY <1>3, <1>4, NetInvariant, PTL DEF Spec
=============================================================================
