----------------------------- MODULE NetServer ------------------------------
(***************************************************************************)
(* The connections of one node: CNetServer (p2p/server.cpp) and CNode.     *)
(* Its threads are the accept loop, the connect loop, the callers of       *)
(* AddTarget and one reader per connection; every lock of peersMutex is    *)
(* one step.  Descriptors are reused by the system as soon as they are     *)
(* closed.  What is read and written is the concern of modules Wire and    *)
(* Sync; here a read has an outcome.                                       *)
(***************************************************************************)
EXTENDS Integers, Sequences, SequencesExt, FiniteSets

CONSTANTS
  Conn,        \* CNode objects, reused once nothing refers to them
  NoConn,
  Fd,          \* file descriptors
  Closed,      \* the descriptor -1
  Target,      \* what AddTarget is called with
  Inbound,     \* the target of a connection that was accepted
  MaxPeers,    \* connections, 32
  IdleLimit,   \* seconds, 90
  MayStop      \* whether Stop is called

ASSUME NetServerAssumption ==
  /\ NoConn \notin Conn /\ Closed \notin Fd /\ Inbound \notin Target
  /\ MaxPeers \in Nat \ {0} /\ IdleLimit \in Nat /\ MayStop \in BOOLEAN
  /\ IsFiniteSet(Fd)

VARIABLES
  phase,      \* "off", "up", then the steps of Stop: "flagged", "cleared"
  open,       \* open[f]: the connection whose socket descriptor f is
  peers,      \* peers[f]: the entry of the map, or NoConn
  node,       \* node[c]: the CNode, and where its thread is
  targets,
  todo,       \* what the connect loop has left of its copy of targets
  dialing     \* the calls of ConnectTo that wait for their connection

vars == <<phase, open, peers, node, targets, todo, dialing>>

running == phase = "up"

\* Since lastMessageTime, which is 0 until something has been read.
Ages == -1

Unused == [fd |-> Closed, target |-> Inbound, at |-> "none", silent |-> Ages,
           disconnected |-> FALSE]

Registered == {f \in Fd : peers[f] # NoConn}

\* Descriptor f is opened as the socket of a new connection.
Open(f, c, target, at) ==
  /\ open[f] = NoConn /\ node[c] = Unused
  /\ open' = [open EXCEPT ![f] = c]
  /\ node' = [node EXCEPT ![c] = [Unused EXCEPT !.fd = f, !.target = target,
                                                !.at = at]]

\* Mutant: the descriptor is left open.
RefuseLeaks(c) ==
  /\ node' = [node EXCEPT ![c] = Unused]
  /\ UNCHANGED <<open, peers>>

\* A connection that is not registered is closed at once.
Refuse(c) ==
  /\ open' = [open EXCEPT ![node[c].fd] = NoConn]
  /\ node' = [node EXCEPT ![c] = Unused]
  /\ UNCHANGED peers

Register(c) ==
  /\ peers' = [peers EXCEPT ![node[c].fd] = c]
  /\ node' = [node EXCEPT ![c].at = "reading"]
  /\ UNCHANGED open

HasRoom == Cardinality(Registered) < MaxPeers

-----------------------------------------------------------------------------
(* Start, the accept loop *)

Start ==
  /\ phase = "off"
  /\ phase' = "up"
  /\ UNCHANGED <<open, peers, node, targets, todo, dialing>>

Accept(f, c) ==
  /\ running
  /\ \A d \in Conn : node[d].at # "accepted"
  /\ Open(f, c, Inbound, "accepted")
  /\ UNCHANGED <<phase, peers, targets, todo, dialing>>

AcceptRegister(c) ==
  /\ node[c].at = "accepted"
  /\ IF HasRoom THEN Register(c) ELSE Refuse(c)
  /\ UNCHANGED <<phase, targets, todo, dialing>>

-----------------------------------------------------------------------------
(* Outgoing connections *)

AddTarget(t) ==
  /\ ~Contains(targets, t)
  /\ targets' = Append(targets, t)
  /\ dialing' = dialing \cup {<<"add", t>>}
  /\ UNCHANGED <<phase, open, peers, node, todo>>

HasTargetConnection(t) ==
  \E f \in Registered :
    node[peers[f]].target = t /\ ~node[peers[f]].disconnected

LoopDials == \E t \in Target : <<"loop", t>> \in dialing

\* ConnectLoop makes its copy of the targets, every three seconds.
LoopCopy ==
  /\ running /\ todo = <<>> /\ targets # <<>>
  /\ todo' = targets
  /\ UNCHANGED <<phase, open, peers, node, targets, dialing>>

LoopCheck ==
  /\ running /\ todo # <<>> /\ ~LoopDials
  /\ IF HasTargetConnection(Head(todo))
     THEN todo' = Tail(todo) /\ UNCHANGED dialing
     ELSE UNCHANGED todo /\ dialing' = dialing \cup {<<"loop", Head(todo)>>}
  /\ UNCHANGED <<phase, open, peers, node, targets>>

\* ConnectTo is over for d: its caller goes on.
DialDone(d) ==
  /\ d \in dialing
  /\ dialing' = dialing \ {d}
  /\ todo' = IF d[1] = "loop" THEN Tail(todo) ELSE todo
  /\ UNCHANGED <<phase, targets>>

\* Mutant: a target that does not answer is given up.
DialFailsForgets(d) ==
  /\ d \in dialing
  /\ dialing' = dialing \ {d}
  /\ todo' = IF d[1] = "loop" THEN Tail(todo) ELSE todo
  /\ targets' = SelectSeq(targets, LAMBDA t : t # d[2])
  /\ UNCHANGED <<phase, open, peers, node>>

\* No answer, or no room: the socket does not outlive ConnectTo.
DialFails(d) == DialDone(d) /\ UNCHANGED <<open, peers, node>>

\* The connection is entered under peersMutex; then the version is sent and
\* the reader started.
DialConnects(d, f, c) ==
  /\ DialDone(d)
  /\ HasRoom
  /\ Open(f, c, d[2], "reading")
  /\ peers' = [peers EXCEPT ![f] = c]

-----------------------------------------------------------------------------
(* Sending and receiving *)

\* WriteTo fails for some sender, of a message or of a broadcast.
WriteFails(f) ==
  /\ peers[f] # NoConn
  /\ ~node[peers[f]].disconnected
  /\ node' = [node EXCEPT ![peers[f]].disconnected = TRUE]
  /\ UNCHANGED <<phase, open, peers, targets, todo, dialing>>

Reads(c) == node[c].at = "reading" /\ running /\ ~node[c].disconnected

\* Bytes arrive, and ProcessBuffer finds a reason to disconnect or none.
ReadData(c) ==
  /\ Reads(c)
  /\ \E bad \in BOOLEAN :
       node' = [node EXCEPT ![c].silent = 0, ![c].disconnected = bad]
  /\ UNCHANGED <<phase, open, peers, targets, todo, dialing>>

Leaves(c, why) ==
  /\ node' = [node EXCEPT ![c].at = why, ![c].disconnected = TRUE]
  /\ UNCHANGED <<phase, open, peers, targets, todo, dialing>>

\* recv returns 0 or an error.
ReadEnds(c) == Reads(c) /\ Leaves(c, "leaving")

\* Nothing for more than IdleLimit seconds since lastMessageTime.
ReadIdle(c) ==
  /\ Reads(c)
  /\ node[c].silent = Ages \/ node[c].silent > IdleLimit
  /\ Leaves(c, "idle")

\* The condition of the loop fails.
ReadStops(c) ==
  /\ node[c].at = "reading" /\ ~Reads(c)
  /\ Leaves(c, "leaving")

\* The reader takes its entry out of peers, whoever's entry it is by now.
ReaderErases(c) ==
  /\ node[c].at \in {"leaving", "idle"}
  /\ peers' = IF node[c].fd = Closed THEN peers
              ELSE [peers EXCEPT ![node[c].fd] = NoConn]
  /\ node' = [node EXCEPT ![c].at = "erased"]
  /\ UNCHANGED <<phase, open, targets, todo, dialing>>

\* And then closes the descriptor.
ReaderCloses(c) ==
  /\ node[c].at = "erased"
  /\ open' = IF node[c].fd = Closed THEN open
             ELSE [open EXCEPT ![node[c].fd] = NoConn]
  /\ node' = [node EXCEPT ![c] = Unused]
  /\ UNCHANGED <<phase, peers, targets, todo, dialing>>

\* A second passes.
Tick ==
  /\ node' = [c \in Conn |->
                IF node[c].at = "reading" /\ node[c].silent \in 0..IdleLimit
                THEN [node[c] EXCEPT !.silent = @ + 1] ELSE node[c]]
  /\ UNCHANGED <<phase, open, peers, targets, todo, dialing>>

-----------------------------------------------------------------------------
(* Stop *)

StopFlag ==
  /\ MayStop /\ running
  /\ phase' = "flagged"
  /\ UNCHANGED <<open, peers, node, targets, todo, dialing>>

\* The connect loop has been joined: every entry is closed and dropped.
StopClear ==
  /\ phase = "flagged" /\ ~LoopDials
  /\ phase' = "cleared"
  /\ open' = [f \in Fd |-> IF f \in Registered THEN NoConn ELSE open[f]]
  /\ node' = [c \in Conn |-> IF \E f \in Registered : peers[f] = c
                             THEN [node[c] EXCEPT !.fd = Closed] ELSE node[c]]
  /\ peers' = [f \in Fd |-> NoConn]
  /\ UNCHANGED <<targets, todo, dialing>>

-----------------------------------------------------------------------------

Init ==
  /\ phase = "off"
  /\ open = [f \in Fd |-> NoConn]
  /\ peers = [f \in Fd |-> NoConn]
  /\ node = [c \in Conn |-> Unused]
  /\ targets = <<>> /\ todo = <<>> /\ dialing = {}

Reader(c) ==
  \/ ReadData(c) \/ ReadEnds(c) \/ ReadIdle(c)
  \/ ReadStops(c) \/ ReaderErases(c) \/ ReaderCloses(c)

Connects(d) == \E f \in Fd, c \in Conn : DialConnects(d, f, c)

Dials == {"add", "loop"} \X Target

Next ==
  \/ Start \/ LoopCopy \/ LoopCheck \/ Tick \/ StopFlag \/ StopClear
  \/ \E t \in Target : AddTarget(t)
  \/ \E d \in Dials : DialFails(d) \/ Connects(d)
  \/ \E f \in Fd : WriteFails(f)
  \/ \E c \in Conn : Reader(c) \/ AcceptRegister(c)
  \/ \E f \in Fd, c \in Conn : Accept(f, c)

Spec == Init /\ [][Next]_vars

\* Threads run, a reader that is told to leave does, a call of ConnectTo
\* returns, and the network lets a dial through that is tried for ever.
FairSpec ==
  /\ Spec
  /\ WF_vars(Start) /\ WF_vars(LoopCopy) /\ WF_vars(LoopCheck)
  /\ WF_vars(StopClear)
  /\ \A c \in Conn : /\ WF_vars(AcceptRegister(c)) /\ WF_vars(ReadStops(c))
                     /\ WF_vars(ReaderErases(c)) /\ WF_vars(ReaderCloses(c))
  /\ \A d \in Dials : WF_vars(DialFails(d) \/ Connects(d)) /\ SF_vars(Connects(d))

-----------------------------------------------------------------------------
(* What is wanted of it *)

\* While the server runs, a connection that is being read is found under its
\* descriptor, which is its own: SendTo and BroadcastMessage write to no
\* stranger, also when a descriptor is used again.
ReaderIsRegistered ==
  running => \A c \in Conn : node[c].at = "reading" =>
               peers[node[c].fd] = c /\ open[node[c].fd] = c

\* The connection limit holds for both directions together.
PeersBounded == Cardinality(Registered) <= MaxPeers

\* A descriptor that is open belongs to a connection that will close it, and
\* none is closed twice: the two places that close it, ReadLoop and Stop,
\* never both do.
EachDescriptorOwned ==
  \A f \in Fd : IF open[f] = NoConn
                THEN \A c \in Conn : node[c].fd # f
                ELSE node[open[f]].fd = f

\* A target is connected again and again (the auto-reconnect of AddTarget),
\* unless the limit or the descriptors are reached again and again.
KeepsReconnecting ==
  LET exhausted == ~HasRoom \/ \A f \in Fd : open[f] # NoConn
  IN  \A t \in Target :
        [](Contains(targets, t)
             => <>(HasTargetConnection(t) \/ exhausted \/ ~running))

\* A reader gives up for silence only after IdleLimit seconds of it ("cek
\* timeout idle (90 detik tanpa pesan)", ReadLoop).
\* The code does not keep this (README, "Deviations").
IdleAfterLimit ==
  \A c \in Conn : node[c].at = "idle" => node[c].silent > IdleLimit
=============================================================================
