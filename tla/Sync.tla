-------------------------------- MODULE Sync --------------------------------
(***************************************************************************)
(* Two nodes that bring their chains together: the message handlers of     *)
(* cdxd.cpp at both ends of one connection.  TCP neither loses nor         *)
(* reorders messages, but a connection may break, and everything in flight *)
(* is lost with it; the node that dialled dials again.                     *)
(*                                                                         *)
(* All blocks here are valid.  A block is the path of steps that leads to  *)
(* it from genesis, the empty path, and a step carries the work of its     *)
(* block; the active chain of a node, being a path (module Chain), is      *)
(* given by its tip.                                                       *)
(***************************************************************************)
EXTENDS Integers, Sequences, SequencesExt, FiniteSets

CONSTANTS
  Dialer,         \* the node that calls AddTarget for the other
  Listener,
  Block,          \* a set of paths, closed under prefixes
  InitialTips,    \* the functions from node to tip they may start with
  Elsewhere,      \* Elsewhere[n]: what n may mine or get from other peers
  MaxHeaders,     \* headers in one message, 2000
  MaxWanted,      \* blocks asked for in answer to headers, 100
  LocatorDense,   \* locator entries before the step grows, 10
  LocatorMax,     \* locator entries, 32
  MaxBreaks,      \* bound: how often the connection breaks
  MaxScore        \* bound: points are not counted beyond it

Node == {Dialer, Listener}
Genesis == <<>>

ASSUME SyncAssumption ==
  /\ Dialer # Listener
  /\ Genesis \in Block
  /\ \A b \in Block : b # Genesis => Front(b) \in Block
  /\ InitialTips \subseteq [Node -> Block]
  /\ Elsewhere \in [Node -> SUBSET (Block \ {Genesis})]
  /\ {MaxHeaders, MaxWanted, LocatorMax} \subseteq Nat \ {0}
  /\ {LocatorDense, MaxBreaks, MaxScore} \subseteq Nat

VARIABLES
  tip,          \* tip[n]: chain.tipHash
  index,        \* index[n]: the blocks of chain.index
  chainWork,    \* chainWork[n]: chain.chainWork
  connected,
  inbox,        \* inbox[n]: the messages on their way to n
  handshakeDone,\* handshakeDone[n]: n has had the version of its peer
  startHeight,  \* startHeight[n]: node.theirVersion.startHeight
  halfway,      \* halfway[n]: HandleHeaders is between its two locks
  score,        \* score[n]: misbehaviorScore of the peer at n
  breaks

chainVars == <<tip, index, chainWork>>
peerVars == <<handshakeDone, startHeight>>
vars == <<tip, index, chainWork, connected, inbox, handshakeDone, startHeight,
          halfway, score, breaks>>

Other(n) == IF n = Dialer THEN Listener ELSE Dialer
Height(b) == Len(b)
Prev(b) == Front(b)
PathWork(b) == FoldLeft(LAMBDA w, step : w + step[1], 1, b)
Ancestors(b) == {SubSeq(b, 1, h) : h \in 0..Len(b)}

-----------------------------------------------------------------------------
(* Messages *)

Version(h) == [type |-> "version", height |-> h]
Inv(b) == [type |-> "inv", block |-> b]
GetData(bs) == [type |-> "getdata", blocks |-> bs]
BlockMsg(b) == [type |-> "block", block |-> b]
GetHeaders(locator) == [type |-> "getheaders", locator |-> locator]
Headers(bs) == [type |-> "headers", blocks |-> bs]

\* The locator that every handler builds: from the tip back, in steps of one
\* and, once it has more than LocatorDense entries, of two.
Locator(b) ==
  LET Back(k) == IF k <= LocatorDense THEN k ELSE 2 * k - LocatorDense
      count == Cardinality({k \in 0..LocatorMax - 1 : Back(k) <= Height(b)})
  IN  [k \in 1..count |-> SubSeq(b, 1, Height(b) - Back(k - 1))]

\* Node n handles its next message: it is taken from its inbox, and msgs go
\* to the other node.
Reply(n, msgs) ==
  inbox' = [inbox EXCEPT ![n] = Tail(@), ![Other(n)] = @ \o msgs]

Receives(n, type) ==
  connected /\ ~halfway[n] /\ inbox[n] # <<>> /\ Head(inbox[n]).type = type

-----------------------------------------------------------------------------
(* The connection *)

\* ConnectTo: the version message says 0, whatever the height.
Connect ==
  /\ ~connected
  /\ connected' = TRUE
  /\ inbox' = [inbox EXCEPT ![Listener] = <<Version(0)>>]
  /\ UNCHANGED <<chainVars, peerVars, halfway, score, breaks>>

\* The CNode of either side goes, with what it knew of its peer.
Break ==
  /\ connected
  /\ breaks < MaxBreaks
  /\ breaks' = breaks + 1
  /\ connected' = FALSE
  /\ inbox' = [n \in Node |-> <<>>]
  /\ handshakeDone' = [n \in Node |-> FALSE]
  /\ startHeight' = [n \in Node |-> 0]
  /\ halfway' = [n \in Node |-> FALSE]
  /\ score' = [n \in Node |-> 0]
  /\ UNCHANGED chainVars

\* HandleVersion: the listener answers with its own version; both ask for
\* headers.
HandleVersion(n) ==
  /\ Receives(n, "version")
  /\ handshakeDone' = [handshakeDone EXCEPT ![n] = TRUE]
  /\ startHeight' = [startHeight EXCEPT ![n] = Head(inbox[n]).height]
  /\ Reply(n, (IF n = Listener THEN <<Version(Height(tip[n]))>> ELSE <<>>)
                \o <<GetHeaders(Locator(tip[n]))>>)
  /\ UNCHANGED <<chainVars, connected, halfway, score, breaks>>

-----------------------------------------------------------------------------
(* Headers *)

\* The height a locator leads to: after the first hash that is in the index,
\* also when the active chain has left that block.
StartHeight(n, locator) ==
  LET known == {k \in DOMAIN locator : locator[k] \in index[n]}
  IN  IF known = {} THEN 0 ELSE Height(locator[Min(known)]) + 1

HandleGetHeaders(n) ==
  /\ Receives(n, "getheaders")
  /\ LET from == StartHeight(n, Head(inbox[n]).locator)
         to == Min({Height(tip[n]), from + MaxHeaders - 1})
     IN  Reply(n, <<Headers([i \in 1..(IF to < from THEN 0 ELSE to - from + 1)
                               |-> SubSeq(tip[n], 1, from + i - 1)])>>)
  /\ UNCHANGED <<chainVars, connected, peerVars, halfway, score, breaks>>

Unknown(n, bs) == SelectSeq(bs, LAMBDA b : b \notin index[n])

\* The first part of HandleHeaders: the first blocks that are not known are
\* asked for.  The second part follows if one is not, or the message is full.
HandleHeaders(n) ==
  /\ Receives(n, "headers")
  /\ LET bs == Head(inbox[n]).blocks
         want == Unknown(n, bs)
     IN  /\ Reply(n, IF want = <<>> THEN <<>>
                     ELSE <<GetData(SubSeq(want, 1, Min({MaxWanted, Len(want)})))>>)
         /\ halfway' = [halfway EXCEPT ![n] =
                          want # <<>> \/ Len(bs) >= MaxHeaders]
  /\ UNCHANGED <<chainVars, connected, peerVars, score, breaks>>

\* Mutant: the rest of the headers is not asked for.
AskForMoreNot(n) ==
  /\ halfway[n]
  /\ halfway' = [halfway EXCEPT ![n] = FALSE]
  /\ UNCHANGED <<chainVars, inbox, connected, peerVars, score, breaks>>

\* The second part, with the tip as it is by then.
AskForMore(n) ==
  /\ halfway[n]
  /\ halfway' = [halfway EXCEPT ![n] = FALSE]
  /\ inbox' = [inbox EXCEPT ![Other(n)] =
                 Append(@, GetHeaders(Locator(tip[n])))]
  /\ UNCHANGED <<chainVars, connected, peerVars, score, breaks>>

-----------------------------------------------------------------------------
(* Blocks *)

HandleInv(n) ==
  /\ Receives(n, "inv")
  /\ Reply(n, IF Head(inbox[n]).block \in index[n] THEN <<>>
              ELSE <<GetData(<<Head(inbox[n]).block>>)>>)
  /\ UNCHANGED <<chainVars, connected, peerVars, halfway, score, breaks>>

HandleGetData(n) ==
  /\ Receives(n, "getdata")
  /\ LET have == SelectSeq(Head(inbox[n]).blocks, LAMBDA b : b \in index[n])
     IN  Reply(n, [i \in DOMAIN have |-> BlockMsg(have[i])])
  /\ UNCHANGED <<chainVars, connected, peerVars, halfway, score, breaks>>

\* TryAcceptBlock takes b: it extends the tip, or forks from the active chain
\* with more work than chain.chainWork, which a reorganisation leaves alone.
Extends(n, b) == Prev(b) = tip[n]

Reorganizes(n, b) ==
  /\ Prev(b) \in Ancestors(tip[n]) \ {tip[n]}
  /\ PathWork(b) > chainWork[n]

Accept(n, b) ==
  /\ b \notin index[n]
  /\ Extends(n, b) \/ Reorganizes(n, b)
  /\ tip' = [tip EXCEPT ![n] = b]
  /\ index' = [index EXCEPT ![n] = @ \cup {b}]
  /\ chainWork' = [chainWork EXCEPT ![n] =
                     IF Extends(n, b) THEN PathWork(b) ELSE @]

\* HandleBlock when the block is taken: the peer it came from is asked for
\* more while the chain is below the height it reported.
HandleBlockTaken(n) ==
  /\ Receives(n, "block")
  /\ Accept(n, Head(inbox[n]).block)
  /\ Reply(n, IF Height(tip'[n]) < startHeight[n]
              THEN <<GetHeaders(Locator(tip'[n]))>> ELSE <<>>)
  /\ UNCHANGED <<connected, peerVars, halfway, score, breaks>>

Points(x) == Min({x, MaxScore})

\* Mutant: a block whose parent is not known counts against the peer.
HandleBlockRefusedHarsh(n) ==
  /\ Receives(n, "block")
  /\ LET b == Head(inbox[n]).block
     IN  /\ b \notin index[n] => ~Extends(n, b) /\ ~Reorganizes(n, b)
         /\ Reply(n, <<>>)
         /\ score' = [score EXCEPT ![n] =
                        IF b \in index[n] THEN @ ELSE Points(@ + 10)]
  /\ UNCHANGED <<chainVars, connected, peerVars, halfway, breaks>>

\* HandleBlock when it is not: one that is there already is ignored, one
\* whose parent is unknown leads to another getheaders, and any other counts
\* against the peer.
HandleBlockRefused(n) ==
  /\ Receives(n, "block")
  /\ LET b == Head(inbox[n]).block
     IN  /\ b \notin index[n] => ~Extends(n, b) /\ ~Reorganizes(n, b)
         /\ IF b \notin index[n] /\ Prev(b) \notin index[n]
            THEN Reply(n, <<GetHeaders(Locator(tip[n]))>>) /\ UNCHANGED score
            ELSE /\ Reply(n, <<>>)
                 /\ score' = [score EXCEPT ![n] =
                                IF b \in index[n] THEN @ ELSE Points(@ + 10)]
  /\ UNCHANGED <<chainVars, connected, peerVars, halfway, breaks>>

\* Node n takes a block from its miner or from some other peer, and
\* announces it to the peers that have finished the handshake.
TakeElsewhere(n, b) ==
  /\ Accept(n, b)
  /\ inbox' = IF handshakeDone[n]
              THEN [inbox EXCEPT ![Other(n)] = Append(@, Inv(b))] ELSE inbox
  /\ UNCHANGED <<connected, peerVars, halfway, score, breaks>>

-----------------------------------------------------------------------------

Init ==
  /\ tip \in InitialTips
  /\ index = [n \in Node |-> Ancestors(tip[n])]
  /\ chainWork = [n \in Node |-> PathWork(tip[n])]
  /\ connected = FALSE
  /\ inbox = [n \in Node |-> <<>>]
  /\ handshakeDone = [n \in Node |-> FALSE]
  /\ startHeight = [n \in Node |-> 0]
  /\ halfway = [n \in Node |-> FALSE]
  /\ score = [n \in Node |-> 0]
  /\ breaks = 0

\* One message handler of node n.
OnMessage(n) ==
  \/ HandleVersion(n) \/ HandleGetHeaders(n) \/ HandleHeaders(n)
  \/ AskForMore(n) \/ HandleInv(n) \/ HandleGetData(n)
  \/ HandleBlockTaken(n) \/ HandleBlockRefused(n)

Next ==
  \/ Connect \/ Break
  \/ \E n \in Node : OnMessage(n) \/ \E b \in Elsewhere[n] : TakeElsewhere(n, b)

Spec == Init /\ [][Next]_vars

\* The dialler keeps dialling and readers keep reading.  No new block
\* has to come.
FairSpec ==
  Spec /\ WF_vars(Connect) /\ \A n \in Node : WF_vars(OnMessage(n))

-----------------------------------------------------------------------------
(* What is wanted of it *)

\* The two nodes end on one chain, however the connection breaks and whatever
\* comes in between (the sync of sync.h, resumed after every reconnection), and
\* then stop talking: no handler answers its own answers for ever.
Converges ==
  <>[](tip[Dialer] = tip[Listener] /\ \A n \in Node : inbox[n] = <<>>)

\* Peers that follow the rules get no misbehaviour points, as long as no block
\* they know competes with another (the points HandleBlock gives for a refused
\* block).
PeerNotPunished ==
  (\A b, c \in index[Dialer] \cup index[Listener] : IsPrefix(b, c) \/ IsPrefix(c, b))
    => \A n \in Node : score[n] = 0

\* The blocks n has asked for and not received.
InFlight(n) ==
  FoldLeft(LAMBDA c, m : c + IF m.type = "getdata" THEN Len(m.blocks) ELSE 0,
           0, inbox[Other(n)])
  + Len(SelectSeq(inbox[n], LAMBDA m : m.type = "block"))

\* No more blocks are on their way than one batch (the download window of
\* HandleHeaders).
\* The code does not keep this (README, "Deviations").
DownloadWindow == \A n \in Node : InFlight(n) <= MaxWanted
=============================================================================
