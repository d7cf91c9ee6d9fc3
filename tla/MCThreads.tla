------------------------------ MODULE MCThreads ------------------------------
(***************************************************************************)
(* The two programs of the repository that mine with threads, the node     *)
(* (MinerThread) and the tool that looks for the genesis nonce             *)
(* (GenesisMiner).  They share no state: a behaviour is of one of the two, *)
(* chosen at the start, while the other stays where it began.              *)
(***************************************************************************)
EXTENDS MinerThread, GenesisMiner

VARIABLE program  \* the one that runs

\* Steps of the node's threads, and of the tool's.
Node(A) == program = "node" /\ A /\ UNCHANGED <<genesisVars, program>>
Tool(A) == program = "tool" /\ A /\ UNCHANGED <<vars, program>>

\* A thread that can go on does.  Waiting for a mutex needs more: one that
\* is free again and again is eventually taken.  A search for a nonce ends.
NodeFairness ==
  /\ WF_vars(Node(Loop)) /\ SF_vars(Node(LoopLock))
  /\ \A t \in Caller : /\ WF_vars(Node(StartStop(t)))
                       /\ SF_vars(Node(StartLock(t) \/ StopLock(t)))
  /\ \A t \in {"rpc", "peer"} :
       SF_vars(Node(ChainLock(t))) /\ WF_vars(Node(ChainUnlock(t)))

Begins == Init /\ GenesisInit /\ program \in {"node", "tool"}

ThreadsSpec ==
  /\ Begins
  /\ [][Node(Next) \/ Tool(GenesisNext)]_<<vars, genesisVars, program>>
  /\ NodeFairness
=============================================================================
