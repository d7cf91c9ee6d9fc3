---------------------------- MODULE MinerThread ----------------------------
(***************************************************************************)
(* The mining thread of cdxd.cpp and those who start and stop it: main, at *)
(* startup, and the RPC thread, which serves one request at a time.  A     *)
(* reader thread of a peer is there too, as the other user of the chain    *)
(* mutex.  What a round of the loop does to the chain is in module Node;   *)
(* here a round only takes time and the chain mutex.                       *)
(***************************************************************************)
EXTENDS Integers

CONSTANTS
  GenerateBlocks,     \* opts.generateBlocks: 0, or the height to stop at
  DisableMining,      \* opts.disableMining
  WalletHasAddress    \* does the wallet have an address to mine to?

ASSUME MinerAssumption ==
  GenerateBlocks \in Nat /\ DisableMining \in BOOLEAN
    /\ WalletHasAddress \in BOOLEAN

VARIABLES
  minerMutex,      \* g_minerMutex: its holder, or "free"
  chainMutex,      \* CBlockchain::GetMutex()
  active,          \* g_minerThreadActive
  thread,          \* g_minerThread: "none", or joinable: "live", "ended"
  stopRequested,   \* miner.stopRequested
  running,         \* miner.running
  address,         \* is there a mining address?
  height,          \* of the chain, up to GenerateBlocks
  loop,            \* where RunMinerLoop is
  pc               \* where each caller is: "main", "rpc" and "peer"

flags == <<active, stopRequested, running>>
vars == <<minerMutex, chainMutex, active, thread, stopRequested, running,
          address, height, loop, pc>>

Caller == {"main", "rpc"}
Free == "free"

Init ==
  /\ minerMutex = Free
  /\ chainMutex = Free
  /\ active = FALSE
  /\ thread = "none"
  /\ stopRequested = FALSE
  /\ running = FALSE
  /\ address \in BOOLEAN
  /\ height = 0
  /\ loop = "off"
  /\ pc = [main |-> IF DisableMining THEN "idle" ELSE "start",
           rpc |-> "idle", peer |-> "idle"]

Goto(t, label) == pc' = [pc EXCEPT ![t] = label]

-----------------------------------------------------------------------------
(* StartMiningThread *)

\* It takes the mutex and returns at once if a thread is active.
StartLock(t) ==
  /\ pc[t] = "start"
  /\ minerMutex = Free
  /\ IF active
     THEN Goto(t, "idle") /\ UNCHANGED minerMutex
     ELSE Goto(t, "joinOld") /\ minerMutex' = t
  /\ UNCHANGED <<chainMutex, flags, thread, address, height, loop>>

\* A joinable thread is waited for.
StartJoin(t) ==
  /\ pc[t] = "joinOld"
  /\ thread # "live"
  /\ thread' = "none"
  /\ Goto(t, "launch")
  /\ UNCHANGED <<minerMutex, chainMutex, flags, address, height, loop>>

\* The flags are set before the thread exists, and the mutex is released.
StartLaunch(t) ==
  /\ pc[t] = "launch"
  /\ stopRequested' = FALSE
  /\ running' = TRUE
  /\ active' = TRUE
  /\ thread' = "live"
  /\ loop' = "top"
  /\ minerMutex' = Free
  /\ Goto(t, "idle")
  /\ UNCHANGED <<chainMutex, address, height>>

-----------------------------------------------------------------------------
(* StopMiningThread *)

StopLock(t) ==
  /\ pc[t] = "stop"
  /\ minerMutex = Free
  /\ IF active
     THEN stopRequested' = TRUE /\ minerMutex' = t /\ Goto(t, "join")
     ELSE UNCHANGED <<stopRequested, minerMutex>> /\ Goto(t, "idle")
  /\ UNCHANGED <<chainMutex, active, running, thread, address, height, loop>>

StopJoin(t) ==
  /\ pc[t] = "join"
  /\ thread # "live"
  /\ thread' = "none"
  /\ running' = FALSE
  /\ active' = FALSE
  /\ minerMutex' = Free
  /\ Goto(t, "idle")
  /\ UNCHANGED <<chainMutex, stopRequested, address, height, loop>>

-----------------------------------------------------------------------------
(* The thread: RunMinerLoop, and the lambda that calls it *)

LoopLock ==
  /\ loop = "top"
  /\ chainMutex = Free
  /\ chainMutex' = "miner"
  /\ loop' = "check"
  /\ UNCHANGED <<minerMutex, flags, thread, address, height, pc>>

\* Mutant: a request to stop is only seen while a nonce is searched.
LoopCheckSearchOnly ==
  /\ loop = "check"
  /\ IF address THEN loop' = "search" /\ UNCHANGED chainMutex
     ELSE loop' = "top" /\ chainMutex' = Free
  /\ UNCHANGED <<minerMutex, flags, thread, address, height, pc>>

\* Mutant: without an address it waits with the chain mutex held.
LoopCheckHold ==
  /\ loop = "check"
  /\ IF stopRequested \/ ~running
     THEN loop' = "leave" /\ chainMutex' = Free
     ELSE loop' = (IF address THEN "search" ELSE "check")
            /\ UNCHANGED chainMutex
  /\ UNCHANGED <<minerMutex, flags, thread, address, height, pc>>

\* The checks at the head of a round.  Without an address it sleeps, still
\* holding the chain mutex, and starts over.
LoopCheck ==
  /\ loop = "check"
  /\ IF stopRequested \/ ~running THEN loop' = "leave" /\ chainMutex' = Free
     ELSE IF address THEN loop' = "search" /\ UNCHANGED chainMutex
     ELSE loop' = "top" /\ chainMutex' = Free
  /\ UNCHANGED <<minerMutex, flags, thread, address, height, pc>>

\* The search ends because a stop was requested.
LoopInterrupted ==
  /\ loop = "search"
  /\ stopRequested
  /\ loop' = "top"
  /\ chainMutex' = Free
  /\ UNCHANGED <<minerMutex, flags, thread, address, height, pc>>

\* A nonce is found.  The loop ends when the height to generate is reached.
LoopFound ==
  /\ loop = "search"
  /\ height' = IF height < GenerateBlocks THEN height + 1 ELSE height
  /\ loop' = IF GenerateBlocks > 0 /\ height' >= GenerateBlocks
             THEN "leave" ELSE "nap"
  /\ chainMutex' = Free
  /\ UNCHANGED <<minerMutex, flags, thread, address, pc>>

\* The millisecond between two rounds, without the mutex.
LoopNap ==
  /\ loop = "nap"
  /\ loop' = "top"
  /\ UNCHANGED <<minerMutex, chainMutex, flags, thread, address, height, pc>>

\* The lambda clears the flag, then the thread ends.
LoopLeave ==
  /\ loop = "leave"
  /\ active' = FALSE
  /\ loop' = "end"
  /\ UNCHANGED <<minerMutex, chainMutex, stopRequested, running, thread,
                 address, height, pc>>

LoopEnd ==
  /\ loop = "end"
  /\ thread' = "ended"
  /\ loop' = "off"
  /\ UNCHANGED <<minerMutex, chainMutex, flags, address, height, pc>>

-----------------------------------------------------------------------------
(* RPC requests and other users of the chain mutex *)

Idle(t) == pc[t] = "idle"

\* startmining takes the wallet's first address if there is none, and
\* answers with an error if the wallet has none either.
RpcStart ==
  /\ Idle("rpc")
  /\ address \/ WalletHasAddress
  /\ address' = TRUE
  /\ Goto("rpc", "start")
  /\ UNCHANGED <<minerMutex, chainMutex, flags, thread, height, loop>>

\* stopmining.
RpcStop ==
  /\ Idle("rpc")
  /\ Goto("rpc", "stop")
  /\ UNCHANGED <<minerMutex, chainMutex, flags, thread, address, height, loop>>

\* setminingaddress, which takes no mutex; the address may be empty.
RpcSetMiningAddress ==
  /\ Idle("rpc")
  /\ address' = ~address
  /\ UNCHANGED <<minerMutex, chainMutex, flags, thread, height, loop, pc>>

\* A message handler, or an RPC method that reads the chain, asks for the
\* chain mutex, gets it, and is done.
ChainAsk(t) ==
  /\ Idle(t)
  /\ Goto(t, "chainWait")
  /\ UNCHANGED <<minerMutex, chainMutex, flags, thread, address, height, loop>>

ChainLock(t) ==
  /\ pc[t] = "chainWait"
  /\ chainMutex = Free
  /\ chainMutex' = t
  /\ Goto(t, "chainIn")
  /\ UNCHANGED <<minerMutex, flags, thread, address, height, loop>>

ChainUnlock(t) ==
  /\ pc[t] = "chainIn"
  /\ chainMutex' = Free
  /\ Goto(t, "idle")
  /\ UNCHANGED <<minerMutex, flags, thread, address, height, loop>>

-----------------------------------------------------------------------------

StartStop(t) ==
  StartLock(t) \/ StartJoin(t) \/ StartLaunch(t) \/ StopLock(t) \/ StopJoin(t)

Loop ==
  LoopLock \/ LoopCheck \/ LoopInterrupted \/ LoopFound \/ LoopNap
    \/ LoopLeave \/ LoopEnd

Chain(t) == ChainAsk(t) \/ ChainLock(t) \/ ChainUnlock(t)

Next ==
  \/ \E t \in Caller : StartStop(t)
  \/ Loop
  \/ RpcStart \/ RpcStop \/ RpcSetMiningAddress
  \/ Chain("rpc") \/ Chain("peer")

Spec == Init /\ [][Next]_vars

-----------------------------------------------------------------------------
(* Properties *)

Mining == loop \in {"top", "check", "search", "nap"}

\* "assignment std::thread ke objek joinable -> std::terminate" (cdxd.cpp):
\* g_minerThread is assigned only when it is not joinable, whoever calls and
\* however the loop before ended, and no earlier loop is still there.
LaunchIsSafe ==
  \A t \in Caller : pc[t] = "launch" => thread = "none" /\ loop = "off"

\* Outside StartMiningThread and StopMiningThread, g_minerThreadActive tells
\* whether a loop is there: none mines unseen, which nothing could stop.
FlagTellsLoop ==
  minerMutex = Free => (active <=> Mining \/ loop = "leave")

\* When stopmining answers "mining stopped" no loop mines any more.
StopAnswersStopped ==
  [][\A t \in Caller :
       pc[t] \in {"stop", "join"} /\ pc'[t] = "idle" => ~Mining']_vars

\* StopMiningThread, which waits for the loop with g_minerMutex held, always
\* returns: also when the loop waits for the chain mutex, searches a nonce
\* or has no address.
StopReturns == pc["rpc"] \in {"stop", "join"} ~> pc["rpc"] = "idle"

\* The miner holds the chain mutex while it searches and while it sleeps
\* without an address; still a message handler gets it in the end.
HandlerServed == pc["peer"] = "chainWait" ~> pc["peer"] = "chainIn"

\* "Mining thread lifecycle: dapat dimulai dari startup (-mining/-generate)
\* maupun dari RPC (startmining/stopmining)" (cdxd.cpp): when startmining
\* answers "mining started" a loop is mining.
\* The code does not keep this (README, "Deviations").
StartAnswersMining ==
  [][\A t \in Caller :
       pc[t] \in {"start", "launch"} /\ pc'[t] = "idle" => Mining']_vars
=============================================================================
