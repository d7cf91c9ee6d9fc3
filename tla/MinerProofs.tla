----------------------------- MODULE MinerProofs -----------------------------
(***************************************************************************)
(* The safety of the mining thread's start and stop, for every height to   *)
(* generate and every wallet: proofs about module MinerThread.             *)
(***************************************************************************)
EXTENDS MinerThread, TLAPS

\* Who is inside StartMiningThread or StopMiningThread past its first check.
Inside == {"joinOld", "launch", "join"}

\* The inductive invariant: the holder of g_minerMutex is the one caller
\* inside, g_minerThread is live exactly while there is a loop, the flag is
\* set exactly until the loop leaves, whoever holds the mutex, and whoever is
\* about to launch found the object not joinable.
MinerInv ==
  /\ DOMAIN pc = {"main", "rpc", "peer"}
  /\ pc["peer"] \in {"idle", "chainWait", "chainIn"}
  /\ \A t \in Caller : pc[t] \in Inside <=> minerMutex = t
  /\ thread \in {"none", "live", "ended"}
  /\ thread = "live" <=> loop # "off"
  /\ loop \in {"off", "top", "check", "search", "nap", "leave", "end"}
  /\ active \in BOOLEAN
  /\ active <=> Mining \/ loop = "leave"
  /\ \A t \in Caller : pc[t] = "launch" => thread = "none"

\* The invariant holds at the start, with mining disabled or not.
LEMMA MinerInit == Init => MinerInv
<1> SUFFICES ASSUME Init PROVE MinerInv
  OBVIOUS
<1>1. pc["main"] \in {"idle", "start"} /\ pc["rpc"] = "idle" /\ pc["peer"] = "idle"
  BY DEF Init
<1>2. DOMAIN pc = {"main", "rpc", "peer"}
  BY DEF Init
<1>3. QED
  BY <1>1, <1>2 DEF Init, MinerInv, Inside, Caller, Free, Mining

\* A caller inside StartMiningThread or StopMiningThread keeps it.
LEMMA StartStopKeeps ==
  ASSUME MinerInv, NEW t \in Caller, StartStop(t)
  PROVE  MinerInv'
<1>1. CASE StartLock(t)
  BY <1>1 DEF StartLock, MinerInv, Inside, Caller, Free, Mining, Goto, flags
<1>2. CASE StartJoin(t)
  BY <1>2 DEF StartJoin, MinerInv, Inside, Caller, Free, Mining, Goto, flags
<1>3. CASE StartLaunch(t)
  BY <1>3 DEF StartLaunch, MinerInv, Inside, Caller, Free, Mining, Goto, flags
<1>4. CASE StopLock(t)
  BY <1>4 DEF StopLock, MinerInv, Inside, Caller, Free, Mining, Goto, flags
<1>5. CASE StopJoin(t)
  BY <1>5 DEF StopJoin, MinerInv, Inside, Caller, Free, Mining, Goto, flags
<1>6. QED
  BY <1>1, <1>2, <1>3, <1>4, <1>5 DEF StartStop

\* So does the loop.
LEMMA LoopKeeps ==
  ASSUME MinerInv, Loop
  PROVE  MinerInv'
<1> USE DEF MinerInv, Inside, Caller, Mining, flags
<1>1. CASE LoopLock
  BY <1>1 DEF LoopLock
<1>2. CASE LoopCheck
  BY <1>2 DEF LoopCheck
<1>3. CASE LoopInterrupted
  BY <1>3 DEF LoopInterrupted
<1>4. CASE LoopFound
  BY <1>4 DEF LoopFound
<1>5. CASE LoopNap
  BY <1>5 DEF LoopNap
<1>6. CASE LoopLeave
  BY <1>6 DEF LoopLeave
<1>7. CASE LoopEnd
  BY <1>7 DEF LoopEnd
<1>8. QED
  BY <1>1, <1>2, <1>3, <1>4, <1>5, <1>6, <1>7 DEF Loop

\* So does every other request and every user of the chain mutex.
LEMMA OthersKeep ==
  ASSUME MinerInv,
         RpcStart \/ RpcStop \/ RpcSetMiningAddress \/ Chain("rpc") \/ Chain("peer")
  PROVE  MinerInv'
<1> USE DEF MinerInv, Inside, Caller, Mining, flags, Goto, Idle
<1>1. CASE RpcStart \/ RpcStop \/ RpcSetMiningAddress
  BY <1>1 DEF RpcStart, RpcStop, RpcSetMiningAddress
<1>2. CASE Chain("rpc")
  BY <1>2 DEF Chain, ChainAsk, ChainLock, ChainUnlock
<1>3. CASE Chain("peer")
  BY <1>3 DEF Chain, ChainAsk, ChainLock, ChainUnlock
<1>4. QED
  BY <1>1, <1>2, <1>3

\* The inductive invariant holds of every behaviour.
LEMMA MinerInvariant == Spec => []MinerInv
<1>1. MinerInv /\ [Next]_vars => MinerInv'
  <2>1. MinerInv /\ UNCHANGED vars => MinerInv'
    BY DEF MinerInv, vars, Mining
  <2>2. QED
    BY <2>1, StartStopKeeps, LoopKeeps, OthersKeep DEF Next
<1>2. QED
  BY <1>1, MinerInit, PTL DEF Spec

\* StartMiningThread never assigns to a joinable g_minerThread, whatever main,
\* the RPC thread and the end of the loop do in between.
THEOREM LaunchSafe == Spec => []LaunchIsSafe
<1>1. MinerInv => LaunchIsSafe
  BY DEF MinerInv, LaunchIsSafe
<1>2. QED
  BY <1>1, MinerInvariant, PTL

\* g_minerThreadActive tells whether a loop is there.
THEOREM FlagSound == Spec => []FlagTellsLoop
<1>1. MinerInv => FlagTellsLoop
  BY DEF MinerInv, FlagTellsLoop
<1>2. QED
  BY <1>1, MinerInvariant, PTL

\* stopmining answers when no loop mines any more.
THEOREM StopSound == Spec => StopAnswersStopped
<1> DEFINE A == \A t \in Caller :
                  pc[t] \in {"stop", "join"} /\ pc'[t] = "idle" => ~Mining'
<1>1. MinerInv /\ [Next]_vars => [A]_vars
  <2> SUFFICES ASSUME MinerInv, Next, NEW t \in Caller,
                      pc[t] \in {"stop", "join"}, pc'[t] = "idle"
               PROVE  ~Mining'
    OBVIOUS
  <2>1. ASSUME NEW u \in Caller, StartStop(u) PROVE ~Mining'
    <3>1. u = t
      BY <2>1 DEF StartStop, StartLock, StartJoin, StartLaunch, StopLock, StopJoin,
                  Goto, MinerInv, Caller
    <3>2. StopLock(t) \/ StopJoin(t)
      BY <2>1, <3>1 DEF StartStop, StartLock, StartJoin, StartLaunch
    <3>3. QED
      BY <3>2 DEF StopLock, StopJoin, Goto, MinerInv, Mining, Caller
  <2>2. CASE Loop
    BY <2>2 DEF Loop, LoopLock, LoopCheck, LoopInterrupted, LoopFound, LoopNap,
                LoopLeave, LoopEnd
  <2>3. CASE RpcStart \/ RpcStop \/ RpcSetMiningAddress \/ Chain("rpc") \/ Chain("peer")
    BY <2>3 DEF RpcStart, RpcStop, RpcSetMiningAddress, Chain, ChainAsk, ChainLock,
                ChainUnlock, Goto, Idle, MinerInv, Caller
  <2>4. QED
    BY <2>1, <2>2, <2>3 DEF Next
<1>2. QED
  BY <1>1, MinerInvariant, PTL DEF Spec, StopAnswersStopped
=============================================================================
