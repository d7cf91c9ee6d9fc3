------------------------------ MODULE MCStreams ------------------------------
(***************************************************************************)
(* The two places where the node takes messages out of a stream of bytes:  *)
(* a connection of the P2P network (Wire) and the RPC server (Rpc).  They  *)
(* share no state: a behaviour is of one of the two, chosen at the start,  *)
(* while the other stays where it began.                                   *)
(*                                                                         *)
(* Frames have short payloads, an HTTP request has three bytes.            *)
(***************************************************************************)
EXTENDS Wire, Rpc

VARIABLE place  \* the one that is used

FourFrames == <<2, 0, 3, 1>>
ProbeBytes == <<<<0, 1>>, <<0, 2>>, <<0, 3>>>>

OnWire(A) == place = "wire" /\ A /\ UNCHANGED <<rpcVars, place>>
OnRpc(A) == place = "rpc" /\ A /\ UNCHANGED <<vars, place>>

Begins ==
  Init /\ RpcInit /\ place \in {"wire", "rpc"} /\ (isProbe => place = "wire")

\* The reader of the connection reads what has arrived, the thread of the
\* RPC server runs, and a client that is not silent goes on.
StreamsSpec ==
  /\ Begins
  /\ [][OnWire(Next) \/ OnRpc(RpcNext)]_<<vars, rpcVars, place>>
  /\ WF_vars(OnWire(Receiver))
  /\ WF_rpcVars(OnRpc(AcceptLoop))
  /\ \A c \in Client \ Silent : WF_rpcVars(OnRpc(RpcCall(c)))
=============================================================================
