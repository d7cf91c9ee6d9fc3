---------------------------- MODULE MCNetServer -----------------------------
(***************************************************************************)
(* CNode objects are alike, and so are descriptors: the one that is taken  *)
(* into use is always the first that is free.  Whenever a connection can   *)
(* be opened at all it can be opened this way, so that no operation is     *)
(* held up.                                                                *)
(***************************************************************************)
EXTENDS NetServer

FirstFree ==
  /\ \A f \in Fd : open[f] = NoConn /\ open'[f] # NoConn =>
       \A g \in 1..f - 1 : open[g] # NoConn
  /\ \A c \in Conn : node[c] = Unused /\ node'[c] # Unused =>
       \A d \in 1..c - 1 : node[d] # Unused
=============================================================================
