------------------------------- MODULE MCSync -------------------------------
(***************************************************************************)
(* A small block tree for Sync: a step is its work and the branch it is    *)
(* on.  Either node is behind on one line of blocks, or they are on two    *)
(* branches of which one has more work from its first block on; blocks may *)
(* come from elsewhere in the meantime.                                    *)
(***************************************************************************)
EXTENDS Sync

a == <<1, "a">>
B == <<2, "b">>

Line(n) == [i \in 1..n |-> a]
Tips(d, l) == [n \in Node |-> IF n = Dialer THEN d ELSE l]

MCBlocks == Ancestors(Line(5)) \cup Ancestors(<<B, B, B>>)
MCTips ==
  {Tips(Line(i), Line(j)) : i, j \in {0, 1, 3}}
    \cup {Tips(<<a>>, <<B, B>>), Tips(<<B, B>>, <<a>>)}
MCElsewhere == Tips({Line(4), <<B, B, B>>}, {Line(4), Line(5), <<B, B, B>>})
=============================================================================
