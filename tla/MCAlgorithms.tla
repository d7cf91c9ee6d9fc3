---------------------------- MODULE MCAlgorithms -----------------------------
(***************************************************************************)
(* The algorithms of the node on every input n up to MaxInput.  Besides    *)
(* the arithmetic of module MCConsensus: the encodings of module Codec, n  *)
(* being an integer, a string of bytes or digits, or one of a set of       *)
(* blocks, damaged in some way; and the requests of module RpcParse, n     *)
(* being the arguments of a call.                                          *)
(***************************************************************************)
EXTENDS MCConsensus, Codec, RpcParse

CONSTANT MaxTxids      \* transactions of a block, for the Merkle root

-----------------------------------------------------------------------------
\* The i-th string over 0 .. base - 1, the strings taken by length.
RECURSIVE Numbered(_, _)
Numbered(i, base) ==
  IF i = 0 THEN <<>>
  ELSE Append(Numbered((i - 1) \div base, base), (i - 1) % base)

\* A small set of transactions: none or one input, none to two outputs, with
\* scripts at the lengths where the form of the length changes.
Filler(len) == [i \in 1 .. len |-> i % Byte]
Ins == <<<<>>, <<<<<<1>>, 3, Filler(Byte - 4), 7>>>>, <<<<<<2>>, 0, Filler(Byte - 3), 0>>>>>>
Outs == <<<<>>, <<<<100, Filler(2)>>>>, <<<<5, Filler(0)>>, <<77, Filler(Byte - 2)>>>>>>
TxCount == Len(Ins) * Len(Outs)
Tx(i) == <<1, Ins[(i % Len(Ins)) + 1], Outs[(i \div Len(Ins)) + 1], 9>>

\* A block of two of them, or of one.
Block(i) ==
  <<<<1, <<4>>, <<5>>, 6, 7, 8>>,
    IF i < TxCount THEN <<Tx(i)>>
    ELSE <<Tx(i % TxCount), Tx((i - TxCount) \div TxCount)>>>>
Blocks == TxCount + TxCount * TxCount

\* What is stored, sent or shown comes back: every block is read back as it was
\* written, to its last byte, and every integer at the size VarIntSize says.
\* Base58 loses nothing in either direction, the zeros in front included, and
\* no two texts stand for the same bytes.
ReadsBack ==
  /\ LET s == SerializeBlock(Block(n % Blocks))
     IN  DeserializeBlock(s) = Done(Len(s), Block(n % Blocks))
  /\ ReadVarInt(WriteVarInt(n), 0) = Done(VarIntSize(n), n)
  /\ n > 0 => /\ DecodeBase58(EncodeBase58(Numbered(n, Byte))) = Numbered(n, Byte)
              /\ EncodeBase58(DecodeBase58(Numbered(n, Digits))) = Numbered(n, Digits)

\* A block cut short is never taken for a block: the file a crash left a block
\* half written in, or a message that ended early, is refused.
CutIsRefused ==
  LET s == SerializeBlock(Block(n % Blocks))
      cut == (n \div Blocks) % Len(s)
  IN ~DeserializeBlock(SubSeq(s, 1, cut)).ok

\* A count at position p in the next wider form, which the reader accepts as
\* well; elsewhere the bytes are changed as they come.
Widened(s, p) ==
  SubSeq(s, 1, p) \o
    (IF s[p + 1] < Byte - 3 THEN <<Byte - 3, s[p + 1], 0>>
     ELSE <<Byte - 2, s[p + 2], s[p + 3], 0, 0>>)
    \o SubSeq(s, p + (IF s[p + 1] < Byte - 3 THEN 2 ELSE 4), Len(s))

\* The reader stays inside its buffer whatever form the counts have:
\* DeserializeBlock moves by the size of each transaction written again, which
\* is at most what was read for it, so that remaining() never wraps around.
StaysInside ==
  LET s == SerializeBlock(Block(n % Blocks))
      p == (n \div Blocks) % (Len(s) - 3)
      r == DeserializeBlock(Widened(s, p))
  IN r.ok => r.pos <= Len(Widened(s, p))

\* The node of a tree that the bits of i lead to from the root.
RECURSIVE NodeAt(_, _, _)
NodeAt(node, depth, i) ==
  IF depth = 0 THEN node
  ELSE LET half == 2^(depth - 1)
       IN NodeAt(node[IF i < half THEN 1 ELSE 2], depth - 1, i % half)

Depth(len) == CHOOSE d \in 0 .. len : 2^d >= len /\ \A e \in 0 .. d - 1 : 2^e < len

\* The root commits to every transaction: for every number of transactions
\* each is found where the bits of its index lead from the root, so that no
\* transaction of a block can be replaced under the same header.
RootBindsAll ==
  LET txids == [i \in 1 .. (n % MaxTxids) + 1 |-> i]
      root == ComputeMerkleRoot(txids)[1]
  IN \A i \in DOMAIN txids : NodeAt(root, Depth(Len(txids)), i - 1) = txids[i]

-----------------------------------------------------------------------------
\* The arguments of a call: the tokens of a text, cut at every separator.
Token(d) == <<"a", ",", "]", "[", "}", Q, "method", "separator">>[d + 1]
Arguments ==
  FoldLeft(LAMBDA list, d :
             IF Token(d) = "separator" THEN Append(list, <<>>)
             ELSE Append(Front(list), Append(Last(list), Token(d))),
           <<<<>>>>, Numbered(n, 8))

\* What cdx-cli was given arrives: the method and the id whatever the arguments
\* look like, and arguments that are not empty and hold no quotation mark,
\* whatever commas, brackets, braces or names of keys they hold ("params: array
\* of strings", HandleRequestInner).
RequestComesBack ==
  LET body == Body("sendtoaddress", Arguments)
  IN  /\ FindJsonStr(body, "method") = <<"sendtoaddress">>
      /\ FindId(body) = <<"1">>
      /\ (\A i \in DOMAIN Arguments : Arguments[i] # <<>> /\ ~Contains(Arguments[i], Q))
           => ParamsComeBack(Arguments)
=============================================================================
