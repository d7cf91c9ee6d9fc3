-------------------------------- MODULE Codec ---------------------------------
(***************************************************************************)
(* How the node writes what it stores, sends and hashes: variable-length   *)
(* integers, transactions and blocks (src/src/transaction/serializer.cpp), *)
(* Base58 (src/src/crypto/encoding.cpp) and the Merkle root of a block     *)
(* (src/src/blockchain/merkle.cpp).                                        *)
(*                                                                         *)
(* A byte takes Byte values and a Base58 digit takes Digits values, so     *)
(* that every boundary of the encodings lies within reach of TLC; widths   *)
(* are those of the code except for hashes, which take one byte.           *)
(***************************************************************************)
EXTENDS Integers, Sequences, SequencesExt

CONSTANTS
  Byte,        \* 256
  Digits,      \* 58
  MaxCount     \* the 100000 items a list may announce

U16 == 2
U32 == 4
U64 == 8
HashSize == 1

----------------------------------------------------------------------------
\* CSerializer: little-endian integers of w bytes.
WriteUInt(v, w) == [i \in 1 .. w |-> (v \div Byte^(i - 1)) % Byte]

\* The three largest bytes announce two, four and eight bytes.
WriteVarInt(v) ==
  CASE v < Byte - 3 -> <<v>>
    [] v >= Byte - 3 /\ v < Byte^U16 -> <<Byte - 3>> \o WriteUInt(v, U16)
    [] v >= Byte^U16 /\ v < Byte^U32 -> <<Byte - 2>> \o WriteUInt(v, U32)
    [] OTHER -> <<Byte - 1>> \o WriteUInt(v, U64)

VarIntSize(v) ==
  CASE v < Byte - 3 -> 1
    [] v >= Byte - 3 /\ v < Byte^U16 -> 1 + U16
    [] v >= Byte^U16 /\ v < Byte^U32 -> 1 + U32
    [] OTHER -> 1 + U64

\* CDeserializer: what a read at position p of s gives, and where the next
\* one starts; a read that would pass the end fails.
Failed == [ok |-> FALSE, pos |-> 0, val |-> <<>>]
Done(p, v) == [ok |-> TRUE, pos |-> p, val |-> v]

\* What follows a read, which is left out when the read fails.
Then(r, Continue(_)) == IF r.ok THEN Continue(r) ELSE Failed

\* A mutant: what is left is taken for what was asked for.
ReadBytesShort(s, p, n) ==
  LET e == IF p + n > Len(s) THEN Len(s) ELSE p + n
  IN Done(e, SubSeq(s, p + 1, e))

ReadBytes(s, p, n) ==
  IF p + n > Len(s) THEN Failed ELSE Done(p + n, SubSeq(s, p + 1, p + n))

ReadUInt(s, p, w) ==
  Then(ReadBytes(s, p, w),
       LAMBDA r : Done(r.pos, FoldRight(LAMBDA b, v : b + Byte * v, r.val, 0)))

WidthOf(first) ==
  CASE first = Byte - 3 -> U16 [] first = Byte - 2 -> U32 [] OTHER -> U64

ReadVarInt(s, p) ==
  Then(ReadUInt(s, p, 1),
       LAMBDA r : IF r.val < Byte - 3 THEN r ELSE ReadUInt(s, r.pos, WidthOf(r.val)))

ReadVarStr(s, p) ==
  Then(ReadVarInt(s, p),
       LAMBDA n : IF n.val > Len(s) - n.pos THEN Failed ELSE ReadBytes(s, n.pos, n.val))

----------------------------------------------------------------------------
\* The fields of an input, an output and a block header, in order.  A
\* structure is the sequence of its fields' values.
TxIn == <<"hash", "u32", "str", "u32">>
TxOut == <<"u64", "str">>
Header == <<"u32", "hash", "hash", "u32", "u32", "u32">>

WriteField(kind, v) ==
  CASE kind = "u32" -> WriteUInt(v, U32)
    [] kind = "u64" -> WriteUInt(v, U64)
    [] kind = "str" -> WriteVarInt(Len(v)) \o v
    [] kind = "hash" -> v

ReadField(s, p, kind) ==
  CASE kind = "u32" -> ReadUInt(s, p, U32)
    [] kind = "u64" -> ReadUInt(s, p, U64)
    [] kind = "str" -> ReadVarStr(s, p)
    [] kind = "hash" -> ReadBytes(s, p, HashSize)

Write(fields, vals) ==
  FlattenSeq([i \in 1 .. Len(fields) |-> WriteField(fields[i], vals[i])])

\* The value of read r after the values of so.
Collect(so, r) == Then(r, LAMBDA x : Done(x.pos, Append(so.val, x.val)))

Read(s, p, fields) ==
  FoldLeft(LAMBDA so, kind : Then(so, LAMBDA x : Collect(x, ReadField(s, x.pos, kind))),
           Done(p, <<>>), fields)

\* A count and that many structures.
WriteList(fields, items) ==
  WriteVarInt(Len(items)) \o FlattenSeq([i \in 1 .. Len(items) |-> Write(fields, items[i])])

\* As many items as the count n says, each read by Item after those so far.
ReadItems(n, Item(_)) ==
  IF n.val > MaxCount THEN Failed
  ELSE FoldLeft(LAMBDA so, i : Then(so, Item), Done(n.pos, <<>>), [i \in 1 .. n.val |-> i])

ReadList(s, p, fields) ==
  Then(ReadVarInt(s, p),
       LAMBDA n : ReadItems(n, LAMBDA so : Collect(so, Read(s, so.pos, fields))))

\* A transaction is its version, inputs, outputs and lock time.
SerializeTransaction(tx) ==
  WriteUInt(tx[1], U32) \o WriteList(TxIn, tx[2]) \o WriteList(TxOut, tx[3])
    \o WriteUInt(tx[4], U32)

DeserializeTransaction(s, p) ==
  Then(Collect(Done(p, <<>>), ReadUInt(s, p, U32)), LAMBDA version :
  Then(Collect(version, ReadList(s, version.pos, TxIn)), LAMBDA vin :
  Then(Collect(vin, ReadList(s, vin.pos, TxOut)), LAMBDA vout :
  Collect(vout, ReadUInt(s, vout.pos, U32)))))

\* A block is its header and its transactions.
SerializeBlock(blk) ==
  Write(Header, blk[1]) \o WriteVarInt(Len(blk[2]))
    \o FlattenSeq([i \in 1 .. Len(blk[2]) |-> SerializeTransaction(blk[2][i])])

\* A mutant: the place a transaction ends at is taken for its size.
ReadTxTwice(so, s) ==
  Then(DeserializeTransaction(s, so.pos),
       LAMBDA tx : Done(so.pos + tx.pos, Append(so.val, tx.val)))

\* DeserializeBlock: after a transaction the reader moves on by the size of
\* the transaction written again, not by the bytes that were read for it.
ReadTx(so, s) ==
  Then(DeserializeTransaction(s, so.pos),
       LAMBDA tx : Done(so.pos + Len(SerializeTransaction(tx.val)), Append(so.val, tx.val)))

DeserializeBlock(s) ==
  Then(Read(s, 0, Header), LAMBDA header :
  Then(ReadVarInt(s, header.pos), LAMBDA ntx :
  Then(ReadItems(ntx, LAMBDA so : ReadTx(so, s)), LAMBDA vtx :
  Done(vtx.pos, <<header.val, vtx.val>>))))

----------------------------------------------------------------------------
\* The zeros a string starts with.
LeadingZeros(s) ==
  LET i == SelectInSeq(s, LAMBDA b : b # 0) IN IF i = 0 THEN Len(s) ELSE i - 1

DropZeros(s) == SubSeq(s, LeadingZeros(s) + 1, Len(s))

\* One pass of EncodeBase58: long division of the bytes by Digits.
Divide(s) ==
  FoldLeft(LAMBDA d, b : [quotient |-> Append(d.quotient, (d.rem * Byte + b) \div Digits),
                          rem |-> (d.rem * Byte + b) % Digits],
           [quotient |-> <<>>, rem |-> 0], s)

\* The passes go on with the quotient less its leading zeros until nothing is
\* left of it; the remainders are the digits, the first one found last.
RECURSIVE Base58Digits(_)
Base58Digits(left) ==
  IF left = <<>> THEN <<>>
  ELSE LET d == Divide(left) IN Append(Base58Digits(DropZeros(d.quotient)), d.rem)

\* A mutant: the zeros in front are lost.
EncodeBase58Bare(s) == IF s = <<>> THEN <<0>> ELSE Base58Digits(DropZeros(s))

\* EncodeBase58: a zero digit for each zero byte in front; of no bytes at all
\* it still makes one digit.
EncodeBase58(s) ==
  IF s = <<>> THEN <<0>>
  ELSE SubSeq(s, 1, LeadingZeros(s)) \o Base58Digits(DropZeros(s))

\* One character of DecodeBase58: little-endian bytes times Digits plus idx.
MultiplyAdd(b256, idx) ==
  LET r == FoldLeft(LAMBDA a, b : [out |-> Append(a.out, (b * Digits + a.carry) % Byte),
                                   carry |-> (b * Digits + a.carry) \div Byte],
                    [out |-> <<>>, carry |-> idx], b256)
  IN IF r.carry > 0 THEN Append(r.out, r.carry) ELSE r.out

DecodeBase58(t) ==
  SubSeq(t, 1, LeadingZeros(t)) \o Reverse(FoldLeft(MultiplyAdd, <<>>, t))

----------------------------------------------------------------------------
\* A mutant: the pairs overlap.
ParentLevelOverlaps(level) ==
  [i \in 1 .. (Len(level) + 1) \div 2 |->
     <<level[i], IF i + 1 <= Len(level) THEN level[i + 1] ELSE level[i]>>]

\* ComputeMerkleRoot, with SHA256d free of collisions: the hash of two nodes
\* is the pair of them.  A level of odd size pairs its last node with itself.
ParentLevel(level) ==
  [i \in 1 .. (Len(level) + 1) \div 2 |->
     <<level[2 * i - 1], IF 2 * i <= Len(level) THEN level[2 * i] ELSE level[2 * i - 1]>>]

RECURSIVE ComputeMerkleRoot(_)
ComputeMerkleRoot(level) ==
  IF Len(level) <= 1 THEN level ELSE ComputeMerkleRoot(ParentLevel(level))
=============================================================================
