-------------------------------- MODULE Script --------------------------------
(***************************************************************************)
(* The script interpreter (src/src/script/interpreter.cpp), byte by byte:  *)
(* VerifyScript runs the scriptSig of an input and then the scriptPubKey   *)
(* of the output it spends on one stack.  One step of this module is one   *)
(* iteration of EvalScript's loop, or the end of one of the two scripts.   *)
(*                                                                         *)
(* A script is a sequence of bytes and a stack element is a sequence of    *)
(* bytes.  Public keys, signatures and hashes keep their place in a script *)
(* and lose their length: a key is one byte, a hash HashLen bytes.         *)
(***************************************************************************)
EXTENDS Integers, Sequences, SequencesExt

CONSTANTS
  Keys,              \* the public keys, each a byte
  ScriptSigs,        \* the unlocking scripts inputs may carry
  ScriptPubKeys,     \* the locking scripts outputs may carry
  MaxScriptSize,     \* MAX_SCRIPT_SIZE
  MaxElementSize,    \* MAX_SCRIPT_ELEMENT_SIZE
  MaxOps             \* the 201 operations one script may run

VARIABLES
  sig,               \* the scriptSig being verified
  pub,               \* the scriptPubKey being verified
  phase,             \* the script that runs, or VerifyScript's answer
  pos,               \* bytes of the running script already consumed
  opCount,           \* iterations of the loop over the running script
  stack              \* the stack both scripts share, its top last

scriptVars == <<sig, pub, phase, pos, opCount, stack>>

\* The opcodes of opcodes.h.
OP_0 == 0
OP_PUSHDATA1 == 76
OP_PUSHDATA2 == 77
OP_PUSHDATA4 == 78
OP_1NEGATE == 79
OP_1 == 81
OP_16 == 96
OP_VERIFY == 105
OP_RETURN == 106
OP_DUP == 118
OP_EQUAL == 135
OP_EQUALVERIFY == 136
OP_HASH160 == 169
OP_CHECKSIG == 172
OP_CHECKSIGVERIFY == 173

----------------------------------------------------------------------------
\* HASH160, without collisions between a key and anything else; one byte.
HashLen == 1
HASH160(v) == IF Len(v) = 1 /\ v[1] \in Keys THEN <<v[1] + 20>> ELSE <<0>>

\* The signature a key makes of the digest; d2i_ECDSA_SIG reads the DER
\* structure and ignores what follows it, the sighash byte among others.
SignatureByte(k) == k + 10

VerifySignature(s, pubkey) ==
  /\ s # <<>>
  /\ Len(pubkey) = 1
  /\ pubkey[1] \in Keys
  /\ s[1] = SignatureByte(pubkey[1])

\* SignInput: a push of the signature and the sighash byte, a push of the key.
SignInput(k) == <<2, SignatureByte(k), 1, 1, k>>

BuildP2PKHScript(hash) ==
  <<OP_DUP, OP_HASH160, HashLen>> \o hash \o <<OP_EQUALVERIFY, OP_CHECKSIG>>

IsP2PKHScript(s) ==
  /\ Len(s) = HashLen + 5
  /\ SubSeq(s, 1, 3) = <<OP_DUP, OP_HASH160, HashLen>>
  /\ SubSeq(s, HashLen + 4, HashLen + 5) = <<OP_EQUALVERIFY, OP_CHECKSIG>>

ExtractP2PKHHash(s) == SubSeq(s, 4, HashLen + 3)

\* Little-endian length of w bytes at the start of s.
LengthLE(s, w) == FoldRight(LAMBDA b, n : b + 256 * n, SubSeq(s, 1, w), 0)

\* ParsePush: the length field's width for a push opcode (none for a direct
\* push, whose opcode is the length), and what the push at the start of s holds.
LengthWidth(op) ==
  CASE op = OP_PUSHDATA1 -> 1
    [] op = OP_PUSHDATA2 -> 2
    [] op = OP_PUSHDATA4 -> 4
    [] OTHER -> 0

ParsePush(s) ==
  LET none == [ok |-> FALSE, consumed |-> 0, data |-> <<>>]
      w == LengthWidth(s[1])
      n == IF w = 0 THEN s[1] ELSE LengthLE(Tail(s), w)
  IN IF s = <<>> \/ s[1] \notin 1 .. OP_PUSHDATA4 \/ Len(s) < 1 + w \/ Len(s) < 1 + w + n
     THEN none
     ELSE [ok |-> TRUE, consumed |-> 1 + w + n, data |-> SubSeq(s, 2 + w, 1 + w + n)]

\* The pushes a script starts with, and where the first other byte is.
LeadingPushes(s) ==
  LET from[p \in 0 .. Len(s)] ==
        LET push == ParsePush(SubSeq(s, p + 1, Len(s)))
        IN IF push.ok
           THEN [from[p + push.consumed] EXCEPT !.data = <<push.data>> \o @]
           ELSE [data |-> <<>>, end |-> p]
  IN from[0]

\* GetScriptSigPubKey: the last of those pushes.
GetScriptSigPubKey(s) ==
  LET pushed == LeadingPushes(s).data
  IN IF pushed = <<>> THEN <<>> ELSE Last(pushed)

----------------------------------------------------------------------------
ScriptInit ==
  /\ sig \in ScriptSigs
  /\ pub \in ScriptPubKeys
  /\ phase = "sig"
  /\ pos = 0
  /\ opCount = 0
  /\ stack = <<>>

Running == phase \in {"sig", "pub"}
Code == IF phase = "sig" THEN sig ELSE pub
Rest == SubSeq(Code, pos + 1, Len(Code))
Push == ParsePush(Rest)
Top == stack[Len(stack)]
Second == stack[Len(stack) - 1]
Below(n) == SubSeq(stack, 1, Len(stack) - n)

\* Both VerifyScript and OP_VERIFY take the empty element and a zero byte
\* for false, and every other element for true.
True(v) == v \notin {<<>>, <<0>>}
Bool(b) == IF b THEN <<1>> ELSE <<>>

\* EvalScript returned false, and so does VerifyScript.
Reject ==
  /\ phase' = "rejected"
  /\ UNCHANGED <<sig, pub, pos, opCount, stack>>

\* One iteration that leaves st on the stack and goes on after n bytes.
Advance(n, st) ==
  /\ pos' = pos + n
  /\ opCount' = opCount + 1
  /\ stack' = st
  /\ UNCHANGED <<sig, pub, phase>>

\* The checks before the loop and at the head of every iteration.
TooLarge ==
  /\ Running
  /\ Len(Code) > MaxScriptSize
  /\ Reject

TooManyOps ==
  /\ Running
  /\ Rest # <<>>
  /\ opCount = MaxOps
  /\ Reject

\* The loop has another byte to look at and may look at it.
Iterates ==
  /\ Running
  /\ Len(Code) <= MaxScriptSize
  /\ Rest # <<>>
  /\ opCount < MaxOps

PushData ==
  /\ Iterates
  /\ Push.ok
  /\ IF Len(Push.data) > MaxElementSize
     THEN Reject
     ELSE Advance(Push.consumed, Append(stack, Push.data))

\* The opcode at the head of the rest is one of ops and finds depth elements.
Opcode(ops, depth) ==
  /\ Iterates
  /\ ~Push.ok
  /\ Head(Rest) \in ops
  /\ Len(stack) >= depth

Dup ==
  /\ Opcode({OP_DUP}, 1)
  /\ Advance(1, Append(stack, Top))

\* A mutant: the result of the comparison is left to a later opcode.
EqualVerifyKeeps ==
  /\ Opcode({OP_EQUALVERIFY}, 2)
  /\ Advance(1, Below(2))

Equal ==
  /\ Opcode({OP_EQUAL}, 2)
  /\ Advance(1, Append(Below(2), Bool(Top = Second)))

EqualVerify ==
  /\ Opcode({OP_EQUALVERIFY}, 2)
  /\ IF Top = Second THEN Advance(1, Below(2)) ELSE Reject

Verify ==
  /\ Opcode({OP_VERIFY}, 1)
  /\ IF True(Top) THEN Advance(1, Below(1)) ELSE Reject

Hash160 ==
  /\ Opcode({OP_HASH160}, 1)
  /\ Advance(1, Append(Below(1), HASH160(Top)))

CheckSig ==
  /\ Opcode({OP_CHECKSIG}, 2)
  /\ Advance(1, Append(Below(2), Bool(VerifySignature(Second, Top))))

CheckSigVerify ==
  /\ Opcode({OP_CHECKSIGVERIFY}, 2)
  /\ IF VerifySignature(Second, Top) THEN Advance(1, Below(2)) ELSE Reject

\* OP_0, OP_1 .. OP_16 and OP_1NEGATE.
PushNumber ==
  /\ Opcode({OP_0, OP_1NEGATE} \cup OP_1 .. OP_16, 0)
  /\ LET op == Head(Rest)
         v == CASE op = OP_0 -> <<>>
                [] op = OP_1NEGATE -> <<129>>
                [] OTHER -> <<op - OP_1 + 1>>
     IN Advance(1, Append(stack, v))

\* How many elements each opcode needs; OP_RETURN and every byte that is not
\* an opcode of the interpreter, a push cut short among them, always fail.
Depth(op) ==
  CASE op \in {OP_0, OP_1NEGATE} \cup OP_1 .. OP_16 -> 0
    [] op \in {OP_DUP, OP_VERIFY, OP_HASH160} -> 1
    [] op \in {OP_EQUAL, OP_EQUALVERIFY, OP_CHECKSIG, OP_CHECKSIGVERIFY} -> 2
    [] OTHER -> Len(stack) + 1

Fails ==
  /\ Iterates
  /\ ~Push.ok
  /\ Len(stack) < Depth(Head(Rest))
  /\ Reject

\* The scriptSig ran to its end: the scriptPubKey runs on the same stack.
EndOfSig ==
  /\ phase = "sig"
  /\ Rest = <<>>
  /\ phase' = "pub"
  /\ pos' = 0
  /\ opCount' = 0
  /\ UNCHANGED <<sig, pub, stack>>

\* The scriptPubKey ran to its end: the top of the stack is the answer.
EndOfPub ==
  /\ phase = "pub"
  /\ Rest = <<>>
  /\ phase' = IF stack # <<>> /\ True(Top) THEN "accepted" ELSE "rejected"
  /\ UNCHANGED <<sig, pub, pos, opCount, stack>>

ScriptNext ==
  \/ TooLarge \/ TooManyOps \/ PushData \/ Dup \/ Equal \/ EqualVerify \/ Verify
  \/ Hash160 \/ CheckSig \/ CheckSigVerify \/ PushNumber \/ Fails
  \/ EndOfSig \/ EndOfPub

----------------------------------------------------------------------------
\* The elements scriptSig can have pushed.
Parts(s) == {SubSeq(s, i, j) : i \in 1 .. Len(s), j \in 1 .. Len(s)}

\* A standard output is spent by its owner and nobody else: whatever the
\* scriptSig does with the stack first, VerifyScript accepts it for a P2PKH
\* scriptPubKey only if it holds a key of the hash paid to and a signature by
\* that key, and if it only pushes, getaddresstxs lists it under that owner;
\* what SignInput makes with that key is never rejected.
OnlyTheOwner ==
  IsP2PKHScript(pub) =>
    /\ phase = "accepted" =>
         /\ \E k \in Parts(sig) : /\ HASH160(k) = ExtractP2PKHHash(pub)
                                  /\ \E s \in Parts(sig) : VerifySignature(s, k)
         /\ LeadingPushes(sig).end = Len(sig) =>
              HASH160(GetScriptSigPubKey(sig)) = ExtractP2PKHHash(pub)
    /\ phase = "rejected" =>
         \A k \in Keys : sig = SignInput(k) => HASH160(<<k>>) # ExtractP2PKHHash(pub)

\* A spend is found by the address it spends from: getaddresstxs looks for the
\* hash of the key GetScriptSigPubKey reads from the scriptSig, and for every
\* accepted spend of a standard output that is the hash of that output.
\* The code does not keep this (README, "Deviations").
SpendIsListed ==
  phase = "accepted" /\ IsP2PKHScript(pub) =>
    HASH160(GetScriptSigPubKey(sig)) = ExtractP2PKHHash(pub)
=============================================================================
