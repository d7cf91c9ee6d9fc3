----------------------------- MODULE MCPayments -----------------------------
(***************************************************************************)
(* Three sides of a payment that share no state: the keys it is signed     *)
(* with (Keystore), the wallet that makes it (Wallet) and the interpreter  *)
(* that judges it (Script).  A behaviour is of one of the three, chosen at *)
(* the start, while the others stay where they began.                      *)
(*                                                                         *)
(* The interpreter runs every scriptSig of up to two items out of all the  *)
(* opcodes and push encodings, and of up to five out of the ones a spend   *)
(* of a standard output can do something with.                             *)
(***************************************************************************)
EXTENDS Keystore, Wallet, Script

VARIABLE side  \* the one that is looked at

k1 == 201
k2 == 202

MCKeys == {k1, k2}

\* Direct pushes and the three PUSHDATA forms; one push too large for an
\* element, one cut short and one with a length field cut short; an opcode of
\* every case of the switch, and a byte that is none.
Items ==
  {<<1, k1>>, <<1, k2>>, <<2, SignatureByte(k1), 1>>, <<2, SignatureByte(k2), 1>>,
   <<OP_PUSHDATA1, 1, k1>>, <<OP_PUSHDATA1, 0>>, <<OP_PUSHDATA2, 1, 0, k1>>,
   <<OP_PUSHDATA4, 1, 0, 0, 0, k1>>, <<3, 1, 1, 1>>, <<9, k1>>, <<OP_PUSHDATA2, 1>>,
   <<OP_0>>, <<OP_1>>, <<OP_16>>, <<OP_1NEGATE>>, <<OP_DUP>>, <<OP_EQUAL>>,
   <<OP_EQUALVERIFY>>, <<OP_VERIFY>>, <<OP_HASH160>>, <<OP_CHECKSIG>>,
   <<OP_CHECKSIGVERIFY>>, <<OP_RETURN>>, <<255>>}

SpendItems ==
  {<<1, k1>>, <<1, k2>>, <<2, SignatureByte(k1), 1>>, <<OP_1>>, <<OP_DUP>>,
   <<OP_VERIFY>>, <<OP_EQUAL>>}

Concat(items, n) == {FlattenSeq(s) : s \in SeqOf(items, n)}

MCScriptSigs == Concat(Items, 2) \cup Concat(SpendItems, 5)
                  \cup {FlattenSeq([i \in 1 .. n |-> <<1, k1>>]) : n \in 6 .. 8}

MCScriptPubKeys ==
  {BuildP2PKHScript(HASH160(<<k1>>)), <<>>, <<1, k1, OP_CHECKSIG>>, <<1, k1, OP_CHECKSIGVERIFY, OP_1>>}

-----------------------------------------------------------------------------

HandleKeys == side = "keys" /\ Next /\ UNCHANGED <<walletVars, scriptVars, side>>

Pay == side = "wallet" /\ WalletNext /\ UNCHANGED <<vars, scriptVars, side>>

Judge == side = "script" /\ ScriptNext /\ UNCHANGED <<vars, walletVars, side>>

\* One pair of scripts is enough where they are not looked at.
Begins ==
  /\ Init /\ WalletInit /\ ScriptInit /\ side \in {"keys", "wallet", "script"}
  /\ side # "script" => sig = <<>> /\ pub = <<>>

PaymentsSpec ==
  /\ Begins
  /\ [][HandleKeys \/ Pay \/ Judge]_<<vars, walletVars, scriptVars, side>>
=============================================================================
