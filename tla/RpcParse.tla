------------------------------ MODULE RpcParse ------------------------------
(***************************************************************************)
(* The body of a request: how RpcCall (cli/commands.cpp) writes it and how *)
(* CRpcServer::HandleRequestInner (rpc/server.cpp) finds the method, the   *)
(* parameters and the id in it.  A body is a sequence of tokens; Q is the  *)
(* quotation mark, and a word that neither looks into is one token.        *)
(***************************************************************************)
EXTENDS Integers, Sequences, SequencesExt, FiniteSets

Q == "quote"

Str(s) == <<Q>> \o s \o <<Q>>

\* The arguments, as RpcCall writes them: with quotation marks and commas,
\* and nothing escaped.
ArgList(args) ==
  FlattenSeq([i \in DOMAIN args |-> (IF i > 1 THEN <<",">> ELSE <<>>) \o Str(args[i])])

Body(m, a) ==
  <<"{">> \o Str(<<"jsonrpc">>) \o <<":">> \o Str(<<"2.0">>)
    \o <<",">> \o Str(<<"id">>) \o <<":", "1", ",">>
    \o Str(<<"method">>) \o <<":">> \o Str(<<m>>)
    \o <<",">> \o Str(<<"params">>) \o <<":", "[">> \o ArgList(a) \o <<"]", "}">>

-----------------------------------------------------------------------------
(* HandleRequestInner *)

\* std::string::find of one of some tokens from position i on; 0 if none.
FindFrom(s, what, i) ==
  LET at == {k \in i .. Len(s) : s[k] \in what}
  IN  IF at = {} THEN 0 ELSE Min(at)

\* Where the key in its quotation marks is found first.
FindKey(s, key) ==
  LET at == {k \in 1 .. Len(s) - 2 : SubSeq(s, k, k + 2) = Str(<<key>>)}
  IN  IF at = {} THEN 0 ELSE Min(at)

\* findJsonStr; it is used for the method, which has nothing to unescape.
FindJsonStr(s, key) ==
  LET k == FindKey(s, key)
      colon == FindFrom(s, {":"}, k + 3)
      start == FindFrom(s, {Q}, colon + 1)
      end == FindFrom(s, {Q}, start + 1)
  IN  IF 0 \in {k, colon, start, end} THEN <<>> ELSE SubSeq(s, start + 1, end - 1)

PushParam(params, cur) == IF cur = <<>> THEN params ELSE Append(params, cur)

\* Mutant: brackets and commas count inside a string as well.
ScanTokenBlind(c, a) ==
  IF a.depth = 0 THEN a
  ELSE IF c = Q THEN [a EXCEPT !.inStr = ~@]
  ELSE IF c = "]" /\ a.depth = 1 THEN [a EXCEPT !.depth = 0]
  ELSE IF c = "," THEN [a EXCEPT !.params = PushParam(@, a.cur), !.cur = <<>>]
  ELSE [a EXCEPT !.cur = Append(@, c),
                 !.depth = @ + (IF c = "[" THEN 1 ELSE IF c = "]" THEN -1 ELSE 0)]

\* One round of the loop over the array: a quotation mark, whichever it is,
\* starts or ends a string, and an argument without tokens is none.
ScanToken(c, a) ==
  LET out == ~a.inStr
  IN  IF a.depth = 0 THEN a
      ELSE IF c = Q THEN [a EXCEPT !.inStr = ~@]
      ELSE IF out /\ c = "]" /\ a.depth = 1 THEN [a EXCEPT !.depth = 0]
      ELSE IF out /\ c = "," THEN [a EXCEPT !.params = PushParam(@, a.cur), !.cur = <<>>]
      ELSE [a EXCEPT !.cur = Append(@, c),
                     !.depth = @ + (IF ~out THEN 0 ELSE IF c = "[" THEN 1
                                    ELSE IF c = "]" THEN -1 ELSE 0)]

FindParams(s) ==
  LET k == FindKey(s, "params")
      colon == FindFrom(s, {":"}, k + 3)
      start == FindFrom(s, {"["}, colon)
      scanned == FoldLeft(LAMBDA a, c : ScanToken(c, a),
                          [depth |-> 1, inStr |-> FALSE, cur |-> <<>>, params |-> <<>>],
                          SubSeq(s, start + 1, Len(s)))
  IN  IF 0 \in {k, colon, start} THEN <<>> ELSE PushParam(scanned.params, scanned.cur)

FindId(s) ==
  LET k == FindKey(s, "id")
      colon == FindFrom(s, {":"}, k + 3)
      end == FindFrom(s, {",", "}"}, colon + 1)
  IN  IF 0 \in {k, colon, end} THEN <<"null">> ELSE SubSeq(s, colon + 1, end - 1)

-----------------------------------------------------------------------------

\* What arrives is the array of strings that was given to cdx-cli.  The code
\* does not keep this for an empty string (README, "Deviations").
ParamsComeBack(args) == FindParams(Body("sendtoaddress", args)) = args
=============================================================================
