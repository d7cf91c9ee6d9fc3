--------------------------------- MODULE Rpc ---------------------------------
(***************************************************************************)
(* JSON-RPC between cdx-cli and the node: RpcCall (cli/commands.cpp) and   *)
(* the accept loop of CRpcServer (rpc/server.cpp), which reads, handles    *)
(* and answers one request after the other.  What is sent is a sequence of *)
(* the parts the two look for: the authorization header and its end of     *)
(* line, the blank line, the name of the method, a closing brace.  What    *)
(* the body says is the concern of module RpcParse.                        *)
(***************************************************************************)
EXTENDS Integers, Sequences, SequencesExt, FiniteSets

CONSTANTS
  Client,        \* calls of RpcCall, and of other programs
  Nobody,
  Authorized,    \* those that send the configured user and password
  Silent,        \* those that may stop before they have sent everything
  HasUser,       \* rpcUser is not empty
  InPieces,      \* those whose request may arrive in several segments
  Room           \* parts of a response the socket takes at once

ASSUME RpcAssumption ==
  /\ Nobody \notin Client /\ Authorized \subseteq Client /\ Silent \subseteq Client
  /\ InPieces \subseteq Client /\ HasUser \in BOOLEAN /\ Room \in Nat \ {0}

VARIABLES
  running,
  backlog,      \* connections that wait for accept
  at,           \* at[c]: where the client is
  unsent,       \* unsent[c]: what it has yet to send
  incoming,       \* incoming[c]: what the server has yet to receive of it
  server,       \* where AcceptLoop is, its client, request and authHeader
  response,     \* what is left to send to the client
  reply,        \* reply[c]: what the client has yet to receive
  shut,         \* the connections the server has closed
  got,          \* got[c]: what the client has received
  executed      \* the clients whose method was called

clientVars == <<at, unsent, got>>
rpcVars == <<running, backlog, clientVars, incoming, server, response, reply, shut, executed>>

Request(c) ==
  (IF c \in Authorized THEN <<"auth", "eol">> ELSE <<"host">>)
    \o <<"blank", "method", "brace">>

\* A response is an object that has an object in it.
Response(kind) == <<"blank", kind, "brace", "tail">>

Pieces(c, s) == IF c \in InPieces THEN 1 .. Len(s) ELSE {Len(s)} \ {0}

-----------------------------------------------------------------------------
(* RpcCall *)

Connect(c) ==
  /\ running /\ at[c] = "idle"
  /\ at' = [at EXCEPT ![c] = "open"]
  /\ backlog' = Append(backlog, c)
  /\ UNCHANGED <<running, unsent, got, incoming, server, response, reply, shut, executed>>

Send(c) ==
  /\ at[c] = "open"
  /\ \E n \in Pieces(c, unsent[c]) :
       /\ incoming' = [incoming EXCEPT ![c] = @ \o SubSeq(unsent[c], 1, n)]
       /\ unsent' = [unsent EXCEPT ![c] = SubSeq(@, n + 1, Len(@))]
  /\ UNCHANGED <<running, backlog, at, got, server, response, reply, shut, executed>>

\* It reads until it has seen the blank line and a brace.
ReceiveReply(c) ==
  /\ at[c] = "open" /\ unsent[c] = <<>> /\ reply[c] # <<>>
  /\ got' = [got EXCEPT ![c] = @ \o reply[c]]
  /\ reply' = [reply EXCEPT ![c] = <<>>]
  /\ at' = [at EXCEPT ![c] = IF {"blank", "brace"} \subseteq ToSet(got'[c])
                             THEN "answered" ELSE "open"]
  /\ UNCHANGED <<running, backlog, unsent, incoming, server, response, shut, executed>>

\* Or to the end ("no response from node" if that is all).
ReceiveEnd(c) ==
  /\ at[c] = "open" /\ reply[c] = <<>> /\ c \in shut
  /\ at' = [at EXCEPT ![c] = IF got[c] = <<>> THEN "nothing" ELSE "answered"]
  /\ UNCHANGED <<running, backlog, unsent, got, incoming, server, response, reply, shut,
                 executed>>

\* Or for ten seconds in vain; the connection is closed, the request stays.
ReceiveTimeout(c) ==
  /\ at[c] = "open" /\ reply[c] = <<>> /\ c \notin shut
  /\ unsent[c] = <<>> \/ c \in Silent
  /\ at' = [at EXCEPT ![c] = "gaveup"]
  /\ UNCHANGED <<running, backlog, unsent, got, incoming, server, response, reply, shut,
                 executed>>

-----------------------------------------------------------------------------
(* CRpcServer::AcceptLoop *)

\* Mutant: the header of the request before is still there.
AcceptKeepsAuth ==
  /\ running /\ server.at = "accept" /\ backlog # <<>>
  /\ server' = [server EXCEPT !.at = "read", !.who = Head(backlog), !.request = <<>>,
                              !.first = TRUE]
  /\ backlog' = Tail(backlog)
  /\ UNCHANGED <<running, clientVars, incoming, response, reply, shut, executed>>

Accept ==
  /\ running /\ server.at = "accept" /\ backlog # <<>>
  /\ server' = [at |-> "read", who |-> Head(backlog), request |-> <<>>,
                authHeader |-> FALSE, first |-> TRUE]
  /\ backlog' = Tail(backlog)
  /\ UNCHANGED <<running, clientVars, incoming, response, reply, shut, executed>>

\* What the first chunk makes of the request.  The header is searched in it
\* only.  Once the blank line is there one chunk is all that is read, as the
\* search for "\0" is one for the empty string and always succeeds.
FirstChunk(chunk) ==
  [at |-> IF Contains(chunk, "blank") THEN "handle" ELSE "read",
   who |-> server.who, first |-> FALSE,
   request |-> IF Contains(chunk, "blank")
               THEN SubSeq(chunk, SelectInSeq(chunk, LAMBDA x : x = "blank") + 1, Len(chunk))
               ELSE chunk,
   authHeader |-> server.authHeader \/ {"auth", "eol"} \subseteq ToSet(chunk)]

Read ==
  /\ server.at = "read" /\ incoming[server.who] # <<>>
  /\ \E n \in Pieces(server.who, incoming[server.who]) :
       LET chunk == SubSeq(incoming[server.who], 1, n)
       IN  /\ incoming' = [incoming EXCEPT ![server.who] = SubSeq(@, n + 1, Len(@))]
           /\ server' = IF server.first THEN FirstChunk(chunk)
                        ELSE [server EXCEPT !.request = @ \o chunk, !.at = "handle"]
  /\ UNCHANGED <<running, backlog, clientVars, response, reply, shut, executed>>

\* The client has closed.
ReadEnds ==
  /\ server.at = "read" /\ incoming[server.who] = <<>> /\ at[server.who] # "open"
  /\ server' = [server EXCEPT !.at = "handle"]
  /\ UNCHANGED <<running, backlog, clientVars, incoming, response, reply, shut, executed>>

\* Mutant: the deadline is pushed back by every poll.
ReadDeadlineNever ==
  /\ server.at = "read" /\ incoming[server.who] = <<>> /\ server.who \in Silent
  /\ UNCHANGED rpcVars

\* Nothing more for ten seconds.  Only a silent client takes that long.
ReadDeadline ==
  /\ server.at = "read" /\ incoming[server.who] = <<>> /\ server.who \in Silent
  /\ server' = [server EXCEPT !.at = "handle"]
  /\ UNCHANGED <<running, backlog, clientVars, incoming, response, reply, shut, executed>>

\* HandleRequest; an empty request is not answered.
Handle ==
  /\ server.at = "handle"
  /\ LET authorized == ~HasUser \/ server.authHeader
         known == Contains(server.request, "method")
     IN  /\ executed' = IF server.request # <<>> /\ authorized /\ known
                        THEN executed \cup {server.who} ELSE executed
         /\ response' = IF server.request = <<>> THEN <<>>
                        ELSE IF ~authorized THEN Response("unauthorized")
                        ELSE IF known THEN Response("result")
                        ELSE Response("not found")
  /\ server' = [server EXCEPT !.at = "send"]
  /\ UNCHANGED <<running, backlog, clientVars, incoming, reply, shut>>

\* As much as there is room for, unless the client is gone.
SendResponse ==
  /\ server.at = "send" /\ response # <<>>
  /\ IF at[server.who] # "open" THEN response' = <<>> /\ UNCHANGED reply
     ELSE LET n == Min({Room - Len(reply[server.who]), Len(response)})
          IN  /\ n > 0
              /\ reply' = [reply EXCEPT ![server.who] = @ \o SubSeq(response, 1, n)]
              /\ response' = SubSeq(response, n + 1, Len(response))
  /\ UNCHANGED <<running, backlog, clientVars, incoming, server, shut, executed>>

Close ==
  /\ server.at = "send" /\ response = <<>>
  /\ shut' = shut \cup {server.who}
  /\ server' = [server EXCEPT !.at = "accept", !.who = Nobody]
  /\ UNCHANGED <<running, backlog, clientVars, incoming, response, reply, executed>>

LoopEnds ==
  /\ ~running /\ server.at = "accept"
  /\ server' = [server EXCEPT !.at = "ended"]
  /\ UNCHANGED <<running, backlog, clientVars, incoming, response, reply, shut, executed>>

\* Stop closes the listening socket, and the connections that wait for it.
Stop ==
  /\ running
  /\ running' = FALSE
  /\ backlog' = <<>>
  /\ shut' = shut \cup ToSet(backlog)
  /\ UNCHANGED <<clientVars, incoming, server, response, reply, executed>>

-----------------------------------------------------------------------------

RpcInit ==
  /\ running = TRUE /\ backlog = <<>> /\ shut = {} /\ executed = {}
  /\ at = [c \in Client |-> "idle"]
  /\ unsent = [c \in Client |-> Request(c)]
  /\ incoming = [c \in Client |-> <<>>]
  /\ reply = [c \in Client |-> <<>>]
  /\ got = [c \in Client |-> <<>>]
  /\ response = <<>>
  /\ server = [at |-> "accept", who |-> Nobody, request |-> <<>>,
               authHeader |-> FALSE, first |-> TRUE]

AcceptLoop ==
  \/ Accept \/ Read \/ ReadEnds \/ ReadDeadline \/ Handle \/ SendResponse
  \/ Close \/ LoopEnds

RpcCall(c) ==
  Send(c) \/ ReceiveReply(c) \/ ReceiveEnd(c) \/ ReceiveTimeout(c)

RpcNext == AcceptLoop \/ Stop \/ \E c \in Client : Connect(c) \/ RpcCall(c)

-----------------------------------------------------------------------------
(* What is wanted of it *)

\* A method is called for those only who sent user and password in the same
\* connection: nothing is left over from the request before.  A client that
\* sends its request in one piece and waits gets the answer its credentials
\* earn; it is left without one only by Stop ("baca satu permintaan",
\* AcceptLoop).
RequestAnswered ==
  /\ HasUser => executed \subseteq Authorized
  /\ \A c \in Client \ (Silent \cup InPieces) :
       /\ at[c] = "nothing" => ~running
       /\ at[c] = "answered" => (Contains(got[c], "result") <=> c \in Authorized)

\* Whoever is silent, whoever gives up, each connection gets its turn.
EachIsAccepted == \A c \in Client : Contains(backlog, c) ~> ~Contains(backlog, c)

\* What cdx-cli prints is all of the answer ("cukup: cek content-length",
\* RpcCall).
\* The code does not keep this (README, "Deviations").
ReplyIsWhole == \A c \in Client : at[c] = "answered" => Last(got[c]) = "tail"
=============================================================================
