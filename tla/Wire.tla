-------------------------------- MODULE Wire --------------------------------
(***************************************************************************)
(* One direction of one connection: frames are built and written           *)
(* (protocol.cpp, CNetServer::WriteTo and SendTo), the stream arrives in   *)
(* pieces of any size, and ReadLoop and ProcessBuffer take frames from the *)
(* buffer.                                                                 *)
(*                                                                         *)
(* The k-th frame is HeaderLen bytes and a payload; byte i of it is the    *)
(* pair <<k, i>>.  The magic and the checksum are taken to be perfect: no  *)
(* other bytes are a header, and no other payload fits a header.           *)
(***************************************************************************)
EXTENDS Integers, Sequences, SequencesExt, FiniteSets

CONSTANTS
  HeaderLen,     \* bytes of a header, 24
  PayloadLen,    \* PayloadLen[k]: bytes of the payload of frame k
  MayCut,        \* whether a write may fail half-way
  Probe          \* the bytes of an HTTP request, from a health check

Frame == DOMAIN PayloadLen

ASSUME WireAssumption ==
  /\ HeaderLen \in Nat \ {0}
  /\ PayloadLen \in Seq(Nat)
  /\ MayCut \in BOOLEAN

VARIABLES
  isProbe,       \* the other side is a health check, not a node
  written,       \* written[k]: how many bytes of frame k went out
  failed,        \* the sender's CNode is marked disconnected
  sending,       \* the sender's CNode is still in peers
  stream,        \* bytes on their way
  recvBuffer,
  parsing,       \* ReadLoop is in ProcessBuffer
  handled,       \* the messages given to OnMessage: their headers' frames
                 \* and their payloads
  score,         \* misbehaviorScore
  answered,      \* HTTP responses
  disconnected   \* the receiver's CNode is marked disconnected

senderVars == <<isProbe, written, failed, sending>>
receiverVars == <<recvBuffer, parsing, handled, score, answered, disconnected>>
vars == <<senderVars, stream, receiverVars>>

Bytes(k) == [i \in 1..(HeaderLen + PayloadLen[k]) |-> <<k, i>>]
Header(k) == SubSeq(Bytes(k), 1, HeaderLen)
Payload(k) == SubSeq(Bytes(k), HeaderLen + 1, HeaderLen + PayloadLen[k])

-----------------------------------------------------------------------------
(* Sending *)

\* The next frame is written up to byte n.  Neither SendTo nor
\* BroadcastMessage asks whether an earlier write has failed.
Write(n) ==
  LET k == Len(written) + 1
  IN  /\ sending /\ k \in Frame /\ ~isProbe
      /\ n \in 0..Len(Bytes(k))
      /\ written' = Append(written, n)
      /\ stream' = stream \o SubSeq(Bytes(k), 1, n)

SendTo ==
  /\ \E n \in 0..HeaderLen + Max({0} \cup ToSet(PayloadLen)) :
       /\ Write(n)
       /\ n = Len(Bytes(Len(written) + 1))
  /\ UNCHANGED <<isProbe, failed, sending, receiverVars>>

\* The peer does not read for 30 seconds, or the connection has an error.
WriteFails ==
  /\ MayCut
  /\ \E n \in 0..HeaderLen + Max({0} \cup ToSet(PayloadLen)) :
       /\ Write(n)
       /\ n < Len(Bytes(Len(written) + 1))
  /\ failed' = TRUE
  /\ UNCHANGED <<isProbe, sending, receiverVars>>

\* The sender's reader notices and takes the connection out of peers.
SenderLeaves ==
  /\ failed /\ sending
  /\ sending' = FALSE
  /\ UNCHANGED <<isProbe, written, failed, stream, receiverVars>>

-----------------------------------------------------------------------------
(* Receiving *)

\* recv: any number of the bytes that are there.
Receive ==
  /\ ~parsing /\ ~disconnected
  /\ \E n \in 1..Len(stream) :
       /\ recvBuffer' = recvBuffer \o SubSeq(stream, 1, n)
       /\ stream' = SubSeq(stream, n + 1, Len(stream))
  /\ parsing' = TRUE
  /\ UNCHANGED <<senderVars, handled, score, answered, disconnected>>

\* Mutant: the checksum is not compared.
ParseMessageTrusting(buffer) ==
  LET k == Head(buffer)[1]
      len == HeaderLen + PayloadLen[k]
  IN  IF Len(buffer) < HeaderLen THEN "incomplete"
      ELSE IF SubSeq(buffer, 1, HeaderLen) # Header(k) THEN "invalid"
      ELSE IF Len(buffer) < len THEN "incomplete"
      ELSE "message"

\* ParseMessage: a header is looked at once all of it is there, and the
\* payload once all of that is.
ParseMessage(buffer) ==
  LET k == Head(buffer)[1]
      len == HeaderLen + PayloadLen[k]
  IN  IF Len(buffer) < HeaderLen THEN "incomplete"
      ELSE IF SubSeq(buffer, 1, HeaderLen) # Header(k) THEN "invalid"
      ELSE IF Len(buffer) < len THEN "incomplete"
      ELSE IF SubSeq(buffer, HeaderLen + 1, len) # Payload(k) THEN "invalid"
      ELSE "message"

\* How long the message at the head of the buffer is, by its header.
Consumed(buffer) == HeaderLen + PayloadLen[Head(buffer)[1]]

IsHttp == isProbe /\ recvBuffer # <<>> /\ IsPrefix(Probe, recvBuffer)

Parses(result) ==
  /\ parsing /\ ~IsHttp /\ ~isProbe
  /\ result = IF recvBuffer = <<>> THEN "incomplete" ELSE ParseMessage(recvBuffer)

AnswerHttp ==
  /\ parsing /\ IsHttp
  /\ answered' = answered + 1
  /\ disconnected' = TRUE
  /\ parsing' = FALSE
  /\ UNCHANGED <<senderVars, stream, recvBuffer, handled, score>>

\* Back to recv, the loop of ReadLoop permitting.
ParseIncomplete ==
  /\ Parses("incomplete") \/ (parsing /\ isProbe /\ ~IsHttp)
  /\ parsing' = FALSE
  /\ UNCHANGED <<senderVars, stream, recvBuffer, handled, score, answered,
                 disconnected>>

\* The whole buffer goes, and the connection with the second time.
ParseInvalid ==
  /\ Parses("invalid")
  /\ score' = score + 100
  /\ recvBuffer' = <<>>
  /\ disconnected' = (score' >= 200)
  /\ parsing' = FALSE
  /\ UNCHANGED <<senderVars, stream, handled, answered>>

\* Mutant: what follows the message is dropped.
ParseMessageDoneClears ==
  /\ Parses("message")
  /\ handled' = Append(handled,
                  <<Head(recvBuffer)[1],
                    SubSeq(recvBuffer, HeaderLen + 1, Consumed(recvBuffer))>>)
  /\ recvBuffer' = <<>>
  /\ UNCHANGED <<senderVars, stream, parsing, score, answered, disconnected>>

ParseMessageDone ==
  /\ Parses("message")
  /\ handled' = Append(handled,
                  <<Head(recvBuffer)[1],
                    SubSeq(recvBuffer, HeaderLen + 1, Consumed(recvBuffer))>>)
  /\ recvBuffer' = SubSeq(recvBuffer, Consumed(recvBuffer) + 1, Len(recvBuffer))
  /\ UNCHANGED <<senderVars, stream, parsing, score, answered, disconnected>>

-----------------------------------------------------------------------------

Init ==
  /\ isProbe \in BOOLEAN
  /\ written = <<>> /\ failed = FALSE /\ sending = TRUE
  /\ stream = IF isProbe THEN Probe ELSE <<>>
  /\ recvBuffer = <<>> /\ parsing = FALSE
  /\ handled = <<>> /\ score = 0 /\ answered = 0
  /\ disconnected = FALSE

Receiver ==
  Receive \/ AnswerHttp \/ ParseIncomplete \/ ParseInvalid \/ ParseMessageDone

Next == SendTo \/ WriteFails \/ SenderLeaves \/ Receiver

Spec == Init /\ [][Next]_vars

-----------------------------------------------------------------------------
(* What is wanted of it *)

\* Whatever is cut and however the stream comes in pieces, a message that is
\* handled is one that was sent, with its own payload, and messages are
\* handled in the order they were sent, none twice.
HandledWasSent ==
  /\ \A i \in DOMAIN handled :
       LET k == handled[i][1]
       IN  /\ k \in DOMAIN written /\ written[k] = Len(Bytes(k))
           /\ handled[i][2] = Payload(k)
  /\ \A i \in DOMAIN handled, j \in DOMAIN handled :
       i < j => handled[i][1] < handled[j][1]

\* And all its messages are handled.
AllHandled ==
  \A k \in Frame :
    [](k \in DOMAIN written /\ ~failed
         => <>(failed \/ k \in {handled[i][1] : i \in DOMAIN handled}))

\* A frame that is cut is the last thing the peer is sent ("JANGAN pernah
\* mengirim frame terpotong (itu merusak stream pesan)", WriteTo).
\* The code does not keep this (README, "Deviations").
NothingAfterCut ==
  \A k \in DOMAIN written :
    written[k] < Len(Bytes(k)) => \A j \in DOMAIN written : j <= k

\* Something malformed ends the connection ("malformed packet ->
\* disconnect", ProcessBuffer).
\* The code does not keep this (README, "Deviations").
MalformedDisconnects == score > 0 => disconnected
=============================================================================
