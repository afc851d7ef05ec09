---------------------------- MODULE PacketStream -----------------------------
(***************************************************************************)
(* Packets over a socket (protocol.c, sendall and recvall of socket.c):    *)
(* a process sends some, another receives them, and the bytes between them *)
(* pass in pieces of any size.  Either process may die, with part of a     *)
(* packet on its way.                                                      *)
(***************************************************************************)
EXTENDS Serial, FiniteSets

CONSTANTS
  Outboxes,     \* what may be sent: sequences of messages
  SizeofSize,   \* sizeof(size_t) in the reader
  Capacity,     \* bytes on their way (bound)
  MaxSize,      \* MAXSIZE
  Operation, Sender, \* codes of the kinds of messages; the sending process
  Torn          \* a packet put together from bytes that did not arrive

VARIABLES
  outbox,       \* the packets to send
  sending,      \* the bytes of the current sendall that are left to send
  after,        \* the content that follows the header being sent
  sent,         \* packets begun
  writer,       \* "runs", "closed", "failed": reported, "exited", "killed"
  wire,         \* bytes on their way
  buf,          \* bytes of the current recvall
  header,       \* the header of the packet being received, or Null
  delivered,    \* what protocol_receive_packet returned
  reader      \* "runs", "ended" or "killed"

writerVars == <<outbox, sending, after, sent, writer>>
readerVars == <<buf, header, delivered, reader>>
vars == <<writerVars, wire, readerVars>>

Header(m) == Pack(<<"i", "i", "i">>, <<Sender, Operation[m.is], Len(Content(m))>>)
HEADER_SIZE_M == 3 * Width["i"] + SizeofSize
\* sizeof(t_process) + sizeof(t_operation) + sizeof(size_t).
HEADER_SIZE == 2 * Width["i"] + SizeofSize

Init ==
  /\ outbox \in Outboxes /\ sending = <<>> /\ after = <<>> /\ sent = 0 /\ writer = "runs"
  /\ wire = <<>>
  /\ buf = <<>> /\ header = Null /\ delivered = <<>> /\ reader = "runs"
-----------------------------------------------------------------------------
\* protocol_send_packet begins: the header, and then the content, if any.
SendPacket ==
  /\ writer = "runs" /\ sending = <<>> /\ after = <<>> /\ sent < Len(outbox)
  /\ sent' = sent + 1
  /\ sending' = Header(outbox[sent + 1]) /\ after' = Content(outbox[sent + 1])
  /\ UNCHANGED <<outbox, writer, wire, readerVars>>
SendContent ==
  /\ writer = "runs" /\ sending = <<>> /\ after # <<>>
  /\ sending' = after /\ after' = <<>>
  /\ UNCHANGED <<outbox, sent, writer, wire, readerVars>>

Left_M(n) == <<>>
\* sendall goes on with what send has not taken.
Left(n) == SubSeq(sending, n + 1, Len(sending))
\* send takes some of the bytes; they are lost when the other end is gone and
\* this is not known yet.
Send ==
  /\ writer = "runs" /\ sending # <<>>
  /\ \E n \in 1 .. Len(sending) :
       /\ sending' = Left(n)
       /\ IF reader = "runs"
          THEN Len(wire) + n <= Capacity /\ wire' = wire \o SubSeq(sending, 1, n)
          ELSE UNCHANGED wire
  /\ UNCHANGED <<outbox, after, sent, writer, readerVars>>
\* The other end is gone: EPIPE, which protocol_send_packet returns as false,
\* or, when it had left bytes unread, ECONNRESET, for which check_descriptor
\* ends the process.
SendFails ==
  /\ writer = "runs" /\ sending # <<>> /\ reader # "runs"
  /\ writer' = IF wire = <<>> THEN "failed" ELSE "exited"
  /\ UNCHANGED <<outbox, sending, after, sent, wire, readerVars>>
\* socket_close.
Close ==
  /\ writer = "runs" /\ sending = <<>> /\ after = <<>> /\ sent = Len(outbox)
  /\ writer' = "closed"
  /\ UNCHANGED <<outbox, sending, after, sent, wire, readerVars>>
-----------------------------------------------------------------------------
Codes(op) == {is \in DOMAIN Operation : Operation[is] = op}
\* What recvall was called for.
Wanted == IF header = Null THEN HEADER_SIZE ELSE header[3]

\* The packet is complete.
Deliver(is, content) ==
  /\ delivered' = Append(delivered, [is |-> is, content |-> content])
  /\ buf' = <<>> /\ header' = Null /\ UNCHANGED reader

\* recvall has what it was called for: a header, which may be all of the
\* packet, or its content.
Complete(bytes) ==
  IF header # Null THEN \E is \in Codes(header[2]) : Deliver(is, bytes)
  ELSE LET h == Unpack(<<"i", "i", "i">>, bytes) IN
       IF h[3] > 0 THEN header' = h /\ buf' = <<>> /\ UNCHANGED <<delivered, reader>>
       ELSE \E is \in Codes(h[2]) : Deliver(is, <<>>)

\* A packet with bytes that never came, which its reader takes for whole.
DeliverTorn ==
  /\ delivered' = Append(delivered, Torn)
  /\ buf' = <<>> /\ header' = Null /\ reader' = "ended"

\* recv takes some bytes; a recvall of MAXSIZE bytes stops at a final 0.
Receive ==
  /\ reader = "runs" /\ wire # <<>>
  /\ \E n \in 1 .. Len(wire) :
       LET got == buf \o SubSeq(wire, 1, n)
           stops == Wanted = MaxSize /\ Last(got) = 0
       IN
       /\ Len(got) <= Wanted
       /\ wire' = SubSeq(wire, n + 1, Len(wire))
       /\ IF Len(got) = Wanted THEN Complete(got)
          ELSE IF stops THEN DeliverTorn
          ELSE buf' = got /\ UNCHANGED <<header, delivered, reader>>
  /\ UNCHANGED writerVars

\* recv returns 0: the connection is closed.  Without a byte of a header there
\* is no packet, OP_UNDEFINED, and the reader ends.
ReceiveEnd ==
  /\ reader = "runs" /\ wire = <<>> /\ writer # "runs"
  /\ IF buf = <<>> /\ header = Null
     THEN reader' = "ended" /\ UNCHANGED <<buf, header, delivered>>
     ELSE DeliverTorn
  /\ UNCHANGED <<writerVars, wire>>

\* Processes die.
KillSender ==
  /\ writer = "runs" /\ writer' = "killed"
  /\ UNCHANGED <<outbox, sending, after, sent, wire, readerVars>>
KillReceiver ==
  /\ reader = "runs" /\ reader' = "killed"
  /\ UNCHANGED <<writerVars, wire, buf, header, delivered>>

Sending == SendPacket \/ SendContent \/ Send \/ SendFails \/ Close
Receiving == Receive \/ ReceiveEnd
Next == Sending \/ Receiving \/ KillSender \/ KillReceiver

Spec == Init /\ [][Next]_vars
\* The processes run and the network delivers; nobody has to die.
Fairness == WF_vars(Sending) /\ WF_vars(Receiving)
-----------------------------------------------------------------------------
\* What the reader unpacks of a packet.
Opened(packet) == Parsed(packet.is, packet.content)

\* What is received is what was sent, in order, with its fields and lists: all
\* but the last packet of a process that died, which may be torn.
ReceivedAsSent ==
  \A k \in DOMAIN delivered :
    \/ k <= sent /\ delivered[k] # Torn /\ Opened(delivered[k]) = outbox[k]
    \/ k = Len(delivered) /\ delivered[k] = Torn /\ writer = "killed" /\ k = sent

\* What is sent is received, unless a process dies.
AllReceived ==
  <>[](\/ writer = "killed" \/ reader = "killed"
       \/ /\ writer = "closed" /\ reader = "ended" /\ Len(delivered) = Len(outbox)
          /\ delivered # <<>> => Last(delivered) # Torn)
=============================================================================
