------------------------------ MODULE MCShared -------------------------------
(* Three parts of Shared for TLC, which have nothing in common: the mailbox *)
(* of a thread, the lists and the packets.  The first state decides which   *)
(* one a behaviour is about; the others stay in their initial state.  Two   *)
(* threads never use one node at a time (Turns).                            *)
EXTENDS ThreadMailbox, TLC

CONSTANTS r1, r2, h1, h2, None, Null, Torn

VARIABLES part, list, sorted, result,
  outbox, sending, after, sent, writer, wire, buf, header, delivered, reader
lists == <<list, sorted, result>>
packets == <<outbox, sending, after, sent, writer, wire, buf, header, delivered, reader>>

\* Three elements, two of which sort alike.
Elem == {1, 2, 3}
Key == <<1, 1, 2>>
Lists == INSTANCE LinkedList WITH MaxCells <- 3, AnyAfterSort <- FALSE

\* Bytes have eight values and an integer two bytes: numbers have both signs and
\* a 0 in either byte.
Width == [i |-> 2]
NullString == <<7, 7>>
Operation == [plan |-> 1, local |-> 2, global |-> 3, store |-> 4, file |-> 5,
              response |-> 6, bytes |-> 7, ping |-> 8]
Message(is, values, items) == [is |-> is, values |-> values, items |-> items]
a == <<1>>
b == <<2>>
e == <<>>
\* A message of each kind, with lists, empty strings and NULL; nothing at all.
Outboxes ==
  {<<Message("response", <<-4>>, <<>>), Message("ping", <<>>, <<>>),
     Message("local", <<a, e, a, <<>>, b>>, <<a, <<2, 3>>>>)>>,
   <<Message("plan", <<>>, <<<<a, a, b, 3, 1, e>>, <<b, a, a, 0, -2, e>>>>)>>,
   <<Message("global", <<>>, <<<<a, a, b, b, a, e>>, <<b, e, b, e, a, e>>>>),
     Message("store", <<a, b, e, Null>>, <<>>)>>,
   <<Message("file", <<a, 3, 1>>, <<<<0, 2, 1, a, -1, Null>>, <<1, 1, 0, b, 0, a>>>>),
     Message("bytes", <<1, 0, 2>>, <<>>)>>,
   <<>>}
Packets == INSTANCE PacketStream WITH
  Radix <- 8, Colon <- 6, SizeofSize <- 2, Capacity <- 3, MaxSize <- 100, Sender <- 1

SharedInit ==
  /\ part \in {"mailbox", "lists", "packets"}
  /\ Init /\ Lists!Init /\ Packets!Init
  /\ part # "packets" => outbox = <<>>
SharedNext ==
  /\ \/ part = "mailbox" /\ Next /\ Turns' /\ UNCHANGED <<lists, packets>>
     \/ part = "lists" /\ Lists!Next /\ UNCHANGED <<vars, packets>>
     \/ part = "packets" /\ Packets!Next /\ UNCHANGED <<vars, lists>>
  /\ UNCHANGED part
SharedSpec ==
  /\ SharedInit /\ [][SharedNext]_<<vars, lists, packets, part>>
  /\ part = "mailbox" => Fairness
  /\ part = "packets" => Packets!Fairness

\* The properties of LinkedList and PacketStream.
ImplementsList == Lists!ImplementsList
ReceivedAsSent == Packets!ReceivedAsSent
AllReceived == part = "packets" => Packets!AllReceived
=============================================================================
