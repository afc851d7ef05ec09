---------------------------- MODULE ThreadMailbox ----------------------------
(***************************************************************************)
(* The mailbox of a thread (Shared/thread.c) and the exchanges that go     *)
(* through it in the FileSystem process: the threads that use the node     *)
(* table (console, worker_handlers, node_listener) send requests to the    *)
(* datanode_handler threads (server.c), which respond to a ping and to a   *)
(* request for a block with a message to the requester's mailbox.          *)
(*                                                                         *)
(* A mailbox holds one message: sem_send counts its free places, sem_recv  *)
(* the messages in it.  sender is written by whoever sends, and read by    *)
(* the owner when it responds.                                             *)
(***************************************************************************)
EXTENDS Integers, FiniteSets

CONSTANTS
  Requester,  \* threads that use the node table
  Handler,    \* datanode_handler threads, one per connected node
  MaxAsks,    \* bound: requests of each requester
  MaxDrops,   \* bound: connections lost
  Kinds,      \* the requests used: "ping", "put", "get"
  NoMsg, Nobody

Thread == Requester \cup Handler

ASSUME MailboxAssumption ==
  /\ Requester \cap Handler = {} /\ Nobody \notin Thread /\ NoMsg \notin Thread
  /\ MaxAsks \in Nat /\ MaxDrops \in Nat /\ Kinds \subseteq {"ping", "put", "get"}

VARIABLES
  sem_send, sem_recv, sender, data, \* a thread's mailbox
  pc,         \* control point of each thread
  taken,      \* the message a thread took from its mailbox last
  out,        \* what a thread is about to send, and to whom
  registered, \* node->handler # NULL, for the node h serves
  up,         \* the connection h serves works
  asks, drops,  \* bounds
  asked, seen, answer  \* node_active as NodePing sees it (seen is history)

boxVars  == <<sem_send, sem_recv, sender, data>>
pingVars == <<asked, seen, answer>>
vars == <<boxVars, pc, taken, out, registered, up, asks, drops, pingVars>>
-----------------------------------------------------------------------------
Goto(t, label) == pc' = [pc EXCEPT ![t] = label]

\* Messages: requests carry who made them only to state the properties.
Request(op, r) == [op |-> op, by |-> r]
Reply(h, v)    == [op |-> "reply", by |-> h, alive |-> v]

Init ==
  /\ sem_send = [t \in Thread |-> 1] /\ sem_recv = [t \in Thread |-> 0]
  /\ sender = [t \in Thread |-> Nobody] /\ data = [t \in Thread |-> NoMsg]
  /\ pc = [t \in Thread |-> IF t \in Handler THEN "receive" ELSE "idle"]
  /\ taken = [t \in Thread |-> NoMsg]
  /\ out = [t \in Thread |-> [to |-> Nobody, msg |-> NoMsg]]
  /\ registered = [h \in Handler |-> TRUE] /\ up = [h \in Handler |-> TRUE]
  /\ asks = [r \in Requester |-> 0] /\ drops = 0
  /\ asked = [r \in Requester |-> Nobody] /\ seen = [r \in Requester |-> {}]
  /\ answer = [r \in Requester |-> TRUE]

\* node_active, nodelist_addblock and filetable_cpblock up to thread_send.
Ask(r, h, op) ==
  /\ pc[r] = "idle" /\ op \in Kinds /\ registered[h] /\ asks[r] < MaxAsks
  /\ asks' = [asks EXCEPT ![r] = @ + 1]
  /\ out' = [out EXCEPT ![r] = [to |-> h, msg |-> Request(op, r)]]
  /\ Goto(r, "send")
  /\ IF op = "ping"
     THEN /\ asked' = [asked EXCEPT ![r] = h]
          /\ seen' = [seen EXCEPT ![r] = {up[h]}]
     ELSE UNCHANGED <<asked, seen>>
  /\ UNCHANGED <<boxVars, taken, registered, up, drops, answer>>

AfterSend_M(msg) ==
  IF msg.op \in {"put", "get"} THEN "idle"
  ELSE IF msg.op = "reply" /\ ~msg.alive THEN "exit" ELSE "receive"
\* Where a thread goes once it has sent a message.
AfterSend(msg) ==
  IF msg.op = "put" THEN "idle"
  ELSE IF msg.op = "reply" /\ ~msg.alive THEN "exit" ELSE "receive"

Free_M(t) == TRUE
\* sem_wait of sem_send; the mailbox of a thread that ended was freed, and who
\* still waits for it is not woken.
Free(t) == sem_send[t] > 0 /\ pc[t] # "gone"
Stamp_M(t, from) == UNCHANGED sender
Stamp(t, from) == sender' = [sender EXCEPT ![t] = from]

\* thread_send; to no thread at all it does nothing.
Send(t) ==
  LET to == out[t].to IN
  /\ pc[t] = "send"
  /\ IF to = Nobody THEN UNCHANGED boxVars
     ELSE /\ Free(to)
          /\ sem_send' = [sem_send EXCEPT ![to] = @ - 1]
          /\ Stamp(to, t)
          /\ data' = [data EXCEPT ![to] = out[t].msg]
          /\ sem_recv' = [sem_recv EXCEPT ![to] = @ + 1]
  /\ Goto(t, AfterSend(out[t].msg))
  /\ UNCHANGED <<taken, out, registered, up, asks, drops, pingVars>>

\* thread_receive; a requester returns from node_active with what it got.
Receive(t) ==
  /\ pc[t] = "receive" /\ sem_recv[t] > 0
  /\ sem_recv' = [sem_recv EXCEPT ![t] = @ - 1]
  /\ sem_send' = [sem_send EXCEPT ![t] = @ + 1]
  /\ taken' = [taken EXCEPT ![t] = data[t]]
  /\ IF t \in Handler
     THEN Goto(t, "handle") /\ UNCHANGED pingVars
     ELSE /\ Goto(t, "idle")
          /\ IF asked[t] # Nobody
             THEN /\ answer' = [answer EXCEPT ![t] = data[t].alive]
                  /\ asked' = [asked EXCEPT ![t] = Nobody]
                  /\ seen' = [seen EXCEPT ![t] = {}]
             ELSE UNCHANGED pingVars
  /\ UNCHANGED <<sender, data, out, registered, up, asks, drops>>

\* datanode_handler: a ping is answered with the state of the connection.  A
\* block that is asked for is answered unless the connection breaks; a block
\* that is put is not answered.  thread_respond reads sender now.
Alive_M(h) == TRUE
Alive(h) == up[h]
Handle(h) ==
  LET op == taken[h].op IN
  /\ pc[h] = "handle"
  /\ IF op = "ping" \/ (op = "get" /\ up[h])
     THEN /\ out' = [out EXCEPT ![h] = [to |-> sender[h], msg |-> Reply(h, Alive(h))]]
          /\ Goto(h, "send")
     ELSE Goto(h, "receive") /\ UNCHANGED out
  /\ UNCHANGED <<boxVars, taken, registered, up, asks, drops, pingVars>>

\* A handler that found its connection dead ends.
Exit(h) ==
  /\ pc[h] = "exit" /\ registered' = [registered EXCEPT ![h] = FALSE]
  /\ Goto(h, "gone")
  /\ UNCHANGED <<boxVars, taken, out, up, asks, drops, pingVars>>

Drop(h) ==
  /\ up[h] /\ drops < MaxDrops /\ drops' = drops + 1
  /\ up' = [up EXCEPT ![h] = FALSE]
  /\ seen' = [r \in Requester |-> IF asked[r] = h THEN seen[r] \cup {FALSE} ELSE seen[r]]
  /\ UNCHANGED <<boxVars, pc, taken, out, registered, asks, asked, answer>>

Next ==
  \/ \E r \in Requester, h \in Handler, op \in Kinds : Ask(r, h, op)
  \/ \E t \in Thread : Send(t) \/ Receive(t)
  \/ \E h \in Handler : Handle(h) \/ Exit(h) \/ Drop(h)

Spec == Init /\ [][Next]_vars

\* Threads keep running; nobody is obliged to ask.
Fairness ==
  /\ \A t \in Thread : WF_vars(Send(t)) /\ WF_vars(Receive(t))
  /\ \A h \in Handler : WF_vars(Handle(h)) /\ WF_vars(Exit(h))
-----------------------------------------------------------------------------
(* Properties.                                                             *)

\* A requester that is in an exchange with a node.
Busy(r) == pc[r] \in {"send", "receive"}

\* Threads that use one node do so one at a time.  cpmut makes the stores take
\* turns; the console and the listener do not take it, and next to a store the
\* properties below may fail.
Turns ==
  \A r, s \in Requester : r # s /\ Busy(r) /\ Busy(s) => out[r].to # out[s].to

\* An answer in a requester's mailbox comes from the handler it asked, while
\* it waits for it: node_active never returns the state of another node.
AnswerIsItsOwn ==
  \A r \in Requester : sem_recv[r] > 0 =>
    pc[r] = "receive" /\ data[r].by = out[r].to

\* node_active answers with a state the connection had meanwhile.
AnswersAreTrue == INSTANCE NodePing
PingsAnswerTruly == AnswersAreTrue!Spec

\* Every request to a node whose connection lasts is answered.
RequestAnswered ==
  \A r \in Requester : pc[r] = "send" ~> (pc[r] = "idle" \/ ~up[out[r].to])
=============================================================================
