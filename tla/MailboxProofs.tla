---------------------------- MODULE MailboxProofs ----------------------------
(***************************************************************************)
(* Proofs about module ThreadMailbox: for any number of threads and nodes, *)
(* as long as no two threads are at one node at a time (Turns), an answer  *)
(* is the answerer's own, and node_active implements module NodePing.      *)
(*                                                                         *)
(* sender is one field, written by whoever sends and read when the handler *)
(* responds: what is proved is that nobody writes it between the two.      *)
(***************************************************************************)
EXTENDS ThreadMailbox, TLAPS

Requests == [op : Kinds, by : Requester]
Replies  == [op : {"reply"}, by : Handler, alive : BOOLEAN]
Message  == Requests \cup Replies

TypeOK ==
  /\ sem_send \in [Thread -> {0, 1}] /\ sem_recv \in [Thread -> {0, 1}]
  /\ \A t \in Thread : sem_send[t] + sem_recv[t] = 1
  /\ sender \in [Thread -> Thread \cup {Nobody}]
  /\ data \in [Thread -> Message \cup {NoMsg}]
  /\ pc \in [Thread -> {"idle", "send", "receive", "handle", "exit", "gone"}]
  /\ taken \in [Thread -> Message \cup {NoMsg}]
  /\ out \in [Thread -> [to : Thread \cup {Nobody}, msg : Message \cup {NoMsg}]]
  /\ up \in [Handler -> BOOLEAN]
  /\ asked \in [Requester -> Handler \cup {Nobody}]
  /\ seen \in [Requester -> SUBSET BOOLEAN]
  /\ answer \in [Requester -> BOOLEAN]

\* r waits for the answer of h.
Waits(r, h) == r \in Requester /\ pc[r] = "receive" /\ out[r].to = h
\* h has a request that it will answer before it takes another.
Engaged(h) == pc[h] = "send" \/ (pc[h] = "handle" /\ taken[h].op # "put")

\* What a thread does, by what it is.
RolesOK ==
  /\ \A r \in Requester : /\ pc[r] \in {"idle", "send", "receive"}
                          /\ Busy(r) => out[r].to \in Handler /\ out[r].msg \in Requests
                          /\ pc[r] = "receive" => out[r].msg.op # "put"
  /\ \A h \in Handler : /\ pc[h] \in {"receive", "handle", "send", "exit", "gone"}
                        /\ sem_recv[h] = 1 => data[h] \in Requests
                        /\ pc[h] = "handle" => taken[h] \in Requests
                        /\ pc[h] = "send" => out[h].msg \in Replies

\* The four places of a request that is to be answered, or of its answer.
Asked(h) ==
  sem_recv[h] = 1 /\ data[h].op # "put" =>
    /\ sender[h] \in Requester /\ Waits(sender[h], h) /\ sem_recv[sender[h]] = 0
    /\ ~Engaged(h)
Taken(h) ==
  pc[h] = "handle" /\ taken[h].op # "put" =>
    /\ sender[h] \in Requester /\ Waits(sender[h], h) /\ sem_recv[sender[h]] = 0
    /\ sem_recv[h] = 0
Answering(h) ==
  pc[h] = "send" =>
    /\ out[h].to \in Requester /\ Waits(out[h].to, h) /\ sem_recv[out[h].to] = 0
    /\ sem_recv[h] = 0 /\ out[h].msg.by = h
Answered(r) ==
  sem_recv[r] = 1 =>
    /\ pc[r] = "receive" /\ data[r] \in Replies /\ data[r].by = out[r].to
    /\ ~Engaged(out[r].to) /\ sem_recv[out[r].to] = 0

\* What node_active is told has been seen of the connection.
PingSeen ==
  /\ \A r \in Requester :
       /\ asked[r] # Nobody => /\ Busy(r) /\ asked[r] = out[r].to /\ out[r].msg.op = "ping"
                               /\ up[asked[r]] \in seen[r]
       /\ asked[r] # Nobody /\ sem_recv[r] = 1 => data[r].alive \in seen[r]
  /\ \A h \in Handler :
       pc[h] = "send" /\ asked[out[h].to] # Nobody => out[h].msg.alive \in seen[out[h].to]

MailInv ==
  /\ TypeOK /\ RolesOK
  /\ \A h \in Handler : Asked(h) /\ Taken(h) /\ Answering(h)
  /\ \A r \in Requester : Answered(r)
  /\ PingSeen
-----------------------------------------------------------------------------
\* Requesters, handlers and nobody are three things.
LEMMA Disjoint ==
  ASSUME NEW r \in Requester, NEW h \in Handler
  PROVE  r # h /\ r # Nobody /\ h # Nobody /\ r \in Thread /\ h \in Thread
BY MailboxAssumption DEF Thread

\* The invariant holds at first.
LEMMA MailInit == Init => MailInv
<1> SUFFICES ASSUME Init PROVE MailInv
  OBVIOUS
<1> USE MailboxAssumption
<1>1. TypeOK
  BY DEF Init, TypeOK, Thread
<1>2. /\ \A r \in Requester : pc[r] = "idle"
      /\ \A h \in Handler : pc[h] = "receive"
      /\ \A t \in Thread : sem_recv[t] = 0
      /\ \A r \in Requester : asked[r] = Nobody
      /\ Requester \subseteq Thread /\ Handler \subseteq Thread
  BY Disjoint DEF Init, Thread
<1> QED
  BY <1>1, <1>2 DEF MailInv, RolesOK, Busy, Asked, Taken, Answering, Answered, PingSeen

\* Which operations the messages have, and who sent them.
LEMMA MessageOps ==
  /\ \A m \in Requests : m.op \in {"ping", "put", "get"} /\ m.op # "reply" /\ m.by \in Requester
  /\ \A m \in Replies : m.op = "reply" /\ m.by \in Handler /\ m.alive \in BOOLEAN
  /\ \A op \in Kinds, r \in Requester : Request(op, r) \in Requests
  /\ \A h \in Handler, v \in BOOLEAN : Reply(h, v) \in Replies /\ Reply(h, v).by = h
                                       /\ Reply(h, v).alive = v
BY MailboxAssumption DEF Requests, Replies, Request, Reply

-----------------------------------------------------------------------------
(* A step at a time.                                                        *)

\* A thread that begins to ask keeps the invariant.
LEMMA AskKeeps ==
  ASSUME MailInv, NEW r \in Requester, NEW h \in Handler, NEW op \in Kinds, Ask(r, h, op)
  PROVE  MailInv'
<1>1. /\ pc[r] = "idle" /\ op \in {"ping", "put", "get"}
      /\ pc' = [pc EXCEPT ![r] = "send"]
      /\ out' = [out EXCEPT ![r] = [to |-> h, msg |-> Request(op, r)]]
      /\ UNCHANGED <<sem_send, sem_recv, sender, data, taken, up, answer>>
  BY MailboxAssumption DEF Ask, Goto, boxVars
<1>2. /\ Requester \subseteq Thread /\ Handler \subseteq Thread /\ Requester \cap Handler = {}
      /\ Nobody \notin Thread
  BY MailboxAssumption DEF Thread
<1>3. TypeOK /\ RolesOK /\ PingSeen
  BY DEF MailInv
<1>4. Request(op, r) \in Requests /\ Request(op, r).op = op
  BY MessageOps DEF Request
<1>5. /\ asked' = IF op = "ping" THEN [asked EXCEPT ![r] = h] ELSE asked
      /\ seen' = IF op = "ping" THEN [seen EXCEPT ![r] = {up[h]}] ELSE seen
  BY DEF Ask
<1>6. /\ out' \in [Thread -> [to : Thread \cup {Nobody}, msg : Message \cup {NoMsg}]]
      /\ out'[r] = [to |-> h, msg |-> Request(op, r)]
      /\ \A t \in Thread : t # r => out'[t] = out[t]
  BY <1>1, <1>2, <1>3, <1>4 DEF TypeOK, Message
<1>7. /\ pc' \in [Thread -> {"idle", "send", "receive", "handle", "exit", "gone"}]
      /\ pc'[r] = "send" /\ \A t \in Thread : t # r => pc'[t] = pc[t]
  BY <1>1, <1>2, <1>3 DEF TypeOK
<1>8. TypeOK'
  <2>1. asked' \in [Requester -> Handler \cup {Nobody}] /\ seen' \in [Requester -> SUBSET BOOLEAN]
    BY <1>3, <1>5 DEF TypeOK
  <2> QED
    BY <1>1, <1>3, <1>6, <1>7, <2>1 DEF TypeOK
<1>9. RolesOK'
  BY <1>1, <1>2, <1>3, <1>4, <1>6, <1>7 DEF RolesOK, Busy
<1>10. \A g \in Handler, s \in Requester : Waits(s, g)' = Waits(s, g)
  BY <1>1, <1>2, <1>6, <1>7 DEF Waits
<1>11. \A g \in Handler : Engaged(g)' = Engaged(g)
  BY <1>1, <1>2, <1>7 DEF Engaged
<1>12. \A g \in Handler : Asked(g)' /\ Taken(g)' /\ Answering(g)'
  <2> SUFFICES ASSUME NEW g \in Handler PROVE Asked(g)' /\ Taken(g)' /\ Answering(g)'
    OBVIOUS
  <2>1. Asked(g) /\ Taken(g) /\ Answering(g)
    BY DEF MailInv
  <2>2. Asked(g)'
    BY <1>1, <1>10, <1>11, <2>1 DEF Asked, Waits
  <2>3. Taken(g)'
    BY <1>1, <1>2, <1>7, <1>10, <2>1 DEF Taken
  <2>4. Answering(g)'
    BY <1>1, <1>2, <1>6, <1>7, <1>10, <2>1 DEF Answering
  <2> QED
    BY <2>2, <2>3, <2>4
<1>13. \A s \in Requester : Answered(s)'
  <2> SUFFICES ASSUME NEW s \in Requester PROVE Answered(s)'
    OBVIOUS
  <2>1. Answered(s)
    BY DEF MailInv
  <2>2. CASE s = r
    BY <1>1, <2>1, <2>2 DEF Answered
  <2>3. CASE s # r
    <3>1. out'[s] = out[s] /\ pc'[s] = pc[s]
      BY <1>2, <1>6, <1>7, <2>3
    <3>2. pc[s] = "receive" => out[s].to \in Handler
      BY <1>3 DEF RolesOK, Busy
    <3> QED
      BY <1>1, <1>11, <2>1, <3>1, <3>2 DEF Answered
  <2> QED
    BY <2>2, <2>3
<1>14. PingSeen'
  <2>1. asked[r] = Nobody /\ sem_recv[r] = 0
    <3>1. asked[r] = Nobody
      BY <1>1, <1>3 DEF PingSeen, Busy
    <3>2. Answered(r)
      BY DEF MailInv
    <3>3. sem_recv[r] \in {0, 1}
      BY <1>2, <1>3 DEF TypeOK
    <3> QED
      BY <1>1, <3>1, <3>2, <3>3 DEF Answered
  <2>2. ASSUME NEW s \in Requester
        PROVE  /\ asked'[s] # Nobody => /\ Busy(s)' /\ asked'[s] = out'[s].to /\ out'[s].msg.op = "ping"
                                       /\ up'[asked'[s]] \in seen'[s]
               /\ asked'[s] # Nobody /\ sem_recv'[s] = 1 => data'[s].alive \in seen'[s]
    <3>1. CASE s = r
      BY <1>1, <1>3, <1>4, <1>5, <1>6, <1>7, <2>1, <3>1 DEF TypeOK, Busy
    <3>2. CASE s # r
      <4>1. asked'[s] = asked[s] /\ seen'[s] = seen[s] /\ out'[s] = out[s] /\ pc'[s] = pc[s]
        BY <1>2, <1>3, <1>5, <1>6, <1>7, <3>2 DEF TypeOK
      <4> QED
        BY <1>1, <1>3, <4>1 DEF PingSeen, Busy
    <3> QED
      BY <3>1, <3>2
  <2>3. ASSUME NEW g \in Handler, pc'[g] = "send", asked'[out'[g].to] # Nobody
        PROVE  out'[g].msg.alive \in seen'[out'[g].to]
    <3>1. pc[g] = "send" /\ out'[g] = out[g]
      BY <1>2, <1>6, <1>7, <2>3
    <3>2. out[g].to \in Requester /\ out[g].to # r
      <4>1. Answering(g)
        BY DEF MailInv
      <4> QED
        BY <1>1, <3>1, <4>1 DEF Answering, Waits
    <3>3. asked'[out[g].to] = asked[out[g].to] /\ seen'[out[g].to] = seen[out[g].to]
      BY <1>3, <1>5, <3>2 DEF TypeOK
    <3> QED
      BY <1>3, <2>3, <3>1, <3>3 DEF PingSeen
  <2> QED
    BY <2>2, <2>3 DEF PingSeen
<1> QED
  BY <1>8, <1>9, <1>12, <1>13, <1>14 DEF MailInv
\* A requester puts its request in the node's mailbox: nobody else is at it.
LEMMA RequestKeeps ==
  ASSUME MailInv, Turns, NEW r \in Requester, Send(r)
  PROVE  MailInv'
<1> DEFINE h == out[r].to
<1>1. /\ Requester \subseteq Thread /\ Handler \subseteq Thread /\ Requester \cap Handler = {}
      /\ Nobody \notin Thread
  BY MailboxAssumption DEF Thread
<1>2. TypeOK /\ RolesOK /\ PingSeen
  BY DEF MailInv
<1>3. pc[r] = "send" /\ Busy(r) /\ h \in Handler /\ h # Nobody /\ out[r].msg \in Requests
  BY <1>1, <1>2 DEF Send, RolesOK, Busy
<1>4. out[r].msg.op \in {"ping", "put", "get"}
  BY <1>3, MessageOps
<1>5. /\ sem_send[h] > 0 /\ pc[h] # "gone"
      /\ sem_send' = [sem_send EXCEPT ![h] = @ - 1]
      /\ sender' = [sender EXCEPT ![h] = r]
      /\ data' = [data EXCEPT ![h] = out[r].msg]
      /\ sem_recv' = [sem_recv EXCEPT ![h] = @ + 1]
  BY <1>3 DEF Send, Free, Stamp
<1>6. /\ pc' = [pc EXCEPT ![r] = IF out[r].msg.op = "put" THEN "idle" ELSE "receive"]
      /\ UNCHANGED <<taken, out, up, asked, seen, answer>>
  BY <1>4 DEF Send, Goto, AfterSend, pingVars
<1>7. h \in Thread /\ r \in Thread /\ h # r
  BY <1>1, <1>3
<1>8. /\ sem_recv[h] = 0 /\ sem_recv'[h] = 1 /\ sem_send'[h] = 0
      /\ sender'[h] = r /\ data'[h] = out[r].msg
  BY <1>2, <1>5, <1>7 DEF TypeOK
<1>9. \A t \in Thread : t # h => /\ sem_recv'[t] = sem_recv[t] /\ sem_send'[t] = sem_send[t]
                                 /\ sender'[t] = sender[t] /\ data'[t] = data[t]
  BY <1>2, <1>5, <1>7 DEF TypeOK
<1>10. /\ pc'[r] = IF out[r].msg.op = "put" THEN "idle" ELSE "receive"
       /\ \A t \in Thread : t # r => pc'[t] = pc[t]
  BY <1>2, <1>6, <1>7 DEF TypeOK
<1>11. /\ \A g \in Handler, s \in Requester : s # r => Waits(s, g)' = Waits(s, g)
       /\ \A s \in Requester : ~Waits(s, h) 
       /\ out[r].msg.op # "put" => Waits(r, h)'
  BY <1>1, <1>3, <1>6, <1>10 DEF Waits, Turns, Busy
<1>12. ~Engaged(h) /\ \A g \in Handler : Engaged(g)' = Engaged(g)
  <2>1. Taken(h) /\ Answering(h)
    BY <1>3 DEF MailInv
  <2>2. ~Engaged(h)
    BY <1>11, <2>1 DEF Engaged, Taken, Answering
  <2> QED
    BY <1>1, <1>6, <1>10, <2>2 DEF Engaged
<1>13. sem_recv[r] = 0
  <2>1. Answered(r)
    BY DEF MailInv
  <2> QED
    BY <1>2, <1>3, <1>7, <2>1 DEF Answered, TypeOK
<1>14. TypeOK'
  <2>1. \A t \in Thread : /\ sem_recv'[t] + sem_send'[t] = 1
                          /\ sem_recv'[t] \in {0, 1} /\ sem_send'[t] \in {0, 1}
    BY <1>2, <1>8, <1>9 DEF TypeOK
  <2>2. sem_send' \in [Thread -> {0, 1}] /\ sem_recv' \in [Thread -> {0, 1}]
    BY <1>2, <1>5, <2>1 DEF TypeOK
  <2>3. \A t \in Thread : sem_send'[t] + sem_recv'[t] = 1
    BY <2>1
  <2>4. sender' \in [Thread -> Thread \cup {Nobody}] /\ data' \in [Thread -> Message \cup {NoMsg}]
    BY <1>2, <1>3, <1>5, <1>7 DEF TypeOK, Message
  <2>5. pc' \in [Thread -> {"idle", "send", "receive", "handle", "exit", "gone"}]
    BY <1>2, <1>6 DEF TypeOK
  <2> QED
    BY <1>2, <1>6, <2>2, <2>3, <2>4, <2>5 DEF TypeOK
<1>15. RolesOK'
  <2>1. ASSUME NEW s \in Requester
        PROVE  /\ pc'[s] \in {"idle", "send", "receive"}
               /\ Busy(s)' => out'[s].to \in Handler /\ out'[s].msg \in Requests
               /\ pc'[s] = "receive" => out'[s].msg.op # "put"
    BY <1>1, <1>2, <1>3, <1>6, <1>10 DEF RolesOK, Busy
  <2>2. ASSUME NEW g \in Handler
        PROVE  /\ pc'[g] \in {"receive", "handle", "send", "exit", "gone"}
               /\ sem_recv'[g] = 1 => data'[g] \in Requests
               /\ pc'[g] = "handle" => taken'[g] \in Requests
               /\ pc'[g] = "send" => out'[g].msg \in Replies
    BY <1>1, <1>2, <1>3, <1>6, <1>8, <1>9, <1>10 DEF RolesOK
  <2> QED
    BY <2>1, <2>2 DEF RolesOK
<1>16. \A g \in Handler : Asked(g)' /\ Taken(g)' /\ Answering(g)'
  <2> SUFFICES ASSUME NEW g \in Handler PROVE Asked(g)' /\ Taken(g)' /\ Answering(g)'
    OBVIOUS
  <2>1. Asked(g) /\ Taken(g) /\ Answering(g)
    BY DEF MailInv
  <2>2. CASE g = h
    <3>1. Asked(g)'
      <4>1. sender'[g] = r /\ data'[g] = out[r].msg /\ ~Engaged(g)'
        BY <1>3, <1>8, <1>12, <2>2
      <4>2. sem_recv'[r] = 0
        BY <1>7, <1>9, <1>13
      <4>3. out[r].msg.op # "put" => pc'[r] = "receive" /\ out'[r].to = g
        BY <1>6, <1>10, <2>2
      <4> QED
        BY <4>1, <4>2, <4>3 DEF Asked, Waits
    <3>2. Taken(g)' /\ Answering(g)'
      BY <1>7, <1>10, <1>6, <1>12, <2>2 DEF Taken, Answering, Engaged
    <3> QED
      BY <3>1, <3>2
  <2>3. CASE g # h
    <3>1. /\ g \in Thread /\ g # r /\ pc'[g] = pc[g] /\ sem_recv'[g] = sem_recv[g]
          /\ data'[g] = data[g] /\ sender'[g] = sender[g] /\ ~Waits(r, g)
      BY <1>1, <1>3, <1>9, <1>10, <2>3 DEF Waits
    <3>2. \A s \in Requester : sem_recv'[s] = sem_recv[s]
      BY <1>1, <1>3, <1>9
    <3>3. Asked(g)'
      BY <1>11, <1>12, <2>1, <3>1, <3>2 DEF Asked
    <3>4. Taken(g)'
      BY <1>6, <1>11, <2>1, <3>1, <3>2 DEF Taken
    <3>5. Answering(g)'
      BY <1>6, <1>11, <2>1, <3>1, <3>2 DEF Answering
    <3> QED
      BY <3>3, <3>4, <3>5
  <2> QED
    BY <2>2, <2>3
<1>17. \A s \in Requester : Answered(s)'
  <2> SUFFICES ASSUME NEW s \in Requester PROVE Answered(s)'
    OBVIOUS
  <2>1. Answered(s) /\ s \in Thread /\ s # h
    BY <1>1, <1>3 DEF MailInv
  <2>2. CASE s = r
    BY <1>9, <1>13, <2>1, <2>2 DEF Answered
  <2>3. CASE s # r
    <3>1. CASE sem_recv[s] = 1
      <4>1. pc[s] = "receive" /\ out[s].to \in Handler
        BY <1>2, <2>1, <3>1 DEF Answered, RolesOK, Busy
      <4>2. out[s].to # h
        BY <1>3, <2>3, <4>1 DEF Turns, Busy
      <4> QED
        BY <1>1, <1>6, <1>9, <1>10, <1>12, <2>1, <2>3, <4>1, <4>2 DEF Answered
    <3>2. CASE sem_recv[s] # 1
      BY <1>9, <2>1, <3>2 DEF Answered
    <3> QED
      BY <3>1, <3>2
  <2> QED
    BY <2>2, <2>3
<1>18. PingSeen'
  <2>1. ASSUME NEW s \in Requester
        PROVE  /\ asked'[s] # Nobody => /\ Busy(s)' /\ asked'[s] = out'[s].to /\ out'[s].msg.op = "ping"
                                       /\ up'[asked'[s]] \in seen'[s]
               /\ asked'[s] # Nobody /\ sem_recv'[s] = 1 => data'[s].alive \in seen'[s]
    <3>1. s \in Thread /\ s # h
      BY <1>1, <1>3
    <3>2. asked[s] # Nobody => Busy(s)'
      <4>1. CASE s # r
        BY <1>2, <1>10, <3>1, <4>1 DEF PingSeen, Busy
      <4>2. CASE s = r
        BY <1>2, <1>10, <4>2 DEF Busy, PingSeen
      <4> QED
        BY <4>1, <4>2
    <3> QED
      BY <1>2, <1>6, <1>9, <3>1, <3>2 DEF PingSeen
  <2>2. \A g \in Handler : pc'[g] = pc[g] /\ out'[g] = out[g]
    BY <1>1, <1>6, <1>10
  <2> QED
    BY <1>2, <1>6, <2>1, <2>2 DEF PingSeen
<1> QED
  BY <1>14, <1>15, <1>16, <1>17, <1>18 DEF MailInv
\* A handler answers: the requester waits for it with an empty mailbox.
LEMMA AnswerKeeps ==
  ASSUME MailInv, Turns, NEW h \in Handler, Send(h)
  PROVE  MailInv'
<1> DEFINE r == out[h].to
<1>1. /\ Requester \subseteq Thread /\ Handler \subseteq Thread /\ Requester \cap Handler = {}
      /\ Nobody \notin Thread
  BY MailboxAssumption DEF Thread
<1>2. TypeOK /\ RolesOK /\ PingSeen
  BY DEF MailInv
<1>3. /\ pc[h] = "send" /\ r \in Requester /\ pc[r] = "receive" /\ out[r].to = h
      /\ sem_recv[r] = 0 /\ sem_recv[h] = 0 /\ out[h].msg.by = h /\ out[h].msg \in Replies
  <2>1. pc[h] = "send" /\ Answering(h)
    BY DEF Send, MailInv
  <2> QED
    BY <1>2, <2>1 DEF Answering, Waits, RolesOK
<1>4. r \in Thread /\ h \in Thread /\ r # h /\ r # Nobody
  BY <1>1, <1>3
<1>5. /\ sem_send' = [sem_send EXCEPT ![r] = @ - 1]
      /\ sender' = [sender EXCEPT ![r] = h]
      /\ data' = [data EXCEPT ![r] = out[h].msg]
      /\ sem_recv' = [sem_recv EXCEPT ![r] = @ + 1]
  BY <1>4 DEF Send, Free, Stamp
<1>6. /\ pc' = [pc EXCEPT ![h] = IF ~out[h].msg.alive THEN "exit" ELSE "receive"]
      /\ UNCHANGED <<taken, out, up, asked, seen, answer>>
  <2>1. out[h].msg.op = "reply"
    BY <1>3, MessageOps
  <2> QED
    BY <2>1 DEF Send, Goto, AfterSend, pingVars
<1>7. sem_recv'[r] = 1 /\ sem_send'[r] = 0 /\ data'[r] = out[h].msg /\ sender'[r] = h
  BY <1>2, <1>3, <1>4, <1>5 DEF TypeOK
<1>8. \A t \in Thread : t # r => /\ sem_recv'[t] = sem_recv[t] /\ sem_send'[t] = sem_send[t]
                                 /\ sender'[t] = sender[t] /\ data'[t] = data[t]
  BY <1>2, <1>4, <1>5 DEF TypeOK
<1>9. /\ pc'[h] \in {"exit", "receive"}
      /\ \A t \in Thread : t # h => pc'[t] = pc[t]
  BY <1>2, <1>4, <1>6 DEF TypeOK
<1>10. TypeOK'
  <2>1. \A t \in Thread : /\ sem_recv'[t] + sem_send'[t] = 1
                          /\ sem_recv'[t] \in {0, 1} /\ sem_send'[t] \in {0, 1}
    BY <1>2, <1>7, <1>8 DEF TypeOK
  <2>2. sem_send' \in [Thread -> {0, 1}] /\ sem_recv' \in [Thread -> {0, 1}]
    BY <1>2, <1>5, <2>1 DEF TypeOK
  <2>3. \A t \in Thread : sem_send'[t] + sem_recv'[t] = 1
    BY <2>1
  <2>4. sender' \in [Thread -> Thread \cup {Nobody}] /\ data' \in [Thread -> Message \cup {NoMsg}]
    BY <1>2, <1>3, <1>4, <1>5 DEF TypeOK, Message
  <2>5. pc' \in [Thread -> {"idle", "send", "receive", "handle", "exit", "gone"}]
    BY <1>2, <1>6 DEF TypeOK
  <2> QED
    BY <1>2, <1>6, <2>2, <2>3, <2>4, <2>5 DEF TypeOK
<1>11. RolesOK'
  <2>1. ASSUME NEW s \in Requester
        PROVE  /\ pc'[s] \in {"idle", "send", "receive"}
               /\ Busy(s)' => out'[s].to \in Handler /\ out'[s].msg \in Requests
               /\ pc'[s] = "receive" => out'[s].msg.op # "put"
    BY <1>1, <1>2, <1>6, <1>9 DEF RolesOK, Busy
  <2>2. ASSUME NEW g \in Handler
        PROVE  /\ pc'[g] \in {"receive", "handle", "send", "exit", "gone"}
               /\ sem_recv'[g] = 1 => data'[g] \in Requests
               /\ pc'[g] = "handle" => taken'[g] \in Requests
               /\ pc'[g] = "send" => out'[g].msg \in Replies
    BY <1>1, <1>2, <1>3, <1>6, <1>8, <1>9 DEF RolesOK
  <2> QED
    BY <2>1, <2>2 DEF RolesOK
<1>12. \A g \in Handler, s \in Requester : Waits(s, g)' = Waits(s, g)
  BY <1>1, <1>6, <1>9 DEF Waits
<1>13. /\ ~Engaged(h)'
       /\ \A g \in Handler : g # h => ~Waits(r, g) /\ Engaged(g)' = Engaged(g)
  BY <1>1, <1>3, <1>6, <1>9 DEF Engaged, Waits
<1>14. \A g \in Handler : Asked(g)' /\ Taken(g)' /\ Answering(g)'
  <2> SUFFICES ASSUME NEW g \in Handler PROVE Asked(g)' /\ Taken(g)' /\ Answering(g)'
    OBVIOUS
  <2>1. Asked(g) /\ Taken(g) /\ Answering(g)
    BY DEF MailInv
  <2>2. g \in Thread /\ g # r /\ sem_recv'[g] = sem_recv[g] /\ data'[g] = data[g]
        /\ sender'[g] = sender[g]
    BY <1>1, <1>3, <1>8
  <2>3. CASE g = h
    BY <1>3, <1>9, <2>2, <2>3 DEF Asked, Taken, Answering
  <2>4. CASE g # h
    <3>1. ~Waits(r, g) /\ pc'[g] = pc[g] /\ Engaged(g)' = Engaged(g)
      BY <1>9, <1>13, <2>2, <2>4
    <3>2. \A s \in Requester : Waits(s, g) => sem_recv'[s] = sem_recv[s]
      BY <1>1, <1>8, <3>1
    <3>3. Asked(g)'
      BY <1>12, <2>1, <2>2, <3>1, <3>2 DEF Asked
    <3>4. Taken(g)'
      BY <1>6, <1>12, <2>1, <2>2, <3>1, <3>2 DEF Taken
    <3>5. Answering(g)'
      BY <1>6, <1>12, <2>1, <2>2, <3>1, <3>2 DEF Answering
    <3> QED
      BY <3>3, <3>4, <3>5
  <2> QED
    BY <2>3, <2>4
<1>15. \A s \in Requester : Answered(s)'
  <2> SUFFICES ASSUME NEW s \in Requester PROVE Answered(s)'
    OBVIOUS
  <2>1. Answered(s) /\ s \in Thread /\ s # h /\ pc'[s] = pc[s] /\ out' = out
    BY <1>1, <1>3, <1>6, <1>9 DEF MailInv
  <2>2. CASE s = r
    <3>1. out[s].to = h /\ sem_recv'[h] = 0 /\ data'[s] \in Replies /\ data'[s].by = h
      BY <1>3, <1>4, <1>7, <1>8, <2>2
    <3> QED
      BY <1>3, <1>13, <2>1, <2>2, <3>1 DEF Answered
  <2>3. CASE s # r
    <3>1. CASE sem_recv[s] = 1
      <4>1. pc[s] = "receive" /\ out[s].to \in Handler
        BY <1>2, <2>1, <3>1 DEF Answered, RolesOK, Busy
      <4>2. out[s].to # h
        BY <1>3, <2>3, <4>1 DEF Turns, Busy
      <4> QED
        BY <1>1, <1>3, <1>8, <1>13, <2>1, <2>3, <4>1, <4>2 DEF Answered
    <3>2. CASE sem_recv[s] # 1
      BY <1>8, <2>1, <2>3, <3>2 DEF Answered
    <3> QED
      BY <3>1, <3>2
  <2> QED
    BY <2>2, <2>3
<1>16. PingSeen'
  <2>1. ASSUME NEW s \in Requester
        PROVE  /\ asked'[s] # Nobody => /\ Busy(s)' /\ asked'[s] = out'[s].to /\ out'[s].msg.op = "ping"
                                       /\ up'[asked'[s]] \in seen'[s]
               /\ asked'[s] # Nobody /\ sem_recv'[s] = 1 => data'[s].alive \in seen'[s]
    <3>1. s \in Thread /\ s # h /\ pc'[s] = pc[s]
      BY <1>1, <1>3, <1>9
    <3>2. CASE s = r
      BY <1>2, <1>3, <1>6, <1>7, <3>1, <3>2 DEF PingSeen, Busy
    <3>3. CASE s # r
      BY <1>2, <1>6, <1>8, <3>1, <3>3 DEF PingSeen, Busy
    <3> QED
      BY <3>2, <3>3
  <2>2. \A g \in Handler : pc'[g] = "send" => pc[g] = "send" /\ out'[g] = out[g]
    BY <1>1, <1>6, <1>9
  <2> QED
    BY <1>2, <1>6, <2>1, <2>2 DEF PingSeen
<1> QED
  BY <1>10, <1>11, <1>14, <1>15, <1>16 DEF MailInv
\* A requester takes its answer and is free for another request.
LEMMA TakeAnswerKeeps ==
  ASSUME MailInv, Turns, NEW r \in Requester, Receive(r)
  PROVE  MailInv'
<1> DEFINE h == out[r].to
<1>1. /\ Requester \subseteq Thread /\ Handler \subseteq Thread /\ Requester \cap Handler = {}
      /\ Nobody \notin Thread
  BY MailboxAssumption DEF Thread
<1>2. TypeOK /\ RolesOK /\ PingSeen
  BY DEF MailInv
<1>3. /\ pc[r] = "receive" /\ sem_recv[r] = 1 /\ r \in Thread /\ r \notin Handler
      /\ h \in Handler /\ data[r] \in Replies /\ ~Engaged(h) /\ sem_recv[h] = 0
  <2>1. pc[r] = "receive" /\ sem_recv[r] = 1
    BY <1>1, <1>2 DEF Receive, TypeOK
  <2>2. Answered(r)
    BY DEF MailInv
  <2> QED
    BY <1>1, <1>2, <2>1, <2>2 DEF Answered, RolesOK, Busy
<1>4. /\ sem_recv' = [sem_recv EXCEPT ![r] = @ - 1]
      /\ sem_send' = [sem_send EXCEPT ![r] = @ + 1]
      /\ taken' = [taken EXCEPT ![r] = data[r]]
      /\ pc' = [pc EXCEPT ![r] = "idle"]
      /\ UNCHANGED <<sender, data, out, up>>
  BY <1>3 DEF Receive, Goto
<1>5. IF asked[r] # Nobody
      THEN /\ answer' = [answer EXCEPT ![r] = data[r].alive]
           /\ asked' = [asked EXCEPT ![r] = Nobody]
           /\ seen' = [seen EXCEPT ![r] = {}]
      ELSE UNCHANGED pingVars
  BY <1>3 DEF Receive
<1>6. /\ sem_recv'[r] = 0 /\ sem_send'[r] = 1 /\ pc'[r] = "idle"
      /\ \A t \in Thread : t # r => /\ sem_recv'[t] = sem_recv[t] /\ sem_send'[t] = sem_send[t]
                                    /\ pc'[t] = pc[t] /\ taken'[t] = taken[t]
  BY <1>2, <1>3, <1>4 DEF TypeOK
<1>7. asked'[r] = Nobody /\ \A s \in Requester : s # r => asked'[s] = asked[s] /\ seen'[s] = seen[s]
  BY <1>2, <1>5 DEF TypeOK, pingVars
<1>8. TypeOK'
  <2>1. sem_send' \in [Thread -> {0, 1}] /\ sem_recv' \in [Thread -> {0, 1}]
    BY <1>2, <1>4, <1>6 DEF TypeOK
  <2>2. \A t \in Thread : sem_send'[t] + sem_recv'[t] = 1
    BY <1>2, <1>6 DEF TypeOK
  <2>3. /\ pc' \in [Thread -> {"idle", "send", "receive", "handle", "exit", "gone"}]
        /\ taken' \in [Thread -> Message \cup {NoMsg}]
    BY <1>2, <1>3, <1>4 DEF TypeOK
  <2>4. /\ asked' \in [Requester -> Handler \cup {Nobody}]
        /\ seen' \in [Requester -> SUBSET BOOLEAN] /\ answer' \in [Requester -> BOOLEAN]
    BY <1>2, <1>3, <1>5, MessageOps, ZenonT(40) DEF TypeOK, pingVars
  <2> QED
    BY <1>2, <1>4, <2>1, <2>2, <2>3, <2>4 DEF TypeOK
<1>9. RolesOK'
  <2>1. ASSUME NEW s \in Requester
        PROVE  /\ pc'[s] \in {"idle", "send", "receive"}
               /\ Busy(s)' => out'[s].to \in Handler /\ out'[s].msg \in Requests
               /\ pc'[s] = "receive" => out'[s].msg.op # "put"
    BY <1>1, <1>2, <1>4, <1>6 DEF RolesOK, Busy
  <2>2. ASSUME NEW g \in Handler
        PROVE  /\ pc'[g] \in {"receive", "handle", "send", "exit", "gone"}
               /\ sem_recv'[g] = 1 => data'[g] \in Requests
               /\ pc'[g] = "handle" => taken'[g] \in Requests
               /\ pc'[g] = "send" => out'[g].msg \in Replies
    BY <1>1, <1>2, <1>3, <1>4, <1>6 DEF RolesOK
  <2> QED
    BY <2>1, <2>2 DEF RolesOK
<1>10. \A g \in Handler, s \in Requester : s # r => Waits(s, g)' = Waits(s, g)
  BY <1>1, <1>4, <1>6 DEF Waits
<1>11. \A g \in Handler : Engaged(g)' = Engaged(g) /\ (g # h => ~Waits(r, g))
  <2> SUFFICES ASSUME NEW g \in Handler PROVE Engaged(g)' = Engaged(g) /\ (g # h => ~Waits(r, g))
    OBVIOUS
  <2>1. g \in Thread /\ g # r
    BY <1>1
  <2> QED
    BY <1>6, <2>1 DEF Engaged, Waits
<1>12. \A g \in Handler : Asked(g)' /\ Taken(g)' /\ Answering(g)'
  <2> SUFFICES ASSUME NEW g \in Handler PROVE Asked(g)' /\ Taken(g)' /\ Answering(g)'
    OBVIOUS
  <2>1. Asked(g) /\ Taken(g) /\ Answering(g)
    BY DEF MailInv
  <2>2. /\ g \in Thread /\ g # r /\ sem_recv'[g] = sem_recv[g] /\ data' = data /\ sender' = sender
        /\ out' = out /\ pc'[g] = pc[g] /\ taken'[g] = taken[g]
    BY <1>1, <1>3, <1>4, <1>6
  <2>3. CASE g = h
    BY <1>3, <2>2, <2>3 DEF Asked, Taken, Answering, Engaged
  <2>4. CASE g # h
    <3>1. ~Waits(r, g)
      BY <1>11, <2>4
    <3>2. \A s \in Requester : Waits(s, g) => sem_recv'[s] = sem_recv[s] /\ Waits(s, g)'
      BY <1>1, <1>6, <1>10, <3>1
    <3>3. Asked(g)'
      BY <1>11, <2>1, <2>2, <3>2 DEF Asked
    <3>4. Taken(g)'
      BY <2>1, <2>2, <3>2 DEF Taken
    <3>5. Answering(g)'
      BY <2>1, <2>2, <3>2 DEF Answering
    <3> QED
      BY <3>3, <3>4, <3>5
  <2> QED
    BY <2>3, <2>4
<1>13. \A s \in Requester : Answered(s)'
  <2> SUFFICES ASSUME NEW s \in Requester PROVE Answered(s)'
    OBVIOUS
  <2>1. Answered(s) /\ s \in Thread /\ out' = out /\ data' = data
    BY <1>1, <1>4 DEF MailInv
  <2>2. CASE s = r
    BY <1>6, <2>2 DEF Answered
  <2>3. CASE s # r
    <3>1. pc[s] = "receive" => out[s].to \in Handler
      BY <1>2 DEF RolesOK, Busy
    <3> QED
      BY <1>1, <1>6, <1>11, <2>1, <2>3, <3>1 DEF Answered
  <2> QED
    BY <2>2, <2>3
<1>14. PingSeen'
  <2>1. ASSUME NEW s \in Requester
        PROVE  /\ asked'[s] # Nobody => /\ Busy(s)' /\ asked'[s] = out'[s].to /\ out'[s].msg.op = "ping"
                                       /\ up'[asked'[s]] \in seen'[s]
               /\ asked'[s] # Nobody /\ sem_recv'[s] = 1 => data'[s].alive \in seen'[s]
    <3>1. CASE s = r
      BY <1>7, <3>1
    <3>2. CASE s # r
      BY <1>1, <1>2, <1>4, <1>6, <1>7, <3>2 DEF PingSeen, Busy
    <3> QED
      BY <3>1, <3>2
  <2>2. ASSUME NEW g \in Handler, pc'[g] = "send", asked'[out'[g].to] # Nobody
        PROVE  out'[g].msg.alive \in seen'[out'[g].to]
    <3>1. pc[g] = "send" /\ out' = out
      BY <1>1, <1>3, <1>4, <1>6, <2>2
    <3>2. out[g].to \in Requester /\ out[g].to # r
      <4>1. Answering(g)
        BY DEF MailInv
      <4>2. sem_recv[out[g].to] = 0
        BY <3>1, <4>1 DEF Answering
      <4> QED
        BY <1>3, <3>1, <4>1, <4>2 DEF Answering
    <3> QED
      BY <1>2, <1>7, <2>2, <3>1, <3>2 DEF PingSeen
  <2> QED
    BY <2>1, <2>2 DEF PingSeen
<1> QED
  BY <1>8, <1>9, <1>12, <1>13, <1>14 DEF MailInv

\* A handler takes a request: its mailbox is free, but nobody else is at it.
LEMMA TakeRequestKeeps ==
  ASSUME MailInv, NEW h \in Handler, Receive(h)
  PROVE  MailInv'
<1>1. /\ Requester \subseteq Thread /\ Handler \subseteq Thread /\ Requester \cap Handler = {}
      /\ Nobody \notin Thread
  BY MailboxAssumption DEF Thread
<1>2. TypeOK /\ RolesOK /\ PingSeen
  BY DEF MailInv
<1>3. /\ pc[h] = "receive" /\ sem_recv[h] = 1 /\ h \in Thread /\ data[h] \in Requests
  BY <1>1, <1>2 DEF Receive, TypeOK, RolesOK
<1>4. /\ sem_recv' = [sem_recv EXCEPT ![h] = @ - 1]
      /\ sem_send' = [sem_send EXCEPT ![h] = @ + 1]
      /\ taken' = [taken EXCEPT ![h] = data[h]]
      /\ pc' = [pc EXCEPT ![h] = "handle"]
      /\ UNCHANGED <<sender, data, out, up, asked, seen, answer>>
  BY <1>3 DEF Receive, Goto, pingVars
<1>5. /\ sem_recv'[h] = 0 /\ sem_send'[h] = 1 /\ pc'[h] = "handle" /\ taken'[h] = data[h]
      /\ \A t \in Thread : t # h => /\ sem_recv'[t] = sem_recv[t] /\ sem_send'[t] = sem_send[t]
                                    /\ pc'[t] = pc[t] /\ taken'[t] = taken[t]
  BY <1>2, <1>3, <1>4 DEF TypeOK
<1>6. TypeOK'
  <2>1. sem_send' \in [Thread -> {0, 1}] /\ sem_recv' \in [Thread -> {0, 1}]
    BY <1>2, <1>4, <1>5 DEF TypeOK
  <2>2. \A t \in Thread : sem_send'[t] + sem_recv'[t] = 1
    BY <1>2, <1>5 DEF TypeOK
  <2>3. /\ pc' \in [Thread -> {"idle", "send", "receive", "handle", "exit", "gone"}]
        /\ taken' \in [Thread -> Message \cup {NoMsg}]
    BY <1>2, <1>3, <1>4 DEF TypeOK
  <2> QED
    BY <1>2, <1>4, <2>1, <2>2, <2>3 DEF TypeOK
<1>7. RolesOK'
  <2>1. ASSUME NEW s \in Requester
        PROVE  /\ pc'[s] \in {"idle", "send", "receive"}
               /\ Busy(s)' => out'[s].to \in Handler /\ out'[s].msg \in Requests
               /\ pc'[s] = "receive" => out'[s].msg.op # "put"
    BY <1>1, <1>2, <1>4, <1>5 DEF RolesOK, Busy
  <2>2. ASSUME NEW g \in Handler
        PROVE  /\ pc'[g] \in {"receive", "handle", "send", "exit", "gone"}
               /\ sem_recv'[g] = 1 => data'[g] \in Requests
               /\ pc'[g] = "handle" => taken'[g] \in Requests
               /\ pc'[g] = "send" => out'[g].msg \in Replies
    BY <1>1, <1>2, <1>3, <1>4, <1>5 DEF RolesOK
  <2> QED
    BY <2>1, <2>2 DEF RolesOK
<1>8. \A s \in Requester : /\ sem_recv'[s] = sem_recv[s] /\ pc'[s] = pc[s]
                           /\ \A g \in Handler : Waits(s, g)' = Waits(s, g)
  BY <1>1, <1>3, <1>4, <1>5 DEF Waits
<1>9. \A g \in Handler : Asked(g)' /\ Taken(g)' /\ Answering(g)'
  <2> SUFFICES ASSUME NEW g \in Handler PROVE Asked(g)' /\ Taken(g)' /\ Answering(g)'
    OBVIOUS
  <2>1. Asked(g) /\ Taken(g) /\ Answering(g)
    BY DEF MailInv
  <2>2. CASE g = h
    <3>1. Asked(g)' /\ Answering(g)'
      BY <1>5, <2>2 DEF Asked, Answering
    <3>2. data[h].op # "put" => sender[h] \in Requester /\ Waits(sender[h], h) /\ sem_recv[sender[h]] = 0
      BY <1>3, <2>1, <2>2 DEF Asked
    <3>3. Taken(g)'
      BY <1>4, <1>5, <1>8, <2>2, <3>2 DEF Taken
    <3> QED
      BY <3>1, <3>3
  <2>3. CASE g # h
    <3>1. /\ g \in Thread /\ pc'[g] = pc[g] /\ taken'[g] = taken[g] /\ sem_recv'[g] = sem_recv[g]
          /\ Engaged(g)' = Engaged(g)
      BY <1>1, <1>5, <2>3 DEF Engaged
    <3> QED
      BY <1>4, <1>8, <2>1, <3>1 DEF Asked, Taken, Answering
  <2> QED
    BY <2>2, <2>3
<1>10. \A s \in Requester : Answered(s)'
  <2> SUFFICES ASSUME NEW s \in Requester, sem_recv[s] = 1 PROVE Answered(s)'
    BY <1>8 DEF Answered
  <2>1. Answered(s) /\ pc[s] = "receive" /\ out[s].to \in Handler /\ out[s].to # h
    BY <1>2, <1>3 DEF MailInv, Answered, RolesOK, Busy
  <2>2. /\ Engaged(out[s].to)' = Engaged(out[s].to)
        /\ sem_recv'[out[s].to] = sem_recv[out[s].to]
    BY <1>1, <1>4, <1>5, <2>1 DEF Engaged
  <2> QED
    BY <1>4, <1>8, <2>1, <2>2 DEF Answered, Engaged
<1>11. PingSeen'
  <2>1. \A g \in Handler : pc'[g] = "send" => pc[g] = "send"
    BY <1>1, <1>5
  <2> QED
    BY <1>2, <1>4, <1>8, <2>1 DEF PingSeen, Busy
<1> QED
  BY <1>6, <1>7, <1>9, <1>10, <1>11 DEF MailInv
\* A handler reads sender, which is still the thread whose request it took.
LEMMA HandleKeeps ==
  ASSUME MailInv, NEW h \in Handler, Handle(h)
  PROVE  MailInv'
<1>1. /\ Requester \subseteq Thread /\ Handler \subseteq Thread /\ Requester \cap Handler = {}
      /\ Nobody \notin Thread
  BY MailboxAssumption DEF Thread
<1>2. TypeOK /\ RolesOK /\ PingSeen
  BY DEF MailInv
<1>3. /\ pc[h] = "handle" /\ h \in Thread /\ taken[h] \in Requests
      /\ taken[h].op \in {"ping", "put", "get"} /\ up[h] \in BOOLEAN
      /\ sem_recv[h] = 1 => data[h] \in Requests
  BY <1>1, <1>2, MessageOps DEF Handle, TypeOK, RolesOK
<1>4. UNCHANGED <<sem_send, sem_recv, sender, data, taken, up, asked, seen, answer>>
  BY DEF Handle, boxVars, pingVars
<1>5. Taken(h) /\ Asked(h)
  BY DEF MailInv
<1>6. CASE out' = out /\ pc' = [pc EXCEPT ![h] = "receive"]
  <2>1. pc'[h] = "receive" /\ \A t \in Thread : t # h => pc'[t] = pc[t]
    BY <1>2, <1>3, <1>6 DEF TypeOK
  <2>2. TypeOK'
    BY <1>2, <1>4, <1>6 DEF TypeOK
  <2>3. RolesOK'
    BY <1>1, <1>2, <1>4, <1>6, <2>1 DEF RolesOK, Busy
  <2>4. \A g \in Handler : /\ Engaged(g)' => Engaged(g)
                           /\ \A s \in Requester : Waits(s, g)' = Waits(s, g)
    BY <1>1, <1>3, <1>4, <1>6, <2>1 DEF Engaged, Waits
  <2>5. \A g \in Handler : Asked(g)' /\ Taken(g)' /\ Answering(g)'
    <3> SUFFICES ASSUME NEW g \in Handler PROVE Asked(g)' /\ Taken(g)' /\ Answering(g)'
      OBVIOUS
    <3>1. Asked(g) /\ Taken(g) /\ Answering(g)
      BY DEF MailInv
    <3>2. pc'[g] # "receive" => pc'[g] = pc[g]
      BY <1>1, <2>1
    <3> QED
      BY <1>4, <1>6, <2>4, <3>1, <3>2 DEF Asked, Taken, Answering
  <2>6. \A s \in Requester : Answered(s)'
    <3> SUFFICES ASSUME NEW s \in Requester, sem_recv[s] = 1 PROVE Answered(s)'
      BY <1>4 DEF Answered
    <3>1. Answered(s) /\ pc[s] = "receive" /\ out[s].to \in Handler /\ pc'[s] = pc[s]
      BY <1>1, <1>2, <1>3, <2>1 DEF MailInv, Answered, RolesOK, Busy
    <3> QED
      BY <1>4, <1>6, <2>4, <3>1 DEF Answered, Engaged
  <2>7. PingSeen'
    <3>1. \A g \in Handler : pc'[g] = "send" => pc[g] = "send"
      BY <1>1, <2>1
    <3>2. \A s \in Requester : pc'[s] = pc[s]
      BY <1>1, <1>3, <2>1
    <3> QED
      BY <1>2, <1>4, <1>6, <3>1, <3>2 DEF PingSeen, Busy
  <2> QED
    BY <2>2, <2>3, <2>5, <2>6, <2>7 DEF MailInv
<1>7. CASE /\ taken[h].op # "put"
           /\ out' = [out EXCEPT ![h] = [to |-> sender[h], msg |-> Reply(h, up[h])]]
           /\ pc' = [pc EXCEPT ![h] = "send"]
  <2> DEFINE r == sender[h]
  <2>1. /\ r \in Requester /\ pc[r] = "receive" /\ out[r].to = h /\ sem_recv[r] = 0 /\ sem_recv[h] = 0
    BY <1>3, <1>5, <1>7 DEF Taken, Waits
  <2>2. pc'[h] = "send" /\ \A t \in Thread : t # h => pc'[t] = pc[t]
    BY <1>2, <1>3, <1>7 DEF TypeOK
  <2>3. /\ Reply(h, up[h]) \in Replies /\ Reply(h, up[h]).by = h /\ Reply(h, up[h]).alive = up[h]
    BY <1>3, MessageOps
  <2>4. /\ out' \in [Thread -> [to : Thread \cup {Nobody}, msg : Message \cup {NoMsg}]]
        /\ out'[h].to = r /\ out'[h].msg = Reply(h, up[h])
        /\ \A t \in Thread : t # h => out'[t] = out[t]
    BY <1>1, <1>2, <1>3, <1>7, <2>1, <2>3 DEF TypeOK, Message
  <2>5. TypeOK'
    BY <1>2, <1>4, <1>7, <2>4 DEF TypeOK
  <2>6. RolesOK'
    <3>1. ASSUME NEW s \in Requester
          PROVE  /\ pc'[s] \in {"idle", "send", "receive"}
                 /\ Busy(s)' => out'[s].to \in Handler /\ out'[s].msg \in Requests
                 /\ pc'[s] = "receive" => out'[s].msg.op # "put"
      BY <1>1, <1>2, <2>2, <2>4 DEF RolesOK, Busy
    <3>2. ASSUME NEW g \in Handler
          PROVE  /\ pc'[g] \in {"receive", "handle", "send", "exit", "gone"}
                 /\ sem_recv'[g] = 1 => data'[g] \in Requests
                 /\ pc'[g] = "handle" => taken'[g] \in Requests
                 /\ pc'[g] = "send" => out'[g].msg \in Replies
      BY <1>1, <1>2, <1>4, <2>2, <2>3, <2>4 DEF RolesOK
    <3> QED
      BY <3>1, <3>2 DEF RolesOK
  <2>7. \A g \in Handler : /\ Engaged(g)' = Engaged(g)
                           /\ \A s \in Requester : Waits(s, g)' = Waits(s, g)
    <3>1. Engaged(h)' = Engaged(h)
      BY <1>3, <1>7, <2>2 DEF Engaged
    <3>2. \A g \in Handler : g # h => Engaged(g)' = Engaged(g)
      BY <1>1, <1>4, <2>2 DEF Engaged
    <3>3. \A g \in Handler, s \in Requester : Waits(s, g)' = Waits(s, g)
      BY <1>1, <1>3, <2>2, <2>4 DEF Waits
    <3> QED
      BY <3>1, <3>2, <3>3
  <2>8. \A g \in Handler : Asked(g)' /\ Taken(g)' /\ Answering(g)'
    <3> SUFFICES ASSUME NEW g \in Handler PROVE Asked(g)' /\ Taken(g)' /\ Answering(g)'
      OBVIOUS
    <3>1. Asked(g) /\ Taken(g) /\ Answering(g)
      BY DEF MailInv
    <3>2. CASE g = h
      <4>1. Asked(g)' /\ Taken(g)'
        BY <1>4, <2>1, <2>2, <3>2 DEF Asked, Taken
      <4>2. pc'[r] = "receive" /\ out'[r].to = h
        BY <1>1, <1>3, <2>1, <2>2, <2>4
      <4>3. Answering(g)'
        BY <1>4, <2>1, <2>2, <2>3, <2>4, <3>2, <4>2 DEF Answering, Waits
      <4> QED
        BY <4>1, <4>3
    <3>3. CASE g # h
      <4>1. pc'[g] = pc[g] /\ out'[g] = out[g]
        BY <1>1, <2>2, <2>4, <3>3
      <4> QED
        BY <1>4, <2>7, <3>1, <4>1 DEF Asked, Taken, Answering
    <3> QED
      BY <3>2, <3>3
  <2>9. \A s \in Requester : Answered(s)'
    <3> SUFFICES ASSUME NEW s \in Requester, sem_recv[s] = 1 PROVE Answered(s)'
      BY <1>4 DEF Answered
    <3>1. /\ Answered(s) /\ pc[s] = "receive" /\ out[s].to \in Handler
          /\ pc'[s] = pc[s] /\ out'[s] = out[s]
      BY <1>1, <1>2, <1>3, <2>2, <2>4 DEF MailInv, Answered, RolesOK, Busy
    <3> QED
      BY <1>4, <2>7, <3>1 DEF Answered, Engaged
  <2>10. PingSeen'
    <3>1. \A s \in Requester : pc'[s] = pc[s] /\ out'[s] = out[s]
      BY <1>1, <1>3, <2>2, <2>4
    <3>2. asked[r] # Nobody => up[h] \in seen[r]
      BY <1>2, <2>1 DEF PingSeen
    <3>3. ASSUME NEW g \in Handler, pc'[g] = "send", asked[out'[g].to] # Nobody
          PROVE  out'[g].msg.alive \in seen[out'[g].to]
      <4>1. CASE g = h
        BY <2>3, <2>4, <3>2, <3>3, <4>1
      <4>2. CASE g # h
        BY <1>1, <1>2, <2>2, <2>4, <3>3, <4>2 DEF PingSeen
      <4> QED
        BY <4>1, <4>2
    <3> QED
      BY <1>2, <1>4, <3>1, <3>3 DEF PingSeen, Busy
  <2> QED
    BY <2>5, <2>6, <2>8, <2>9, <2>10 DEF MailInv
<1> QED
  BY <1>3, <1>6, <1>7 DEF Handle, Goto, Alive

\* A handler that ends had answered.
LEMMA ExitKeeps ==
  ASSUME MailInv, NEW h \in Handler, Exit(h)
  PROVE  MailInv'
<1>1. /\ Requester \subseteq Thread /\ Handler \subseteq Thread /\ Requester \cap Handler = {}
  BY MailboxAssumption DEF Thread
<1>2. TypeOK /\ RolesOK /\ PingSeen
  BY DEF MailInv
<1>3. /\ pc[h] = "exit" /\ h \in Thread /\ pc' = [pc EXCEPT ![h] = "gone"]
      /\ UNCHANGED <<sem_send, sem_recv, sender, data, taken, out, up, asked, seen, answer>>
  BY <1>1 DEF Exit, Goto, boxVars, pingVars
<1>4. pc'[h] = "gone" /\ \A t \in Thread : t # h => pc'[t] = pc[t]
  BY <1>2, <1>3 DEF TypeOK
<1>5. TypeOK'
  BY <1>2, <1>3 DEF TypeOK
<1>6. RolesOK'
  BY <1>1, <1>2, <1>3, <1>4 DEF RolesOK, Busy
<1>7. \A g \in Handler : /\ Engaged(g)' = Engaged(g)
                         /\ \A s \in Requester : Waits(s, g)' = Waits(s, g)
  BY <1>1, <1>3, <1>4 DEF Engaged, Waits
<1>8. \A g \in Handler : Asked(g)' /\ Taken(g)' /\ Answering(g)'
  <2> SUFFICES ASSUME NEW g \in Handler PROVE Asked(g)' /\ Taken(g)' /\ Answering(g)'
    OBVIOUS
  <2>1. Asked(g) /\ Taken(g) /\ Answering(g)
    BY DEF MailInv
  <2>2. pc'[g] # "gone" => pc'[g] = pc[g]
    BY <1>1, <1>4
  <2> QED
    BY <1>3, <1>7, <2>1, <2>2 DEF Asked, Taken, Answering
<1>9. \A s \in Requester : Answered(s)'
  <2> SUFFICES ASSUME NEW s \in Requester, sem_recv[s] = 1 PROVE Answered(s)'
    BY <1>3 DEF Answered
  <2>1. Answered(s) /\ pc[s] = "receive" /\ out[s].to \in Handler /\ pc'[s] = pc[s]
    BY <1>1, <1>2, <1>3, <1>4 DEF MailInv, Answered, RolesOK, Busy
  <2> QED
    BY <1>3, <1>7, <2>1 DEF Answered, Engaged
<1>10. PingSeen'
  <2>1. \A g \in Handler : pc'[g] = "send" => pc[g] = "send"
    BY <1>1, <1>4
  <2>2. \A s \in Requester : pc'[s] = pc[s]
    BY <1>1, <1>3, <1>4
  <2> QED
    BY <1>2, <1>3, <2>1, <2>2 DEF PingSeen, Busy
<1> QED
  BY <1>5, <1>6, <1>8, <1>9, <1>10 DEF MailInv

\* Who asked about a connection that is lost has then seen both states of it.
LEMMA DropKeeps ==
  ASSUME MailInv, NEW h \in Handler, Drop(h)
  PROVE  MailInv'
<1>1. TypeOK /\ RolesOK /\ PingSeen
  BY DEF MailInv
<1>2. /\ up' = [up EXCEPT ![h] = FALSE]
      /\ seen' = [r \in Requester |-> IF asked[r] = h THEN seen[r] \cup {FALSE} ELSE seen[r]]
      /\ UNCHANGED <<sem_send, sem_recv, sender, data, pc, taken, out, asked, answer>>
  BY DEF Drop, boxVars
<1>3. TypeOK'
  <2>1. seen' \in [Requester -> SUBSET BOOLEAN]
    BY <1>1, <1>2 DEF TypeOK
  <2>2. up' \in [Handler -> BOOLEAN]
    BY <1>1, <1>2 DEF TypeOK
  <2> QED
    BY <1>1, <1>2, <2>1, <2>2 DEF TypeOK
<1>4. RolesOK' /\ \A g \in Handler : Asked(g)' /\ Taken(g)' /\ Answering(g)'
  BY <1>1, <1>2 DEF MailInv, RolesOK, Busy, Asked, Taken, Answering, Waits, Engaged
<1>5. \A s \in Requester : Answered(s)'
  BY <1>2 DEF MailInv, Answered, Engaged
<1>6. \A s \in Requester : seen[s] \subseteq seen'[s] /\ (asked[s] = h => FALSE \in seen'[s])
  BY <1>2
<1>7. PingSeen'
  <2>1. ASSUME NEW s \in Requester
        PROVE  /\ asked'[s] # Nobody => /\ Busy(s)' /\ asked'[s] = out'[s].to /\ out'[s].msg.op = "ping"
                                       /\ up'[asked'[s]] \in seen'[s]
               /\ asked'[s] # Nobody /\ sem_recv'[s] = 1 => data'[s].alive \in seen'[s]
    <3>1. asked[s] # Nobody => asked[s] \in Handler
      BY <1>1 DEF TypeOK
    <3>2. asked[s] # Nobody => up'[asked[s]] \in seen'[s]
      <4>1. CASE asked[s] = h
        BY <1>1, <1>2, <1>6, <4>1 DEF TypeOK
      <4>2. CASE asked[s] # h
        BY <1>1, <1>2, <1>6, <3>1, <4>2 DEF PingSeen, TypeOK
      <4> QED
        BY <4>1, <4>2
    <3> QED
      BY <1>1, <1>2, <1>6, <3>2 DEF PingSeen, Busy
  <2>2. ASSUME NEW g \in Handler, pc[g] = "send"
        PROVE  out[g].to \in Requester
    BY <2>2 DEF MailInv, Answering
  <2> QED
    BY <1>1, <1>2, <1>6, <2>1, <2>2 DEF PingSeen
<1> QED
  BY <1>3, <1>4, <1>5, <1>7 DEF MailInv

\* Every step keeps the invariant.
LEMMA MailNext == MailInv /\ Turns /\ [Next]_vars => MailInv'
<1> SUFFICES ASSUME MailInv, Turns, [Next]_vars PROVE MailInv'
  OBVIOUS
<1>1. CASE UNCHANGED vars
  BY <1>1 DEF vars, boxVars, pingVars, MailInv, TypeOK, RolesOK, Busy, Asked, Taken, Answering,
     Answered, PingSeen, Waits, Engaged
<1>2. CASE Next
  BY <1>2, AskKeeps, RequestKeeps, AnswerKeeps, TakeAnswerKeeps, TakeRequestKeeps, HandleKeeps,
     ExitKeeps, DropKeeps DEF Next, Thread
<1> QED
  BY <1>1, <1>2

\* While threads take turns at each node, a request and its answer are in one
\* place, and sender is the thread that waits for it.
THEOREM MailInvariant == Spec /\ []Turns => []MailInv
<1>1. Init => MailInv
  BY MailInit
<1>2. MailInv /\ Turns /\ [Next]_vars => MailInv'
  BY MailNext
<1> QED
  BY <1>1, <1>2, PTL DEF Spec

\* An answer in a requester's mailbox comes from the node it asked, while it
\* waits for it, for any threads and nodes: thread_respond answers the right
\* thread although it reads sender some steps after thread_receive.
THEOREM AnswersAreTheAsked == Spec /\ []Turns => []AnswerIsItsOwn
<1>1. MailInv => AnswerIsItsOwn
  <2> SUFFICES ASSUME MailInv, NEW r \in Requester, sem_recv[r] > 0
               PROVE  pc[r] = "receive" /\ data[r].by = out[r].to
    BY DEF AnswerIsItsOwn
  <2>1. r \in Thread /\ TypeOK /\ Answered(r)
    BY DEF Thread, MailInv
  <2>2. sem_recv[r] = 1
    BY <2>1 DEF TypeOK
  <2> QED
    BY <2>1, <2>2 DEF Answered
<1> QED
  BY <1>1, MailInvariant, PTL

\* node_active implements NodePing: what it returns was true of the connection
\* of the node it asked about, at some moment since it asked.
THEOREM PingsImplement == Spec /\ []Turns => PingsAnswerTruly
<1>1. Init => AnswersAreTrue!Init
  BY DEF Init, AnswersAreTrue!Init
<1>2. MailInv /\ [Next]_vars => [AnswersAreTrue!Next]_(AnswersAreTrue!pingVars)
  <2> SUFFICES ASSUME MailInv, [Next]_vars
               PROVE  [AnswersAreTrue!Next]_(AnswersAreTrue!pingVars)
    OBVIOUS
  <2> USE DEF AnswersAreTrue!pingVars
  <2>1. TypeOK /\ RolesOK /\ PingSeen
    BY DEF MailInv
  <2>2. CASE UNCHANGED <<up, pingVars>>
    BY <2>2 DEF pingVars
  <2>3. ASSUME NEW r \in Requester, NEW h \in Handler, NEW op \in Kinds, Ask(r, h, op)
        PROVE  [AnswersAreTrue!Next]_(AnswersAreTrue!pingVars)
    <3>1. CASE op = "ping"
      <4>1. pc[r] = "idle" /\ asked[r] = Nobody
        BY <2>1, <2>3 DEF Ask, PingSeen, Busy
      <4>2. AnswersAreTrue!Ask(r, h)
        BY <2>3, <3>1, <4>1 DEF Ask, AnswersAreTrue!Ask
      <4> QED
        BY <4>2 DEF AnswersAreTrue!Next
    <3>2. CASE op # "ping"
      BY <2>3, <3>2 DEF Ask
    <3> QED
      BY <3>1, <3>2
  <2>4. ASSUME NEW t \in Thread, Receive(t)
        PROVE  [AnswersAreTrue!Next]_(AnswersAreTrue!pingVars)
    <3>1. CASE t \in Handler \/ asked[t] = Nobody
      BY <2>4, <3>1 DEF Receive, pingVars
    <3>2. CASE t \notin Handler /\ asked[t] # Nobody
      <4>1. t \in Requester
        BY <3>2 DEF Thread
      <4>2. sem_recv[t] = 1
        BY <2>1, <2>4 DEF Receive, TypeOK
      <4>3. data[t].alive \in seen[t]
        BY <2>1, <3>2, <4>1, <4>2 DEF PingSeen
      <4>4. AnswersAreTrue!Answer(t)
        BY <2>4, <3>2, <4>3 DEF Receive, AnswersAreTrue!Answer
      <4> QED
        BY <4>1, <4>4 DEF AnswersAreTrue!Next
    <3> QED
      BY <3>1, <3>2
  <2>5. ASSUME NEW h \in Handler, Drop(h)
        PROVE  [AnswersAreTrue!Next]_(AnswersAreTrue!pingVars)
    <3>1. AnswersAreTrue!Lose(h)
      BY <2>5 DEF Drop, AnswersAreTrue!Lose
    <3> QED
      BY <3>1 DEF AnswersAreTrue!Next
  <2>6. CASE UNCHANGED vars
    BY <2>2, <2>6 DEF vars, pingVars
  <2>7. ASSUME NEW t \in Thread, Send(t)
        PROVE  UNCHANGED <<up, pingVars>>
    BY <2>7 DEF Send
  <2>8. ASSUME NEW h \in Handler, Handle(h) \/ Exit(h)
        PROVE  UNCHANGED <<up, pingVars>>
    BY <2>8 DEF Handle, Exit
  <2> QED
    BY <2>2, <2>3, <2>4, <2>5, <2>6, <2>7, <2>8 DEF Next
<1> QED
  BY <1>1, <1>2, MailInvariant, PTL DEF Spec, PingsAnswerTruly, AnswersAreTrue!Spec
=============================================================================
