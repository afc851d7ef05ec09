------------------------------ MODULE NodePing ------------------------------
(***************************************************************************)
(* What node_active (nodelist.c) promises: a thread that asks whether a    *)
(* node is active gets an answer that was true of the node's connection at *)
(* some moment between the question and the answer.  Module BlockStore     *)
(* takes an exchange for one step on the strength of this.                 *)
(***************************************************************************)
CONSTANTS Requester, Handler, Nobody

VARIABLES
  up,      \* up[h]: the connection h serves works
  asked,   \* asked[r]: whom r is asking, if anyone
  seen,    \* seen[r]: what up[asked[r]] has been since r asked
  answer   \* answer[r]: the last answer r got

pingVars == <<up, asked, seen, answer>>

Init ==
  /\ up = [h \in Handler |-> TRUE]
  /\ asked = [r \in Requester |-> Nobody]
  /\ seen = [r \in Requester |-> {}]
  /\ answer = [r \in Requester |-> TRUE]

Ask(r, h) ==
  /\ asked[r] = Nobody
  /\ asked' = [asked EXCEPT ![r] = h]
  /\ seen' = [seen EXCEPT ![r] = {up[h]}]
  /\ UNCHANGED <<up, answer>>

Answer(r) ==
  /\ asked[r] # Nobody
  /\ \E v \in seen[r] : answer' = [answer EXCEPT ![r] = v]
  /\ asked' = [asked EXCEPT ![r] = Nobody]
  /\ seen' = [seen EXCEPT ![r] = {}]
  /\ UNCHANGED up

Lose(h) ==
  /\ up[h] /\ up' = [up EXCEPT ![h] = FALSE]
  /\ seen' = [r \in Requester |-> IF asked[r] = h THEN seen[r] \cup {FALSE} ELSE seen[r]]
  /\ UNCHANGED <<asked, answer>>

Next ==
  \/ \E r \in Requester, h \in Handler : Ask(r, h)
  \/ \E r \in Requester : Answer(r)
  \/ \E h \in Handler : Lose(h)

Spec == Init /\ [][Next]_pingVars
=============================================================================
