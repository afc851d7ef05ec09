---------------------------- MODULE AbstractList -----------------------------
(* What a mlist_t promises: a sequence and the answer of the last call.     *)
(* Positions count from 0; an answer is a sequence, empty for NULL.         *)
EXTENDS Integers, Sequences, SequencesExt, FiniteSets

CONSTANTS Elem, Key, Position

VARIABLES seq, result

At(i) == seq[i + 1]
Valid(i) == i \in 0 .. Len(seq) - 1
Ordered(s, forward) ==
  \A i, j \in DOMAIN s : i < j => IF forward THEN Key[s[i]] <= Key[s[j]] ELSE Key[s[i]] >= Key[s[j]]
SamePlaces(s, t) == \A e \in Elem : Cardinality({i \in DOMAIN s : s[i] = e}) = Cardinality({i \in DOMAIN t : t[i] = e})

Insert(i, e) ==
  /\ seq' = IF i \in 0 .. Len(seq) THEN InsertAt(seq, i + 1, e) ELSE seq
  /\ result' = <<>>
Pop(i) ==
  IF Valid(i) THEN seq' = RemoveAt(seq, i + 1) /\ result' = <<At(i)>>
  ELSE UNCHANGED seq /\ result' = <<>>
Replace(i, e) ==
  IF Valid(i) THEN seq' = [seq EXCEPT ![i + 1] = e] /\ result' = <<At(i)>>
  ELSE UNCHANGED seq /\ result' = <<>>
Get(i) == UNCHANGED seq /\ result' = IF Valid(i) THEN <<At(i)>> ELSE <<>>

\* Removes what is in S and returns the last of it.
RemoveIf(S) ==
  LET gone == SelectSeq(seq, LAMBDA e : e \in S) IN
  /\ seq' = SelectSeq(seq, LAMBDA e : e \notin S)
  /\ result' = IF gone = <<>> THEN <<>> ELSE <<Last(gone)>>
Look(S) ==
  /\ UNCHANGED seq
  /\ result' = <<SelectInSeq(seq, LAMBDA e : e \in S) - 1,
                Len(SelectSeq(seq, LAMBDA e : e \in S))>>
Filter(S) == seq' = SelectSeq(seq, LAMBDA e : e \in S) /\ result' = <<>>
Turn == seq' = Reverse(seq) /\ result' = <<>>
Extend == seq' = seq \o seq /\ result' = <<>>
Sort(forward) ==
  /\ Ordered(seq', forward) /\ SamePlaces(seq, seq')
  /\ result' = <<>>

Init == seq = <<>> /\ result = <<>>
Next ==
  \/ \E i \in Position, e \in Elem : Insert(i, e) \/ Replace(i, e)
  \/ \E i \in Position : Pop(i) \/ Get(i)
  \/ \E S \in SUBSET Elem : RemoveIf(S) \/ Look(S) \/ Filter(S)
  \/ Turn \/ Extend \/ \E forward \in BOOLEAN : Sort(forward)

Spec == Init /\ [][Next]_<<seq, result>>
=============================================================================
