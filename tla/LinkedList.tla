----------------------------- MODULE LinkedList ------------------------------
(***************************************************************************)
(* mlist_t, the doubly linked list every process keeps its tables in       *)
(* (mlist.c), used by one thread at a time.                                *)
(*                                                                         *)
(* A cell is a natural number, 0 is NULL.  A search condition is the set   *)
(* of the elements it holds for.  mlist_sort relinks the list forwards     *)
(* only, and keeps the last cell and the links backwards of before: a      *)
(* sorted list is only read forwards, as all of its users do, unless       *)
(* AnyAfterSort.                                                           *)
(***************************************************************************)
EXTENDS Integers, Sequences, SequencesExt, FiniteSets

CONSTANTS
  Elem, Key,    \* elements, and what sorting compares of them
  MaxCells,     \* bound: cells
  AnyAfterSort, \* a sorted list may be used like any other
  None

VARIABLES
  list,         \* the list: head, tail, length, and the cells' fields
  sorted,       \* it has been sorted
  result        \* the answer of the last call, <<>> for NULL

vars == <<list, sorted, result>>

Cell == 1 .. MaxCells
NULL == 0
Position == -1 .. MaxCells
-----------------------------------------------------------------------------
(* The cells of a list.                                                     *)

\* The cells met from c on, by next or by prev; no more than there are.
Chain(link, c) ==
  LET follow[left \in 0 .. MaxCells, from \in Cell \cup {NULL}] ==
        IF from = NULL \/ left = 0 THEN <<>> ELSE <<from>> \o follow[left - 1, link[from]]
  IN  follow[MaxCells, c]
Forward(l) == Chain(l.next, l.head)
Backward(l) == Chain(l.prev, l.tail)
Elems(l, cells) == [k \in DOMAIN cells |-> l.elem[cells[k]]]
Content(l) == Elems(l, Forward(l))

\* mlist_create.
Empty ==
  [head |-> NULL, tail |-> NULL, length |-> 0, next |-> [c \in Cell |-> NULL],
   prev |-> [c \in Cell |-> NULL], elem |-> [c \in Cell |-> None]]

\* create_node: malloc, of a cell that is not in use.
Fresh(l) == CHOOSE c \in Cell : l.elem[c] = None /\ \A d \in 1 .. c - 1 : l.elem[d] # None

InsertBefore_M(l, base, e) ==
  LET new == Fresh(l) before == l.prev[base] IN
  [l EXCEPT !.elem[new] = e, !.length = @ + 1, !.head = IF before = NULL THEN new ELSE @,
            !.next = [c \in Cell |-> IF c = new THEN base ELSE IF c = before THEN new ELSE @[c]],
            !.prev[new] = before]
\* insert_before, where the list is not empty.
InsertBefore(l, base, e) ==
  LET new == Fresh(l) before == l.prev[base] IN
  [l EXCEPT !.elem[new] = e, !.length = @ + 1, !.head = IF before = NULL THEN new ELSE @,
            !.next = [c \in Cell |-> IF c = new THEN base ELSE IF c = before THEN new ELSE @[c]],
            !.prev = [c \in Cell |-> IF c = new THEN before ELSE IF c = base THEN new ELSE @[c]]]

\* insert_after the last cell.
InsertLast(l, e) ==
  LET new == Fresh(l) IN
  IF l.length = 0
  THEN [l EXCEPT !.elem[new] = e, !.length = 1, !.head = new, !.tail = new]
  ELSE LET after == l.next[l.tail] IN
       [l EXCEPT !.elem[new] = e, !.length = @ + 1, !.tail = IF after = NULL THEN new ELSE @,
                 !.next = [c \in Cell |-> IF c = new THEN after ELSE IF c = l.tail THEN new ELSE @[c]],
                 !.prev = [c \in Cell |-> IF c = new THEN l.tail ELSE IF c = after THEN new ELSE @[c]]]

\* get_node: from the nearer end.
GetNode(l, i) ==
  IF i \notin 0 .. l.length - 1 THEN NULL
  ELSE IF i <= l.length \div 2 THEN Forward(l)[i + 1] ELSE Backward(l)[l.length - i]

\* remove_node: unlink and free.
RemoveNode(l, c) ==
  LET before == l.prev[c] after == l.next[c] IN
  [l EXCEPT !.head = IF c = @ THEN after ELSE @, !.tail = IF c = @ THEN before ELSE @,
            !.length = @ - 1,
            !.next = [d \in Cell |-> IF d = before THEN after ELSE IF d = c THEN NULL ELSE @[d]],
            !.prev = [d \in Cell |-> IF d = after THEN before ELSE IF d = c THEN NULL ELSE @[d]],
            !.elem[c] = None]

\* mlist_append, for each of these elements.
AppendAll(l, elems) == FoldLeft(InsertLast, l, elems)
-----------------------------------------------------------------------------
(* mlist_sort: merge sort of the cells.                                     *)

First(l, a, b, forward) == (Key[l.elem[a]] <= Key[l.elem[b]]) = forward
\* merge_nodes.
Merged(l, a, b, forward) ==
  LET merge[s \in Seq(Cell), t \in Seq(Cell)] ==
        IF s = <<>> THEN t
        ELSE IF t = <<>> THEN s
        ELSE IF First(l, Head(s), Head(t), forward) THEN <<Head(s)>> \o merge[Tail(s), t]
        ELSE <<Head(t)>> \o merge[s, Tail(t)]
  IN  merge[a, b]
\* sort_nodes; split_nodes leaves the middle one in front.
SortedCells(l, cells, forward) ==
  LET sort[s \in Seq(Cell)] ==
        IF Len(s) <= 1 THEN s
        ELSE LET half == (Len(s) + 1) \div 2
             IN  Merged(l, sort[SubSeq(s, 1, half)], sort[SubSeq(s, half + 1, Len(s))], forward)
  IN  sort[cells]
\* Only the first cell and the links forwards follow the new order.
Relinked(l, cells) ==
  [l EXCEPT !.head = IF cells = <<>> THEN NULL ELSE cells[1],
            !.next = [c \in Cell |->
              IF c \notin Range(cells) THEN @[c]
              ELSE LET k == CHOOSE k \in DOMAIN cells : cells[k] = c
                   IN  IF k = Len(cells) THEN NULL ELSE cells[k + 1]]]
-----------------------------------------------------------------------------
Init == list = Empty /\ sorted = FALSE /\ result = <<>>

Returns(value) == result' = value /\ UNCHANGED sorted
Builds(l) == list' = l /\ sorted' = FALSE /\ result' = <<>>
Free == AnyAfterSort \/ ~sorted
Room == list.length < MaxCells

\* mlist_insert, and mlist_append at the end.
Insert(i, e) ==
  /\ Free /\ Room /\ Returns(<<>>)
  /\ list' = IF i \notin 0 .. list.length THEN list
             ELSE IF i = list.length THEN InsertLast(list, e)
             ELSE InsertBefore(list, IF i = 0 THEN list.head ELSE GetNode(list, i), e)

Pop(i) ==
  LET c == GetNode(list, i) IN
  /\ Free
  /\ IF c = NULL THEN UNCHANGED list /\ Returns(<<>>)
     ELSE list' = RemoveNode(list, c) /\ Returns(<<list.elem[c]>>)

Replace(i, e) ==
  LET c == GetNode(list, i) IN
  /\ Free
  /\ IF c = NULL THEN UNCHANGED list /\ Returns(<<>>)
     ELSE list' = [list EXCEPT !.elem[c] = e] /\ Returns(<<list.elem[c]>>)

Get(i) ==
  LET c == GetNode(list, i) IN
  /\ Free /\ UNCHANGED list
  /\ Returns(IF c = NULL THEN <<>> ELSE <<list.elem[c]>>)

\* mlist_remove: traverse_nodes with remove_node, the next cell read before.
RemoveIf(S) ==
  LET gone == SelectSeq(Forward(list), LAMBDA c : list.elem[c] \in S) IN
  /\ Free
  /\ list' = FoldLeft(RemoveNode, list, gone)
  /\ Returns(IF gone = <<>> THEN <<>> ELSE <<list.elem[Last(gone)]>>)

\* mlist_index, find, contains, any, all, count, reduce, traverse.
Look(S) ==
  LET elems == Content(list)
      index == SelectInSeq(elems, LAMBDA e : e \in S)
  IN
  /\ UNCHANGED list
  /\ Returns(<<index - 1, Len(SelectSeq(elems, LAMBDA e : e \in S))>>)

\* mlist_filter, copy, clone, map: a list of its own, which is used instead; S
\* is empty for mlist_clear.
Filter(S) == Builds(AppendAll(Empty, SelectSeq(Content(list), LAMBDA e : e \in S)))
\* mlist_reverse.
Turn == Free /\ Builds(AppendAll(Empty, Elems(list, Backward(list))))
\* mlist_extend with a copy.
Extend ==
  /\ Free /\ 2 * list.length <= MaxCells
  /\ list' = AppendAll(list, Content(list)) /\ Returns(<<>>)
\* mlist_sort and mlist_rsort.
Sort(forward) ==
  /\ Free
  /\ list' = Relinked(list, SortedCells(list, Forward(list), forward))
  /\ sorted' = TRUE /\ result' = <<>>

Next ==
  \/ \E i \in Position, e \in Elem : Insert(i, e) \/ Replace(i, e)
  \/ \E i \in Position : Pop(i) \/ Get(i)
  \/ \E S \in SUBSET Elem : RemoveIf(S) \/ Look(S) \/ Filter(S)
  \/ Turn \/ Extend \/ \E forward \in BOOLEAN : Sort(forward)

Spec == Init /\ [][Next]_vars
-----------------------------------------------------------------------------
\* The linked cells are one sequence whichever end a call begins from: every
\* call changes it and answers as the abstract list does, after any calls
\* before it (get_node, insert_before, remove_node, sort_nodes).
Abstract == INSTANCE AbstractList WITH seq <- Content(list)
ImplementsList == Abstract!Spec
=============================================================================
