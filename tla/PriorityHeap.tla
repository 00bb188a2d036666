---------------------------- MODULE PriorityHeap ----------------------------
(***************************************************************************)
(* IO::Event::PriorityHeap (lib/io/event/priority_heap.rb): operations on   *)
(* the contents of a binary min-heap, a sequence of records ordered by      *)
(* their time.  Positions start at 1: the children of i are 2i and 2i + 1.  *)
(***************************************************************************)
EXTENDS Naturals, FiniteSets, Sequences, SequencesExt

Less(a, b) == a.time < b.time

Swap(s, i, j) == [s EXCEPT ![i] = s[j], ![j] = s[i]]

\* One turn of the loop of bubble_up; p holds the contents and the index.
UpStep(p) ==
    LET s == p.contents
        parent == p.index \div 2
    IN  IF p.index > 1 /\ Less(s[p.index], s[parent])
        THEN [contents |-> Swap(s, p.index, parent), index |-> parent]
        ELSE p

\* Where the loop is after each turn; it has come to its end after Len(s) of them.
UpTurns(s, i) ==
    LET turn[n \in 0 .. Len(s)] == IF n = 0 THEN [contents |-> s, index |-> i] ELSE UpStep(turn[n - 1])
    IN  turn

BubbleUp(s, i) == UpTurns(s, i)[Len(s)].contents

\* The child bubble_down compares with: the right one unless it is greater than the left.
SmallerChild(s, i) ==
    IF 2 * i + 1 > Len(s) \/ Less(s[2 * i], s[2 * i + 1]) THEN 2 * i ELSE 2 * i + 1

\* One turn of the loop of bubble_down.
DownStep(p) ==
    LET s == p.contents
        child == SmallerChild(s, p.index)
    IN  IF 2 * p.index > Len(s) \/ Less(s[p.index], s[child])
        THEN p
        ELSE [contents |-> Swap(s, p.index, child), index |-> child]

\* It ends as well: the index at least doubles.
DownTurns(s, i) ==
    LET turn[n \in 0 .. Len(s)] == IF n = 0 THEN [contents |-> s, index |-> i] ELSE DownStep(turn[n - 1])
    IN  turn

BubbleDown(s, i) == DownTurns(s, i)[Len(s)].contents

\* The turns of heapify!, from the last node that has a child to the root.
HeapifyTurns(s) ==
    LET turn[n \in 0 .. Len(s) \div 2] == IF n = 0 THEN s ELSE BubbleDown(turn[n - 1], Len(s) \div 2 + 1 - n)
    IN  turn

Heapify(s) == HeapifyTurns(s)[Len(s) \div 2]

Push(s, e) == BubbleUp(Append(s, e), Len(s) + 1)

\* The first n elements are pushed, one by one.
PushTurns(s, elements) ==
    LET turn[n \in 0 .. Len(elements)] == IF n = 0 THEN s ELSE Push(turn[n - 1], elements[n])
    IN  turn

HEAPIFY_INSERT_RATIO == 2

Concat(s, elements) ==
    IF s = <<>> \/ Len(elements) > Len(s) * HEAPIFY_INSERT_RATIO
    THEN Heapify(s \o elements)
    ELSE PushTurns(s, elements)[Len(elements)]

\* The contents after pop, which returns the root.
Pop(s) == IF Len(s) <= 1 THEN <<>> ELSE BubbleDown([Front(s) EXCEPT ![1] = Last(s)], 1)

\* Mutant: the element that fills the gap only moves down.
DeleteDown(s, i) ==
    IF i = Len(s) THEN Front(s) ELSE BubbleDown([Front(s) EXCEPT ![i] = Last(s)], i)

\* delete of the element at index i.
Delete(s, i) ==
    IF i = Len(s) THEN Front(s)
    ELSE LET filled == [Front(s) EXCEPT ![i] = Last(s)]
         IN  IF i > 1 /\ Less(filled[i], filled[i \div 2])
             THEN BubbleUp(filled, i)
             ELSE BubbleDown(filled, i)

\* s without the elements that are rejected, from the first to the n-th.
RejectTurns(s, rejected) ==
    LET turn[n \in 0 .. Len(s)] ==
            IF n = 0 THEN <<>>
            ELSE IF s[n] \in rejected THEN turn[n - 1] ELSE Append(turn[n - 1], s[n])
    IN  turn

\* reject! of delete_if and delete_if of flush!.
Reject(s, rejected) == RejectTurns(s, rejected)[Len(s)]

\* delete_if of the elements the block returns true for.
DeleteIf(s, rejected) ==
    LET kept == Reject(s, rejected)
    IN  IF Len(kept) < Len(s) THEN Heapify(kept) ELSE s

\* valid?
Valid(s) == \A i \in 2 .. Len(s) : ~ Less(s[i], s[i \div 2])

\* The elements, however they are arranged.
Elements(s) == [e \in Range(s) |-> Cardinality({i \in DOMAIN s : s[i] = e})]

=============================================================================
