--------------------------- MODULE SelectorQueue ---------------------------
(***************************************************************************)
(* The links of the ready queue (ext/io/event/selector/selector.c): a       *)
(* doubly linked list with a pointer to each end, into which nodes are      *)
(* pushed at one end and from which any node can be removed.  `queue` is    *)
(* the sequence of nodes ReadyQueue works with, kept beside the pointers.   *)
(***************************************************************************)
EXTENDS Naturals, Sequences

CONSTANTS Nodes, None

ASSUME NoneAssumption == None \notin Nodes

VARIABLES
    waiting,   \* backend->waiting: the node pushed last
    ready,     \* backend->ready: the node pushed first
    head,      \* node->head: the node pushed after it
    tail,      \* node->tail: the node pushed before it
    queue      \* history: the nodes from ready to waiting

vars == <<waiting, ready, head, tail, queue>>

TypeOK ==
    /\ waiting \in Nodes \cup {None}
    /\ ready \in Nodes \cup {None}
    /\ head \in [Nodes -> Nodes \cup {None}]
    /\ tail \in [Nodes -> Nodes \cup {None}]
    /\ queue \in Seq(Nodes)

\* IO_Event_Selector_initialize; a new node has no links.
Init ==
    /\ waiting = None
    /\ ready = None
    /\ head = [n \in Nodes |-> None]
    /\ tail = [n \in Nodes |-> None]
    /\ queue = <<>>

\* queue_push of a node that is not queued.
Push(n) ==
    /\ \A i \in 1..Len(queue) : queue[i] # n
    /\ IF waiting # None
       THEN /\ head' = [head EXCEPT ![waiting] = n]
            /\ tail' = [tail EXCEPT ![n] = waiting]
            /\ UNCHANGED ready
       ELSE /\ ready' = n
            /\ UNCHANGED <<head, tail>>
    /\ waiting' = n
    /\ queue' = Append(queue, n)

\* Mutant: `ready` is not moved when the first node is removed.
PopKeepsReady(i) ==
    LET n == queue[i]
    IN  /\ head' = [m \in Nodes |-> IF m = n THEN None
                                    ELSE IF m = tail[n] THEN head[n] ELSE head[m]]
        /\ tail' = [m \in Nodes |-> IF m = n THEN None
                                    ELSE IF m = head[n] THEN tail[n] ELSE tail[m]]
        /\ waiting' = IF head[n] = None THEN tail[n] ELSE waiting
        /\ UNCHANGED ready
        /\ queue' = [j \in 1..(Len(queue) - 1) |-> IF j < i THEN queue[j] ELSE queue[j + 1]]

\* queue_pop of the i-th node.
Pop(i) ==
    LET n == queue[i]
    IN  /\ head' = [m \in Nodes |-> IF m = n THEN None
                                    ELSE IF m = tail[n] THEN head[n] ELSE head[m]]
        /\ tail' = [m \in Nodes |-> IF m = n THEN None
                                    ELSE IF m = head[n] THEN tail[n] ELSE tail[m]]
        /\ waiting' = IF head[n] = None THEN tail[n] ELSE waiting
        /\ ready' = IF tail[n] = None THEN head[n] ELSE ready
        /\ queue' = [j \in 1..(Len(queue) - 1) |-> IF j < i THEN queue[j] ELSE queue[j + 1]]

Next == (\E n \in Nodes : Push(n)) \/ (\E i \in 1..Len(queue) : Pop(i))

Spec == Init /\ [][Next]_vars

-----------------------------------------------------------------------------

\* The node at position i, NULL beyond the ends.
At(i) == IF i \in 1..Len(queue) THEN queue[i] ELSE None

\* The links are those of the sequence: walking head from ready, as the flush and
\* the garbage collector's mark do, visits every node once and in push order,
\* and both end pointers are exact after any removal.
Linked ==
    /\ ready = At(1)
    /\ waiting = At(Len(queue))
    /\ \A i \in 1..Len(queue) : head[queue[i]] = At(i + 1) /\ tail[queue[i]] = At(i - 1)
    /\ \A i, j \in 1..Len(queue) : queue[i] = queue[j] => i = j

\* A node that is not queued has no links, as queue_push asserts.
Unlinked ==
    \A n \in Nodes : (\A i \in 1..Len(queue) : queue[i] # n) => head[n] = None /\ tail[n] = None

\* The links and end pointers are exact, for the nodes in the queue and for the others.
LinksExact == Linked /\ Unlinked

=============================================================================
