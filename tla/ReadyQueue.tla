----------------------------- MODULE ReadyQueue -----------------------------
(***************************************************************************)
(* The ready queue of a selector (ext/io/event/selector/selector.c): fibers *)
(* that the event loop resumes in order, and the transfers of control       *)
(* between the loop fiber and user fibers.                                  *)
(*                                                                          *)
(* A queue node is either on the stack of the fiber that called resume,     *)
(* raise or yield (a frame, removed by that call's ensure clause) or on the *)
(* heap (pushed, removed and freed by the flush).  A fiber's frame may have *)
(* the address of an earlier one: `Slots` are the addresses it can have.    *)
(***************************************************************************)
EXTENDS Naturals, Sequences, FiniteSets

CONSTANTS
    Fibers,        \* user fibers
    Loop,          \* the loop fiber, which is the thread's main fiber
    Slots,         \* stack addresses a fiber's frame can have
    HeapNodes,     \* bound: heap nodes that can be allocated at a time
    None

AllFibers == Fibers \cup {Loop}
Frames == AllFibers \X Slots
Nodes == Frames \cup HeapNodes

ASSUME FibersAssumption == Loop \notin Fibers
ASSUME NodesAssumption ==
    /\ Slots # {}
    /\ HeapNodes \cap Frames = {}          \* no stack address is one of the heap
    /\ None \notin Nodes \cup AllFibers

VARIABLES
    queue,      \* from backend->ready to backend->waiting
    fiberOf,    \* heap node: the fiber to transfer to, None when not allocated
    frame,      \* the frame of each fiber that is inside resume, raise or yield
    where,      \* what each fiber is doing
    current,    \* the fiber that runs
    flushing,   \* the loop is inside IO_Event_Selector_ready_flush
    mark,       \* its `waiting`: the last node when the flush began
    ready,      \* its `ready`: the node processed last
    old         \* history: the nodes queued before the flush and not yet removed

vars == <<queue, fiberOf, frame, where, current, flushing, mark, ready, old>>
flushVars == <<flushing, mark, ready>>

Queued == {queue[i] : i \in 1..Len(queue)}

TypeOK ==
    /\ queue \in Seq(Nodes)
    /\ fiberOf \in [HeapNodes -> Fibers \cup {None}]
    /\ frame \in [AllFibers -> Frames \cup {None}]
    /\ where \in [AllFibers -> {"new", "running", "queued", "away", "ended"}]
    /\ current \in AllFibers
    /\ flushing \in BOOLEAN
    /\ mark \in Nodes \cup {None}
    /\ ready \in Nodes \cup {None}
    /\ old \in SUBSET Nodes

Init ==
    /\ queue = <<>>
    /\ fiberOf = [n \in HeapNodes |-> None]
    /\ frame = [x \in AllFibers |-> None]
    /\ where = [x \in AllFibers |-> IF x = Loop THEN "running" ELSE "new"]
    /\ current = Loop
    /\ flushing = FALSE
    /\ mark = None
    /\ ready = None
    /\ old = {}

\* Mutant: the neighbours are not linked to each other.
WithoutGap(s, n) == [i \in 1..Len(s) |-> IF s[i] = n THEN None ELSE s[i]]

\* queue_pop: a sequence without one of its nodes.
Without(s, n) ==
    LET i == CHOOSE i \in 1..Len(s) : s[i] = n
    IN  [j \in 1..(Len(s) - 1) |-> IF j < i THEN s[j] ELSE s[j + 1]]

\* Mutant: the ensure clause does not remove the frame.
SwitchToKeepsFrame(x, q, frames, w) ==
    /\ current' = x
    /\ where' = [w EXCEPT ![x] = "running"]
    /\ frame' = [frames EXCEPT ![x] = None]
    /\ queue' = q
    /\ old' = old \cap Queued'

\* Control passes to x, whose caller has left the queue q and the states w: a
\* fiber inside resume, raise or yield runs its ensure clause first and removes
\* its frame.
SwitchTo(x, q, frames, w) ==
    /\ current' = x
    /\ where' = [w EXCEPT ![x] = "running"]
    /\ frame' = [frames EXCEPT ![x] = None]
    /\ queue' = IF w[x] = "queued" THEN Without(q, frames[x]) ELSE q
    /\ old' = old \cap Queued'

-----------------------------------------------------------------------------

\* IO_Event_Selector_ready_push, by any fiber or by another thread with the GVL,
\* which the flush keeps from its beginning to its first transfer.
Push(f) ==
    /\ flushing => ready # None
    /\ \E n \in HeapNodes :
          /\ fiberOf[n] = None
          /\ fiberOf' = [fiberOf EXCEPT ![n] = f]
          /\ queue' = Append(queue, n)
    /\ UNCHANGED <<frame, where, current, flushVars, old>>

\* IO_Event_Selector_resume and _raise: the caller queues its frame and transfers
\* to a living fiber (for a dead or a running one the call returns at once).
Resume(x, y) ==
    /\ current = x
    /\ x = Loop => ~flushing
    /\ y # x /\ y # Loop
    /\ where[y] # "ended"
    /\ \E s \in Slots :
          SwitchTo(y, Append(queue, <<x, s>>), [frame EXCEPT ![x] = <<x, s>>],
                   [where EXCEPT ![x] = "queued"])
    /\ UNCHANGED <<fiberOf, flushVars>>

\* IO_Event_Selector_yield: resume the loop.
Yield(f) ==
    /\ current = f
    /\ \E s \in Slots :
          SwitchTo(Loop, Append(queue, <<f, s>>), [frame EXCEPT ![f] = <<f, s>>],
                   [where EXCEPT ![f] = "queued"])
    /\ UNCHANGED <<fiberOf, flushVars>>

\* IO_Event_Selector_loop_yield: wait for an event, or a bare transfer.
LoopYield(f) ==
    /\ current = f
    /\ SwitchTo(Loop, queue, frame, [where EXCEPT ![f] = "away"])
    /\ UNCHANGED <<fiberOf, flushVars>>

\* A fiber ends: CRuby returns to the main fiber.
End(f) ==
    /\ current = f
    /\ SwitchTo(Loop, queue, frame, [where EXCEPT ![f] = "ended"])
    /\ UNCHANGED <<fiberOf, flushVars>>

\* A fiber ends with an exception, which is raised in the loop and ends the flush.
Fail(f) ==
    /\ current = f
    /\ SwitchTo(Loop, queue, frame, [where EXCEPT ![f] = "ended"])
    /\ flushing' = FALSE /\ mark' = None /\ ready' = None
    /\ UNCHANGED fiberOf

-----------------------------------------------------------------------------
(***************************************************************************)
(* IO_Event_Selector_ready_flush                                            *)
(***************************************************************************)

\* A flush of an empty queue does nothing.
FlushBegin ==
    /\ current = Loop /\ ~flushing
    /\ queue # <<>>
    /\ flushing' = TRUE
    /\ mark' = queue[Len(queue)]
    /\ ready' = None
    /\ old' = Queued
    /\ UNCHANGED <<queue, fiberOf, frame, where, current>>

\* Mutants: the flush ends after one node; it ends only when the queue is empty; it
\* looks at the mark before the node is processed.
FlushDoneEarly == queue = <<>> \/ ready # None
FlushDoneLate == queue = <<>>
FlushDoneBefore == IF queue = <<>> THEN TRUE ELSE Head(queue) = mark

FlushDone == queue = <<>> \/ ready = mark

\* free(ready), for a heap node.
Freed(n) == [m \in HeapNodes |-> IF m = n THEN None ELSE fiberOf[m]]

\* One iteration up to the transfer: a heap node is removed and freed first.
FlushStep ==
    /\ current = Loop /\ flushing /\ ~FlushDone
    /\ LET n == Head(queue)
           x == IF n \in HeapNodes THEN fiberOf[n] ELSE n[1]
           q == IF n \in HeapNodes THEN Tail(queue) ELSE queue
       IN  /\ ready' = n
           /\ fiberOf' = Freed(n)
           /\ \/ /\ where[x] = "ended"
                 /\ queue' = q
                 /\ old' = old \cap Queued'
                 /\ UNCHANGED <<frame, where, current>>
              \/ /\ where[x] # "ended"
                 /\ SwitchTo(x, q, frame, [where EXCEPT ![Loop] = "away"])
    /\ UNCHANGED <<flushing, mark>>

FlushEnd ==
    /\ current = Loop /\ flushing /\ FlushDone
    /\ flushing' = FALSE /\ mark' = None /\ ready' = None
    /\ UNCHANGED <<queue, fiberOf, frame, where, current, old>>

-----------------------------------------------------------------------------

Flush == FlushBegin \/ FlushStep \/ FlushEnd

BackToLoop(f) == Yield(f) \/ LoopYield(f) \/ End(f) \/ Fail(f)

Next ==
    \/ Flush
    \/ \E f \in Fibers : Push(f) \/ BackToLoop(f)
    \/ \E x \in AllFibers, y \in Fibers : Resume(x, y)

Spec == Init /\ [][Next]_vars

\* The loop calls select again and again, and a user fiber that runs gives
\* control back to the loop at some point.
Fairness ==
    /\ SF_vars(FlushBegin) /\ WF_vars(FlushStep) /\ WF_vars(FlushEnd)
    /\ WF_vars(\E f \in Fibers : BackToLoop(f))

FairSpec == Spec /\ Fairness

-----------------------------------------------------------------------------
(***************************************************************************)
(* Properties                                                               *)
(***************************************************************************)

\* The frames in the queue are those of the fibers suspended in resume, raise or
\* yield, each once: no frame of a call that has returned can be reached, and
\* no suspended caller is forgotten.
FramesLive ==
    /\ Queued \cap Frames = {frame[x] : x \in {y \in AllFibers : where[y] = "queued"}}
    /\ \A x \in AllFibers : where[x] = "queued" => frame[x] \in Frames /\ frame[x][1] = x

\* The heap nodes in the queue are exactly the allocated ones: none is freed
\* while queued, none leaks, even when a flush ends by an exception.
HeapLive == Queued \cap HeapNodes = {n \in HeapNodes : fiberOf[n] # None}

\* No node is in the queue twice.
NoDuplicates == \A i, j \in 1..Len(queue) : queue[i] = queue[j] => i = j

\* While the flush runs, the loop is not itself in the queue: the flush never
\* transfers to its own fiber.
LoopNotQueued == flushing => \A s \in Slots : <<Loop, s>> \notin Queued

\* The queue reaches no dead frame and no freed node, however fibers resume, raise in,
\* queue and end each other while it is flushed.
NodesLive == FramesLive /\ HeapLive /\ NoDuplicates /\ LoopNotQueued

\* A flush that ends normally has run everything that was ready when it began.
FlushComplete == [][FlushEnd => old = {}]_vars

\* Somebody else has removed the node the flush is to end at: its fiber was queued
\* twice, or resumed by another fiber.
Overtaken == flushing /\ ready # mark /\ mark \notin Queued

\* A flush ends although fibers keep adding themselves to the queue, unless it is
\* overtaken; it always does when nobody else removes a node.
FlushReturns == flushing ~> ~flushing \/ Overtaken

\* "to avoid this situation, we keep note of the current head of the queue and break the
\* loop if we reach the same item again" (selector.c:361): every flush ends.
FlushAlwaysReturns == flushing ~> ~flushing

\* A fiber that is suspended in resume, raise or yield runs again, and a node that was
\* pushed is taken out of the queue, though others are queued all the time.
QueuedRuns ==
    /\ \A f \in Fibers : where[f] = "queued" ~> where[f] # "queued"
    /\ \A n \in HeapNodes : fiberOf[n] # None ~> fiberOf[n] = None

=============================================================================
