------------------------------- MODULE Timers -------------------------------
(***************************************************************************)
(* IO::Event::Timers (lib/io/event/timers.rb): timers are scheduled into a  *)
(* list, flushed into the heap by wait_interval, fire and size, and         *)
(* cancelled where they are.  The blocks fire calls are user code: they     *)
(* schedule, cancel, ask for the interval and fire again.                   *)
(*                                                                          *)
(* A handle is known by its place: in the list, in the heap, or in the      *)
(* hands of the user after it was taken out of the heap.                    *)
(***************************************************************************)
EXTENDS Naturals, FiniteSets, Sequences, SequencesExt, PriorityHeap

CONSTANTS
    Times,                   \* the times of timers and of the clock
    COMPACT_MINIMUM_COUNT,
    MaxHandles,              \* bound: handles in the list and the heap
    MaxDepth                 \* bound: calls of fire inside each other

ASSUME TimersAssumption ==
    /\ Times \subseteq Nat
    /\ COMPACT_MINIMUM_COUNT \in Nat \ {0}
    /\ MaxHandles \in Nat /\ MaxDepth \in Nat

VARIABLES
    heap,         \* contents of @heap
    scheduled,    \* @scheduled
    cancelled,    \* @cancelled
    out,          \* the handle taken out of the heap last, in a sequence
    fires,        \* `now` of the calls of fire that have not returned
    inside,       \* the last of them is in its loop, not in a block
    event         \* history: what the last step has done to a timer

vars == <<heap, scheduled, cancelled, out, fires, inside, event>>

\* time, whether it has its block, and whether @timers is set.
Handle == [time : Times, block : BOOLEAN, timers : BOOLEAN]

Nothing == [what |-> "nothing"]
Event ==
    {Nothing} \cup [what : {"schedule", "cancel"}, time : Times]
              \cup [what : {"fire"}, time : Times, now : Times]

TypeOK ==
    /\ heap \in Seq(Handle)
    /\ scheduled \in Seq(Handle)
    /\ cancelled \in 0 .. MaxHandles
    /\ out \in Seq(Handle) /\ Len(out) <= 1
    /\ fires \in Seq(Times)
    /\ inside \in BOOLEAN /\ (inside => fires # <<>>)
    /\ event \in Event

\* Timers#initialize.
Init ==
    /\ heap = <<>> /\ scheduled = <<>> /\ cancelled = 0
    /\ out = <<>> /\ fires = <<>> /\ inside = FALSE /\ event = Nothing

IsCancelled(h) == ~ h.block
Live(h) == h.block

-----------------------------------------------------------------------------
(***************************************************************************)
(* Handles                                                                  *)
(***************************************************************************)

\* Timers#schedule.
Schedule(t) ==
    /\ ~ inside
    /\ Len(heap) + Len(scheduled) < MaxHandles
    /\ scheduled' = Append(scheduled, [time |-> t, block |-> TRUE, timers |-> FALSE])
    /\ event' = [what |-> "schedule", time |-> t]
    /\ UNCHANGED <<heap, cancelled, out, fires, inside>>

\* Mutant: every cancelled handle is counted.
CancelCounts(h) == 1

\* Handle#cancel! tells the Timers it is in, if any (cancelled!).
CancelCount(h) == IF h.timers THEN 1 ELSE 0

\* Handle#cancel! of the handle at q[i]; a second call changes nothing.
Cancelling(q, i) == [q EXCEPT ![i].block = FALSE, ![i].timers = FALSE]

Cancel ==
    /\ ~ inside
    /\ \/ \E i \in DOMAIN heap :
             /\ Live(heap[i])
             /\ heap' = Cancelling(heap, i)
             /\ cancelled' = cancelled + CancelCount(heap[i])
             /\ event' = [what |-> "cancel", time |-> heap[i].time]
             /\ UNCHANGED <<scheduled, out>>
       \/ \E i \in DOMAIN scheduled :
             /\ Live(scheduled[i])
             /\ scheduled' = Cancelling(scheduled, i)
             /\ cancelled' = cancelled + CancelCount(scheduled[i])
             /\ event' = [what |-> "cancel", time |-> scheduled[i].time]
             /\ UNCHANGED <<heap, out>>
       \/ \E i \in DOMAIN out :
             /\ Live(out[i])
             /\ out' = Cancelling(out, i)
             /\ cancelled' = cancelled + CancelCount(out[i])
             /\ event' = Nothing
             /\ UNCHANGED <<heap, scheduled>>
    /\ UNCHANGED <<fires, inside>>

-----------------------------------------------------------------------------
(***************************************************************************)
(* Flushing                                                                 *)
(***************************************************************************)

\* The heap and @cancelled, which operations pass on.
State == [heap |-> heap, cancelled |-> cancelled]

\* The handles of s that are not cancelled.
Remaining(s) == Reject(s, {h \in Range(s) : IsCancelled(h)})

\* schedule! of the scheduled handles that are not cancelled.
Inserted ==
    LET kept == Remaining(scheduled)
    IN  [i \in DOMAIN kept |-> [kept[i] EXCEPT !.timers = TRUE]]

\* Mutant: the heap is compacted when it holds nothing else.
FlushLazily ==
    IF cancelled >= COMPACT_MINIMUM_COUNT /\ cancelled >= Len(heap)
    THEN [heap |-> Heapify(Remaining(heap) \o Inserted), cancelled |-> 0]
    ELSE IF cancelled = Len(heap) /\ Inserted = <<>>
    THEN [heap |-> <<>>, cancelled |-> 0]
    ELSE [heap |-> Concat(heap, Inserted), cancelled |-> cancelled]

\* flush!: compaction, clearing or insertion.
Flushed ==
    IF cancelled >= COMPACT_MINIMUM_COUNT /\ cancelled * 2 > Len(heap)
    THEN [heap |-> Heapify(Remaining(heap) \o Inserted), cancelled |-> 0]
    ELSE IF cancelled = Len(heap) /\ Inserted = <<>>
    THEN [heap |-> <<>>, cancelled |-> 0]
    ELSE [heap |-> Concat(heap, Inserted), cancelled |-> cancelled]

\* Nothing is scheduled any more, and the heap and @cancelled are those of s.
Become(s) ==
    /\ event' = Nothing
    /\ scheduled' = <<>>
    /\ heap' = s.heap
    /\ cancelled' = s.cancelled

\* Timers#size, which does no more than flush.
Size ==
    /\ ~ inside
    /\ Become(Flushed)
    /\ UNCHANGED <<out, fires, inside>>

\* A cancelled handle at the root is popped (wait_interval, fire).
Skip(s) ==
    [heap |-> Pop(s.heap), cancelled |-> IF s.cancelled > 0 THEN s.cancelled - 1 ELSE 0]

\* One turn of the loop of wait_interval.
SkipStep(s) == IF s.heap # <<>> /\ IsCancelled(s.heap[1]) THEN Skip(s) ELSE s

SkipTurns(s) ==
    LET turn[n \in 0 .. Len(s.heap)] == IF n = 0 THEN s ELSE SkipStep(turn[n - 1])
    IN  turn

\* s without the cancelled handles that come first.
SkipAll(s) == SkipTurns(s)[Len(s.heap)]

\* Timers#wait_interval: what is at the root at its end is the earliest timer.
WaitInterval ==
    /\ ~ inside
    /\ Become(SkipAll(Flushed))
    /\ UNCHANGED <<out, fires, inside>>

-----------------------------------------------------------------------------
(***************************************************************************)
(* Timers#fire                                                              *)
(***************************************************************************)

FireBegin(now) ==
    /\ ~ inside
    /\ Len(fires) < MaxDepth
    /\ Become(Flushed)
    /\ fires' = Append(fires, now)
    /\ inside' = TRUE
    /\ UNCHANGED out

FireSkip ==
    /\ inside
    /\ heap # <<>> /\ IsCancelled(heap[1])
    /\ heap' = Skip(State).heap
    /\ cancelled' = Skip(State).cancelled
    /\ event' = Nothing
    /\ UNCHANGED <<scheduled, out, fires, inside>>

\* Mutant: the handle stays marked as being in the heap.
StillThere(h) == h

\* Handle#removed!
Removed(h) == [h EXCEPT !.timers = FALSE]

\* Mutant: what is due is called without a look at whether it was cancelled.
FireCallUnseen ==
    /\ inside
    /\ heap # <<>> /\ heap[1].time <= Last(fires)
    /\ heap' = Pop(heap)
    /\ out' = <<Removed(heap[1])>>
    /\ inside' = FALSE
    /\ event' = [what |-> "fire", time |-> heap[1].time, now |-> Last(fires)]
    /\ UNCHANGED <<scheduled, cancelled, fires>>

\* The earliest timer is due: it is removed and its block is called.
FireCall ==
    /\ inside
    /\ heap # <<>> /\ Live(heap[1]) /\ heap[1].time <= Last(fires)
    /\ heap' = Pop(heap)
    /\ out' = <<Removed(heap[1])>>
    /\ inside' = FALSE
    /\ event' = [what |-> "fire", time |-> heap[1].time, now |-> Last(fires)]
    /\ UNCHANGED <<scheduled, cancelled, fires>>

\* The block returns.
BlockReturns ==
    /\ ~ inside /\ fires # <<>>
    /\ inside' = TRUE
    /\ event' = Nothing
    /\ UNCHANGED <<heap, scheduled, cancelled, out, fires>>

\* The block raises, which ends fire.
BlockRaises ==
    /\ ~ inside /\ fires # <<>>
    /\ fires' = Front(fires)
    /\ event' = Nothing
    /\ UNCHANGED <<heap, scheduled, cancelled, out, inside>>

\* Mutant: a cancelled timer at the root ends the loop.
FireEndEarly ==
    /\ inside
    /\ heap # <<>> => IsCancelled(heap[1]) \/ heap[1].time > Last(fires)
    /\ fires' = Front(fires)
    /\ inside' = FALSE
    /\ event' = Nothing
    /\ UNCHANGED <<heap, scheduled, cancelled, out>>

FireEnd ==
    /\ inside
    /\ heap # <<>> => Live(heap[1]) /\ heap[1].time > Last(fires)
    /\ fires' = Front(fires)
    /\ inside' = FALSE
    /\ event' = Nothing
    /\ UNCHANGED <<heap, scheduled, cancelled, out>>

Next ==
    \/ Cancel \/ Size \/ WaitInterval
    \/ FireSkip \/ FireCall \/ BlockReturns \/ BlockRaises \/ FireEnd
    \/ \E t \in Times : Schedule(t) \/ FireBegin(t)

Spec == Init /\ [][Next]_vars

-----------------------------------------------------------------------------
(***************************************************************************)
(* Properties                                                               *)
(***************************************************************************)

Retained(s) == Cardinality({i \in DOMAIN s : IsCancelled(s[i])})

\* @cancelled is the number of "cancelled timers that are still retained in the heap"
\* (cancelled!): flush! clears the whole heap when it equals its size.
CancelledCounted == cancelled = Retained(heap)

\* After a flush, as size does it, few cancelled handles are retained, or no more than
\* half of the heap: a program that schedules and cancels does not fill it up.
RetentionBounded ==
    [][Size =>
          Retained(heap') < COMPACT_MINIMUM_COUNT \/ Retained(heap') * 2 <= Len(heap')]_vars

\* fire leaves no timer in the heap that is due, though it looks at the root alone, and
\* wait_interval finds the earliest timer of all, scheduled or in the heap, and never
\* takes a cancelled one for it.
EarliestFound ==
    /\ [][FireEnd => \A i \in DOMAIN heap : Live(heap[i]) => heap[i].time > Last(fires)]_vars
    /\ [][WaitInterval =>
             \A h \in Range(heap \o scheduled) :
                 Live(h) => heap' # <<>> /\ heap'[1].time <= h.time]_vars
    /\ [][WaitInterval => (heap' # <<>> => Live(heap'[1]))]_vars

\* The heap is one after every operation, whatever is cancelled in it and whichever of
\* its ways to insert concat takes ("Every element except the root must not be smaller
\* than its parent element", valid? of priority_heap.rb); delete and delete_if of any
\* such heap keep it one, and take out what they are asked to and nothing else.
DeletesExactly ==
    LET kept == DeleteIf(heap, {h \in Range(heap) : IsCancelled(h)})
    IN  /\ Valid(heap)
        /\ \A i \in DOMAIN heap :
              /\ Valid(Delete(heap, i))
              /\ Elements(Append(Delete(heap, i), heap[i])) = Elements(heap)
        /\ Valid(kept)
        /\ Elements(kept) = [h \in {g \in Range(heap) : Live(g)} |-> Elements(heap)[h]]

Count(s) == [t \in Times |-> Cardinality({i \in DOMAIN s : Live(s[i]) /\ s[i].time = t})]

\* Timers is the sorted set that TimerSet describes: a timer that was scheduled waits until
\* somebody cancels it or its block is called by fire, once, not before its time, not
\* behind a later one that fire knows of and not when it was cancelled.
Sorted == INSTANCE TimerSet WITH fresh <- Count(scheduled), pending <- Count(heap)
ImplementsTimerSet == Sorted!Spec

=============================================================================
