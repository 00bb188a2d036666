------------------------------- MODULE Select -------------------------------
(***************************************************************************)
(* The Ruby selector (lib/io/event/selector/select.rb): chains of Waiter    *)
(* structures, one per IO, that select dispatches events to, and the ready  *)
(* list with its Optional references.  How select blocks and is woken by    *)
(* other threads is the subject of Wakeup.                                  *)
(*                                                                          *)
(* `run` is the fiber that has control, or the loop.  A fiber is "idle" in  *)
(* user code, "waiting" in io_wait or "queued" in resume, raise or yield,   *)
(* with an Optional in the ready list.                                      *)
(***************************************************************************)
EXTENDS Naturals, Sequences, FiniteSets, SequencesExt

CONSTANTS
    Fibers, IOs, Loop, None,
    MaxWaiters,    \* bound: Waiter structures that something refers to
    MaxReady,      \* bound: length of the ready list
    MayEscape      \* an exception may leave a fiber that dispatch resumed

Events == {"readable", "writable"}
Waiters == 1 .. MaxWaiters

ASSUME BoundsAssumption == MaxWaiters \in Nat /\ MaxReady \in Nat
ASSUME SetsAssumption ==
    /\ Loop \notin Fibers
    /\ None \notin Fibers \cup IOs \cup Waiters
    /\ None \notin [io : IOs, events : SUBSET Events]
    /\ MayEscape \in BOOLEAN

VARIABLES
    open,        \* IOs that are not closed
    condition,   \* the events that hold of each
    waiting,     \* @waiting: the first Waiter of each IO's chain
    waiter,      \* the Waiter structures
    place,       \* where each fiber is
    at,          \* the Waiter of its io_wait
    value,       \* the events with which the fiber in control left io_wait
    ready,       \* @ready: Optional references and pushed fibers
    run,         \* who has control
    stage,       \* where select is
    left,        \* entries pop_ready has still to pop
    batch,       \* `ready` of select: the events of each IO that are to be dispatched
    current,     \* the IO whose chain is being dispatched
    cursor       \* the Waiter dispatch comes to next

ioVars == <<open, condition>>
waiterVars == <<waiting, waiter, at>>
fiberVars == <<place, value>>
selectVars == <<stage, left, batch, current, cursor>>
vars == <<ioVars, waiterVars, fiberVars, ready, run, selectVars>>

Entry == [optional : BOOLEAN, fiber : Fibers \cup {None}]

TypeOK ==
    /\ open \subseteq IOs
    /\ condition \in [IOs -> SUBSET Events]
    /\ waiting \in [IOs -> Waiters \cup {None}]
    /\ waiter \in [Waiters -> [fiber : Fibers \cup {None}, io : IOs \cup {None},
                               events : SUBSET Events, tail : Waiters \cup {None}]]
    /\ at \in [Fibers -> Waiters \cup {None}]
    /\ place \in [Fibers -> {"idle", "waiting", "queued"}]
    /\ value \in SUBSET Events
    /\ ready \in Seq(Entry) /\ Len(ready) <= MaxReady
    /\ run \in Fibers \cup {Loop}
    /\ stage \in {"outside", "popping", "collecting", "blocked", "dispatching"}
    /\ left \in 0 .. Len(ready)
    /\ batch \in [IOs -> SUBSET Events]
    /\ current \in IOs \cup {None}
    /\ cursor \in Waiters \cup {None}

Nobody == [fiber |-> None, io |-> None, events |-> {}, tail |-> None]

\* Select#initialize.
Init ==
    /\ open = IOs
    /\ condition = [io \in IOs |-> {}]
    /\ waiting = [io \in IOs |-> None]
    /\ waiter = [w \in Waiters |-> Nobody]
    /\ at = [f \in Fibers |-> None]
    /\ place = [f \in Fibers |-> "idle"]
    /\ value = {}
    /\ ready = <<>>
    /\ run = Loop
    /\ stage = "outside"
    /\ left = 0
    /\ batch = [io \in IOs |-> {}]
    /\ current = None
    /\ cursor = None

\* The smallest set of Waiters that holds w and, with each of them, its tail.
Reach(tail, w) ==
    {v \in Waiters :
        \A S \in SUBSET Waiters :
            (w \in S \cup {None} /\ \A u \in S : tail[u] \in S \cup {None}) => v \in S}

Tails == [v \in Waiters |-> waiter[v].tail]

\* The chain that starts with Waiter w.
Chain(w) == Reach(Tails, w)

\* Waiters that can be reached from @waiting, from dispatch or from an io_wait.
Referred ==
    UNION ({Chain(waiting[io]) : io \in IOs} \cup {Chain(cursor)} \cup {Chain(at[f]) : f \in Fibers})

-----------------------------------------------------------------------------
(***************************************************************************)
(* Fibers                                                                   *)
(***************************************************************************)

\* User code runs in a fiber, or in the loop between two calls of select.
UserRuns == run # Loop \/ stage = "outside"

\* Mutant: the Optional keeps its fiber.
Kept(q, f) == q

\* Optional#nullify by the ensure of resume, raise and yield.
Nullified(q, f) ==
    [i \in DOMAIN q |-> IF q[i] = [optional |-> TRUE, fiber |-> f] THEN [q[i] EXCEPT !.fiber = None] ELSE q[i]]

\* Waiter#invalidate by the ensure of io_wait: what is left of the Waiter is its tail.
Invalidate(f) ==
    waiter' = IF at[f] = None THEN waiter
              ELSE [waiter EXCEPT ![at[f]] = [Nobody EXCEPT !.tail = waiter[at[f]].tail]]

\* Control passes to fiber g with q as the ready list: its io_wait returns false, its
\* resume, raise or yield returns.
SwitchTo(g, q) ==
    /\ run' = g
    /\ Invalidate(g)
    /\ at' = [at EXCEPT ![g] = None]
    /\ value' = {}
    /\ ready' = Nullified(q, g)

\* Select#resume and Select#raise of g: who calls it is put into the ready list.  The
\* Optional of the loop is cleared when the loop goes on, before it looks at the list.
Resume(g) ==
    /\ UserRuns
    /\ run # g
    /\ Len(ready) < MaxReady
    /\ SwitchTo(g, Append(ready, [optional |-> TRUE, fiber |-> IF run = Loop THEN None ELSE run]))
    /\ place' = [f \in Fibers |-> CASE f = g -> "idle" [] f = run -> "queued" [] OTHER -> place[f]]
    /\ UNCHANGED <<ioVars, waiting, selectVars>>

\* Select#yield.
Yield ==
    /\ run # Loop
    /\ Len(ready) < MaxReady
    /\ ready' = Append(ready, [optional |-> TRUE, fiber |-> run])
    /\ place' = [place EXCEPT ![run] = "queued"]
    /\ run' = Loop
    /\ value' = {}
    /\ UNCHANGED <<ioVars, waiterVars, selectVars>>

\* Select#push.
Push(g) ==
    /\ UserRuns
    /\ Len(ready) < MaxReady
    /\ ready' = Append(ready, [optional |-> FALSE, fiber |-> g])
    /\ UNCHANGED <<ioVars, waiterVars, fiberVars, run, selectVars>>

\* Select#io_wait.
IoWait(io, events) ==
    /\ run # Loop
    /\ io \in open
    /\ \E w \in Waiters \ Referred :
          /\ \A v \in Waiters \ Referred : w <= v
          /\ waiter' = [v \in Waiters |->
                IF v = w THEN [fiber |-> run, io |-> io, events |-> events, tail |-> waiting[io]]
                ELSE IF v \in Referred THEN waiter[v] ELSE Nobody]
          /\ waiting' = [waiting EXCEPT ![io] = w]
          /\ at' = [at EXCEPT ![run] = w]
    /\ place' = [place EXCEPT ![run] = "waiting"]
    /\ run' = Loop
    /\ value' = {}
    /\ UNCHANGED <<ioVars, ready, selectVars>>

\* A fiber transfers to the loop, or ends.
GiveBack ==
    /\ run # Loop
    /\ run' = Loop
    /\ value' = {}
    /\ UNCHANGED <<ioVars, waiterVars, place, ready, selectVars>>

\* A fiber ends with an exception, which is raised in select.
Escape ==
    /\ run # Loop
    /\ stage = "popping" \/ (stage = "dispatching" /\ MayEscape)
    /\ run' = Loop
    /\ value' = {}
    /\ stage' = "outside"
    /\ left' = 0
    /\ batch' = [io \in IOs |-> {}]
    /\ current' = None
    /\ cursor' = None
    /\ UNCHANGED <<ioVars, waiterVars, place, ready>>

\* IO#close, here or by another thread while select is blocked.
Close(io) ==
    /\ UserRuns \/ stage = "blocked"
    /\ io \in open
    /\ open' = open \ {io}
    /\ condition' = [condition EXCEPT ![io] = {}]
    /\ UNCHANGED <<waiterVars, fiberVars, ready, run, selectVars>>

\* The other end of a pipe or socket.
Change(io) ==
    /\ stage = "blocked"
    /\ io \in open
    /\ \E e \in SUBSET Events : e # condition[io] /\ condition' = [condition EXCEPT ![io] = e]
    /\ UNCHANGED <<open, waiterVars, fiberVars, ready, run, selectVars>>

-----------------------------------------------------------------------------
(***************************************************************************)
(* Select#select                                                            *)
(***************************************************************************)

\* Mutant: one entry more is popped than there is.
PopBeginOneMore ==
    /\ run = Loop
    /\ stage = "outside"
    /\ stage' = "popping"
    /\ left' = Len(ready) + 1
    /\ UNCHANGED <<ioVars, waiterVars, fiberVars, ready, run, batch, current, cursor>>

\* pop_ready: as many entries are popped as there are now.
PopBegin ==
    /\ run = Loop
    /\ stage = "outside"
    /\ stage' = "popping"
    /\ left' = Len(ready)
    /\ UNCHANGED <<ioVars, waiterVars, fiberVars, ready, run, batch, current, cursor>>

\* An entry is popped and transferred to, unless its fiber has been cleared.
Pop ==
    /\ run = Loop
    /\ stage = "popping"
    /\ left > 0
    /\ left' = left - 1
    /\ IF Head(ready).fiber = None
       THEN ready' = Tail(ready) /\ UNCHANGED <<waiterVars, fiberVars, run>>
       ELSE /\ SwitchTo(Head(ready).fiber, Tail(ready))
            /\ place' = [place EXCEPT ![Head(ready).fiber] = "idle"]
            /\ UNCHANGED waiting
    /\ UNCHANGED <<ioVars, stage, batch, current, cursor>>

PopEnd ==
    /\ run = Loop
    /\ stage = "popping"
    /\ left = 0
    /\ stage' = "collecting"
    /\ UNCHANGED <<ioVars, waiterVars, fiberVars, ready, run, left, batch, current, cursor>>

\* Waiter#each: what the fibers in an IO's chain wait for.
Wanted(io) == UNION {waiter[w].events : w \in {v \in Chain(waiting[io]) : waiter[v].fiber # None}}

\* Mutant: the block of delete_if returns true for open IOs too.
CollectDropping ==
    /\ run = Loop
    /\ stage = "collecting"
    /\ waiting' = [io \in IOs |-> None]
    /\ stage' = "blocked"
    /\ UNCHANGED <<ioVars, waiter, at, fiberVars, ready, run, left, batch, current, cursor>>

\* Closed IOs are dropped, IO.select is called for the others.
Collect ==
    /\ run = Loop
    /\ stage = "collecting"
    /\ waiting' = [io \in IOs |-> IF io \in open THEN waiting[io] ELSE None]
    /\ stage' = "blocked"
    /\ UNCHANGED <<ioVars, waiter, at, fiberVars, ready, run, left, batch, current, cursor>>

\* IO.select raises when an IO it was given has been closed; otherwise it tells what
\* holds of each.
Poll ==
    /\ stage = "blocked"
    /\ IF \E io \in IOs \ open : Wanted(io) # {}
       THEN stage' = "outside" /\ UNCHANGED batch
       ELSE /\ batch' = [io \in IOs |-> Wanted(io) \cap condition[io]]
            /\ stage' = "dispatching"
    /\ UNCHANGED <<ioVars, waiterVars, fiberVars, ready, run, left, current, cursor>>

\* The chain of an IO with events is taken out of @waiting.
DispatchBegin(io) ==
    /\ run = Loop
    /\ stage = "dispatching"
    /\ current = None
    /\ batch[io] # {}
    /\ current' = io
    /\ cursor' = waiting[io]
    /\ waiting' = [waiting EXCEPT ![io] = None]
    /\ UNCHANGED <<ioVars, waiter, at, fiberVars, ready, run, stage, left, batch>>

\* Mutant: the fiber is resumed for whatever happened.
Matching(w) == batch[current]

\* revents of Waiter#dispatch.
Revents(w) == batch[current] \cap waiter[w].events

\* Mutant: a waiter that is not resumed is not put back.
ReactivateNothing(w) == UNCHANGED <<waiter, waiting>>

\* The block given to dispatch: the waiter is put back.
Reactivate(w) ==
    /\ waiter' = [waiter EXCEPT ![w].tail = waiting[current]]
    /\ waiting' = [waiting EXCEPT ![current] = w]

\* Mutant: the tail is read when the waiter has been put back.
TailAfter(w) == IF waiter'[w] = Nobody THEN waiter[w].tail ELSE waiter'[w].tail

\* tail of Waiter#dispatch, captured before anything else.
TailOf(w) == waiter[w].tail

\* Waiter#dispatch of the waiter at the cursor; nothing refers to one that is passed
\* and not put back.
Dispatch ==
    /\ run = Loop
    /\ cursor # None
    /\ LET f == waiter[cursor].fiber
       IN  IF f # None /\ Revents(cursor) = {}
           THEN Reactivate(cursor) /\ UNCHANGED <<at, fiberVars, run>>
           ELSE /\ waiter' = [waiter EXCEPT ![cursor] = Nobody]
                /\ UNCHANGED waiting
                /\ IF f = None
                   THEN UNCHANGED <<at, fiberVars, run>>
                   ELSE /\ run' = f
                        /\ at' = [at EXCEPT ![f] = None]
                        /\ place' = [place EXCEPT ![f] = "idle"]
                        /\ value' = Revents(cursor)
    /\ cursor' = TailOf(cursor)
    /\ UNCHANGED <<ioVars, ready, stage, left, batch, current>>

DispatchEnd ==
    /\ run = Loop
    /\ current # None
    /\ cursor = None
    /\ batch' = [batch EXCEPT ![current] = {}]
    /\ current' = None
    /\ UNCHANGED <<ioVars, waiterVars, fiberVars, ready, run, stage, left, cursor>>

SelectEnd ==
    /\ run = Loop
    /\ stage = "dispatching"
    /\ \A io \in IOs : batch[io] = {}
    /\ stage' = "outside"
    /\ UNCHANGED <<ioVars, waiterVars, fiberVars, ready, run, left, batch, current, cursor>>

SelectStep ==
    \/ PopBegin \/ Pop \/ PopEnd \/ Collect \/ Poll \/ Dispatch \/ DispatchEnd \/ SelectEnd
    \/ \E io \in IOs : DispatchBegin(io)

Next ==
    \/ SelectStep
    \/ Yield \/ GiveBack \/ Escape
    \/ \E g \in Fibers : Resume(g) \/ Push(g)
    \/ \E io \in IOs :
          \/ Close(io) \/ Change(io)
          \/ \E e \in (SUBSET Events) \ {{}} : IoWait(io, e)

\* The loop goes on when it has control.
Fairness == WF_vars(SelectStep)

Spec == Init /\ [][Next]_vars /\ Fairness

-----------------------------------------------------------------------------
(***************************************************************************)
(* Properties                                                               *)
(***************************************************************************)

\* What can resume a fiber belongs to the call the fiber is in: a Waiter to its io_wait,
\* an Optional of the ready list to its resume, raise or yield.  No event reaches a
\* fiber through a wait it has left, and pop_ready does not resume one that has gone
\* on and waits for something else by now (ensure of io_wait, resume, raise and yield).
ReferencesCurrent ==
    /\ \A w \in Referred : waiter[w].fiber # None => at[waiter[w].fiber] = w
    /\ \A i \in DOMAIN ready :
          ready[i].optional /\ ready[i].fiber # None =>
              /\ place[ready[i].fiber] = "queued"
              /\ \A j \in DOMAIN ready : ready[j] = ready[i] => j = i

\* A fiber in io_wait for an open IO is in the IO's chain, or in the rest of the chain
\* that is being dispatched, whoever waits, is put back or leaves meanwhile.
NoLostWaiter ==
    \A f \in Fibers :
        place[f] = "waiting" /\ waiter[at[f]].io \in open =>
            \/ at[f] \in Chain(waiting[waiter[at[f]].io])
            \/ current = waiter[at[f]].io /\ at[f] \in Chain(cursor)

\* No Waiter is in two places: chains are not shared and have no cycle, so that a
\* dispatch ends and resumes each fiber once (reactivation changes the tail of a
\* waiter that is still to be passed).
ChainsDisjoint ==
    LET roots == {<<io, waiting[io]>> : io \in IOs} \cup {<<None, cursor>>}
    IN  /\ \A r, s \in roots : r # s => Chain(r[2]) \cap Chain(s[2]) = {}
        /\ \A w \in Referred : waiter[w].tail # None => w \notin Chain(waiter[w].tail)

\* The wait each fiber is in.
WaitMap ==
    [f \in Fibers |-> IF place[f] = "waiting"
                      THEN [io |-> waiter[at[f]].io, events |-> waiter[at[f]].events]
                      ELSE None]

\* io_wait as IOWait promises it.
WaitSpec == INSTANCE IOWait WITH wait <- WaitMap
ImplementsIOWait == WaitSpec!Spec

\* As long as the loop comes to poll again and again, no fiber stays in io_wait while an
\* event it waits for goes on to hold of its open IO.
NoStuckWaiter ==
    []<>(stage = "blocked") =>
        \A f \in Fibers :
            ~ <>[](/\ place[f] = "waiting"
                   /\ waiter[at[f]].io \in open
                   /\ waiter[at[f]].events \cap condition[waiter[at[f]].io] # {})

=============================================================================
